----------------------------- MODULE PeopleProofs -----------------------------
(***************************************************************************)
(* Proofs about Portfolio, Membership, Records, FrontDoor and              *)
(* SchoolYearWizard, for any numbers of people, rows and requests: the     *)
(* words that a portfolio has given are kept, the memberships are those    *)
(* that somebody is entitled to, a transcript adds up, a final document    *)
(* keeps its lines, nobody is shut out who should be in, and a school year *)
(* that is told to be ready is the one that was reviewed.                  *)
(*                                                                         *)
(* The arguments are of one kind.  A request commits on what it has read   *)
(* before, so the invariant says, of each request in flight, what is still *)
(* true of that, and the histories of the modules name the exceptions.     *)
(***************************************************************************)
EXTENDS Portfolio, Membership, Records, FrontDoor, SchoolYearWizard,
        FiniteSetTheorems, TLAPS

-----------------------------------------------------------------------------
(* The portfolio.                                                          *)

States == {"unused", "here", "gone"}
Owners == Students \cup {Nobody}
Stored == [student : Owners, entry : Entries, n : Nat]

EntryRow      == [state : States, student : Owners, attachments : SUBSET Stored]
CollectionRow == [state : States, student : Owners, entries : SUBSET Entries, public : BOOLEAN, token : Nat]

Attaching == [doing : {"attaching"}, on : Entries, read : EntryRow, overtaken : BOOLEAN, file : Stored]
Moving    == [doing : {"moving"}, on : Entries, overtaken : BOOLEAN, student : Students]
Deleting  == [doing : {"deleting"}, on : Entries, overtaken : BOOLEAN,
              lists : UNION {[some -> SUBSET Entries] : some \in SUBSET Collections}]
Sharing   == [doing : {"saving"}, on : Collections, read : CollectionRow, overtaken : BOOLEAN,
              student : Owners, entries : SUBSET Entries, public : BOOLEAN]

PortfolioType ==
    /\ students \subseteq Students
    /\ entry \in [Entries -> EntryRow]
    /\ collection \in [Collections -> CollectionRow]
    /\ editing \in [Editors -> {Free} \cup Attaching \cup Moving \cup Deleting \cup Sharing]
    /\ stored \in Nat /\ tokens \in Nat
    /\ attached \subseteq Stored /\ links \subseteq Collections \X Nat /\ withdrawn \subseteq Nat

\* An attachment that nobody has overtaken has read the entry as it is; its file has the
\* path of the entry and the student that it has read.
AttachesToWhatIsThere ==
    \A t \in Editors : editing[t].doing = "attaching" =>
        LET asked == editing[t] IN
        /\ asked.file.entry = asked.on /\ asked.file.student = asked.read.student
        /\ entry[asked.on].state # "unused"
        /\ ~asked.overtaken /\ IsHere(entry, asked.on) => entry[asked.on] = asked.read

\* A request that nobody has overtaken has read the collection's link as it is.
SavesWhatIsThere ==
    \A t \in Editors : editing[t].doing = "saving" =>
        LET asked == editing[t] IN
        /\ asked.read.public <=> asked.read.token # NoToken
        /\ collection[asked.on].state # "unused"
        /\ ~asked.overtaken /\ IsHere(collection, asked.on) =>
               collection[asked.on].token = asked.read.token /\ collection[asked.on].public = asked.read.public

\* The files that were attached are those of entries, present or gone.
AttachedHasEntry == \A file \in attached : entry[file.entry].state # "unused"

\* A collection is public when it has a token; tokens are made once, and no two
\* collections have the same; one that was withdrawn is nobody's.
TokensAreOnes ==
    /\ \A k \in Collections : collection[k].public <=> collection[k].token # NoToken
    /\ \A k \in Collections : collection[k].state = "unused" => collection[k].token = NoToken
    /\ \A k \in Collections : collection[k].token <= tokens
    /\ \A k, l \in Collections : k # l /\ collection[k].token = collection[l].token => collection[k].token = NoToken
    /\ \A token \in withdrawn : token # NoToken /\ token <= tokens
    /\ \A k \in Collections : IsHere(collection, k) => collection[k].token \notin withdrawn

LinksOpen == \A link \in links : Opens(link[2], link[1]) /\ link[2] # NoToken

PortfolioInv ==
    PortfolioType /\ AttachesToWhatIsThere /\ SavesWhatIsThere /\ TokensAreOnes /\ AttachedHasEntry /\ AttachedIsServed
    /\ LinksOpen

\* The invariant gives the property.
LEMMA PortfolioInvKeeps == PortfolioInv => PortfolioIsKept
BY DEF PortfolioInv, PortfolioType, TokensAreOnes, LinksOpen, PortfolioIsKept, LinksAreKept, Opens, NoToken, CollectionRow

\* The initial states satisfy it.
LEMMA PortfolioInvInit == PortfolioInit => PortfolioInv
<1>. SUFFICES ASSUME PortfolioInit PROVE PortfolioInv
    OBVIOUS
<1>1. PortfolioType
  <2>1. entry \in [Entries -> EntryRow]
    BY DEF PortfolioInit, EntryRow, States, Owners
  <2>2. collection \in [Collections -> CollectionRow]
    BY DEF PortfolioInit, CollectionRow, States, Owners, NoToken
  <2>3. editing \in [Editors -> {Free}]
    BY DEF PortfolioInit
  <2> QED  BY <2>1, <2>2, <2>3 DEF PortfolioInit, PortfolioType
<1>2. \A t \in Editors : editing[t].doing = "nothing"
  BY DEF PortfolioInit, Free
<1>3. AttachesToWhatIsThere /\ SavesWhatIsThere
  BY <1>2 DEF AttachesToWhatIsThere, SavesWhatIsThere
<1>4. TokensAreOnes
  BY DEF PortfolioInit, TokensAreOnes, NoToken
<1> QED  BY <1>1, <1>3, <1>4 DEF PortfolioInit, PortfolioInv, AttachedHasEntry, AttachedIsServed, LinksOpen

-----------------------------------------------------------------------------

\* Requests that begin: what they have read is there.
LEMMA Begins ==
    ASSUME PortfolioInv, NEW t \in Editors, NEW asked, Begin(t, asked),
           asked \in Attaching \cup Moving \cup Deleting \cup Sharing,
           asked.doing = "attaching" =>
               IsHere(entry, asked.on) /\ asked.read = entry[asked.on] /\ asked.file.entry = asked.on /\ asked.file.student = asked.read.student,
           asked.doing = "saving" => IsHere(collection, asked.on) /\ asked.read = collection[asked.on],
           stored' \in Nat, UNCHANGED <<students, entry, collection, tokens, histories>>
    PROVE  PortfolioInv'
<1> USE DEF PortfolioInv, histories
<1>1. editing' = [editing EXCEPT ![t] = asked]
  BY DEF Begin
<1>2. PortfolioType'
  BY <1>1 DEF PortfolioType
<1>3. AttachesToWhatIsThere'
  <2> SUFFICES ASSUME NEW u \in Editors, editing'[u].doing = "attaching"
               PROVE  LET a == editing'[u] IN
                      /\ a.file.entry = a.on /\ a.file.student = a.read.student
                      /\ entry[a.on].state # "unused"
                      /\ ~a.overtaken /\ IsHere(entry, a.on) => entry[a.on] = a.read
    BY DEF AttachesToWhatIsThere, IsHere
  <2>1. CASE u = t
    BY <1>1, <2>1 DEF PortfolioType, IsHere
  <2>2. CASE u # t
    BY <1>1, <2>2 DEF AttachesToWhatIsThere, PortfolioType
  <2> QED  BY <2>1, <2>2
<1>4. SavesWhatIsThere'
  <2> SUFFICES ASSUME NEW u \in Editors, editing'[u].doing = "saving"
               PROVE  LET a == editing'[u] IN
                      /\ a.read.public <=> a.read.token # NoToken
                      /\ collection[a.on].state # "unused"
                      /\ ~a.overtaken /\ IsHere(collection, a.on) =>
                             collection[a.on].token = a.read.token /\ collection[a.on].public = a.read.public
    BY DEF SavesWhatIsThere, IsHere
  <2>1. CASE u = t
    <3>1. asked.doing = "saving" /\ asked.on \in Collections
      BY <1>1, <2>1 DEF PortfolioType, Attaching, Moving, Deleting, Sharing
    <3> QED  BY <1>1, <2>1, <3>1 DEF PortfolioType, TokensAreOnes, IsHere
  <2>2. CASE u # t
    BY <1>1, <2>2 DEF SavesWhatIsThere, PortfolioType
  <2> QED  BY <2>1, <2>2
<1>5. TokensAreOnes' /\ AttachedHasEntry' /\ AttachedIsServed' /\ LinksOpen'
  BY DEF TokensAreOnes, AttachedHasEntry, AttachedIsServed, LinksOpen, IsServed, Opens, IsHere
<1> QED  BY <1>2, <1>3, <1>4, <1>5

\* Where a request is over, overtaken, or on a row that is the same or gone, the others
\* still know what they have read.
LEMMA Overtakes ==
    ASSUME PortfolioInv, PortfolioType',
           \A e \in Entries : entry[e].state # "unused" => entry'[e].state # "unused",
           \A k \in Collections : collection[k].state # "unused" => collection'[k].state # "unused",
           \A u \in Editors :
               \/ editing'[u] = Free
               \/ editing[u] # Free /\ editing'[u] = [editing[u] EXCEPT !.overtaken = TRUE]
               \/ /\ editing'[u] = editing[u]
                  /\ \A e \in Entries : e = editing[u].on /\ IsHere(entry', e) => entry'[e] = entry[e]
                  /\ \A k \in Collections : k = editing[u].on /\ IsHere(collection', k) =>
                         /\ IsHere(collection, k)
                         /\ collection'[k].token = collection[k].token /\ collection'[k].public = collection[k].public
    PROVE  AttachesToWhatIsThere' /\ SavesWhatIsThere'
<1>1. AttachesToWhatIsThere'
  <2> SUFFICES ASSUME NEW u \in Editors, editing'[u].doing = "attaching"
               PROVE  LET a == editing'[u] IN
                      /\ a.file.entry = a.on /\ a.file.student = a.read.student
                      /\ entry'[a.on].state # "unused"
                      /\ ~a.overtaken /\ IsHere(entry', a.on) => entry'[a.on] = a.read
    BY DEF AttachesToWhatIsThere, IsHere
  <2>1. editing'[u] # Free
    BY DEF Free
  <2>2. CASE editing[u] # Free /\ editing'[u] = [editing[u] EXCEPT !.overtaken = TRUE]
    <3>1. editing[u] \in Attaching /\ editing'[u].overtaken
      BY <2>2 DEF PortfolioInv, PortfolioType, Attaching, Moving, Deleting, Sharing
    <3> QED  BY <2>2, <3>1 DEF PortfolioInv, AttachesToWhatIsThere, Attaching
  <2>3. CASE /\ editing'[u] = editing[u]
             /\ \A e \in Entries : e = editing[u].on /\ IsHere(entry', e) => entry'[e] = entry[e]
    <3>1. editing[u] \in Attaching
      BY <2>1, <2>3 DEF PortfolioInv, PortfolioType, Attaching, Moving, Deleting, Sharing
    <3> QED  BY <2>3, <3>1 DEF PortfolioInv, AttachesToWhatIsThere, Attaching, IsHere
  <2> QED  BY <2>1, <2>2, <2>3
<1>2. SavesWhatIsThere'
  <2> SUFFICES ASSUME NEW u \in Editors, editing'[u].doing = "saving"
               PROVE  LET a == editing'[u] IN
                      /\ a.read.public <=> a.read.token # NoToken
                      /\ collection'[a.on].state # "unused"
                      /\ ~a.overtaken /\ IsHere(collection', a.on) =>
                             collection'[a.on].token = a.read.token /\ collection'[a.on].public = a.read.public
    BY DEF SavesWhatIsThere, IsHere
  <2>1. editing'[u] # Free
    BY DEF Free
  <2>2. CASE editing[u] # Free /\ editing'[u] = [editing[u] EXCEPT !.overtaken = TRUE]
    <3>1. editing[u] \in Sharing /\ editing'[u].overtaken
      BY <2>2 DEF PortfolioInv, PortfolioType, Attaching, Moving, Deleting, Sharing
    <3> QED  BY <2>2, <3>1 DEF PortfolioInv, SavesWhatIsThere, Sharing
  <2>3. CASE /\ editing'[u] = editing[u]
             /\ \A k \in Collections : k = editing[u].on /\ IsHere(collection', k) =>
                         /\ IsHere(collection, k)
                         /\ collection'[k].token = collection[k].token /\ collection'[k].public = collection[k].public
    <3>1. editing[u] \in Sharing
      BY <2>1, <2>3 DEF PortfolioInv, PortfolioType, Attaching, Moving, Deleting, Sharing
    <3> QED  BY <2>3, <3>1 DEF PortfolioInv, SavesWhatIsThere, Sharing
  <2> QED  BY <2>1, <2>2, <2>3
<1> QED  BY <1>1, <1>2

\* What a request that is answered leaves in flight.
LEMMA Finishes ==
    ASSUME PortfolioAssumption, PortfolioInv, NEW t \in Editors, NEW id \in Entries \cup Collections, Finish(t, id)
    PROVE  /\ editing' \in [Editors -> {Free} \cup Attaching \cup Moving \cup Deleting \cup Sharing]
           /\ \A u \in Editors :
                  \/ editing'[u] = Free
                  \/ editing[u] # Free /\ editing'[u] = [editing[u] EXCEPT !.overtaken = TRUE]
                  \/ editing'[u] = editing[u] /\ editing[u].on # id
<1> DEFINE Some == {Free} \cup Attaching \cup Moving \cup Deleting \cup Sharing
<1>1. ASSUME NEW u \in Editors
      PROVE  /\ editing'[u] \in Some
             /\ \/ editing'[u] = Free
                \/ editing[u] # Free /\ editing'[u] = [editing[u] EXCEPT !.overtaken = TRUE]
                \/ editing'[u] = editing[u] /\ editing[u].on # id
  <2>1. editing[u] \in Some
    BY DEF PortfolioInv, PortfolioType
  <2>2. editing[u].on = id => editing[u] # Free
    BY DEF Free, PortfolioAssumption
  <2>3. editing[u] # Free => [editing[u] EXCEPT !.overtaken = TRUE] \in Some
    BY <2>1 DEF Attaching, Moving, Deleting, Sharing
  <2> QED  BY <2>1, <2>2, <2>3 DEF Finish
<1>2. editing' \in [Editors -> Some]
  BY <1>1 DEF Finish
<1> QED  BY <1>1, <1>2

-----------------------------------------------------------------------------

LEMMA CreatingEntryKeeps ==
    ASSUME PortfolioInv, NEW e \in Entries, NEW s \in students, CreateEntry(e, s)
    PROVE  PortfolioInv'
<1> USE DEF histories
<1>1. PortfolioType'
  BY DEF PortfolioInv, PortfolioType, CreateEntry, EntryRow, States, Owners
<1>2. AttachesToWhatIsThere' /\ SavesWhatIsThere'
  BY <1>1, Overtakes DEF CreateEntry, IsHere, PortfolioInv, PortfolioType, AttachesToWhatIsThere, SavesWhatIsThere
<1>3. TokensAreOnes' /\ LinksOpen'
  BY DEF PortfolioInv, CreateEntry, TokensAreOnes, LinksOpen, Opens, IsHere
<1>4. AttachedHasEntry' /\ AttachedIsServed'
  BY DEF PortfolioInv, PortfolioType, CreateEntry, AttachedHasEntry, AttachedIsServed, IsServed, IsHere, Stored
<1> QED  BY <1>1, <1>2, <1>3, <1>4 DEF PortfolioInv

LEMMA AttachingKeeps ==
    ASSUME PortfolioAssumption, PortfolioInv, NEW t \in Editors, CommitAttach(t)
    PROVE  PortfolioInv'
<1> DEFINE asked == editing[t]
           e     == asked.on
<1>1. asked \in Attaching /\ e \in Entries /\ IsHere(entry, e)
  BY DEF PortfolioInv, PortfolioType, CommitAttach, Free, Attaching, Moving, Deleting, Sharing
<1>2. Finish(t, e)
  BY DEF CommitAttach
<1>3. entry' = [entry EXCEPT ![e].attachments = asked.read.attachments \cup {asked.file}]
  BY DEF CommitAttach
<1>4. PortfolioType'
  <2>1. entry' \in [Entries -> EntryRow]
    BY <1>1, <1>3 DEF PortfolioInv, PortfolioType, EntryRow, Attaching
  <2>2. attached' \subseteq Stored
    BY <1>1 DEF PortfolioInv, PortfolioType, CommitAttach, Attaching
  <2> QED  BY <2>1, <2>2, <1>1, <1>2, Finishes DEF PortfolioInv, PortfolioType, CommitAttach
<1>5. AttachesToWhatIsThere' /\ SavesWhatIsThere'
  <2>1. /\ \A u \in Entries : u # e => entry'[u] = entry[u]
        /\ entry'[e].state = entry[e].state
    BY <1>1, <1>3 DEF PortfolioInv, PortfolioType, EntryRow
  <2> QED  BY <2>1, <1>1, <1>2, <1>4, Finishes, Overtakes DEF CommitAttach, PortfolioAssumption, IsHere
<1>6. AttachedIsServed'
  <2> SUFFICES ASSUME NEW file \in attached', IsHere(entry', file.entry) PROVE IsServed(file)'
    BY DEF AttachedIsServed, IsHere
  <2>1. file \in Stored
    BY <1>4 DEF PortfolioType
  <2>2. CASE file.entry # e
    <3>1. file \in attached
      BY <2>2, <1>1 DEF CommitAttach, PortfolioInv, AttachesToWhatIsThere
    <3> QED  BY <2>1, <2>2, <3>1, <1>1, <1>3 DEF PortfolioInv, PortfolioType, AttachedIsServed, IsServed, IsHere, Stored
  <2>3. CASE file.entry = e
    <3>1. ~asked.overtaken
      BY <2>3 DEF CommitAttach, AttachmentsOf
    <3>2. entry[e] = asked.read /\ asked.file.student = asked.read.student
      BY <3>1, <1>1 DEF PortfolioInv, AttachesToWhatIsThere, Attaching
    <3>3. file \in attached \cup {asked.file}
      BY DEF CommitAttach
    <3> QED  BY <2>1, <2>3, <3>2, <3>3, <1>1, <1>3 DEF PortfolioInv, PortfolioType, EntryRow, AttachedIsServed, IsServed, IsHere, Stored
  <2> QED  BY <2>2, <2>3
<1>7. AttachedHasEntry'
  BY <1>1, <1>3 DEF PortfolioInv, PortfolioType, EntryRow, Stored, CommitAttach, AttachedHasEntry, AttachesToWhatIsThere
<1>8. TokensAreOnes' /\ LinksOpen'
  BY DEF PortfolioInv, CommitAttach, TokensAreOnes, LinksOpen, Opens, IsHere
<1> QED  BY <1>4, <1>5, <1>6, <1>7, <1>8 DEF PortfolioInv

LEMMA MovingKeeps ==
    ASSUME PortfolioAssumption, PortfolioInv, NEW t \in Editors, CommitMove(t)
    PROVE  PortfolioInv'
<1> DEFINE asked == editing[t]
           e     == asked.on
<1>1. asked \in Moving /\ e \in Entries /\ IsHere(entry, e)
  BY DEF PortfolioInv, PortfolioType, CommitMove, Free, Attaching, Moving, Deleting, Sharing
<1>2. Finish(t, e)
  BY DEF CommitMove
<1>3. entry' = [entry EXCEPT ![e].student = asked.student]
  BY DEF CommitMove
<1>4. PortfolioType'
  <2>1. entry' \in [Entries -> EntryRow]
    BY <1>1, <1>3 DEF PortfolioInv, PortfolioType, EntryRow, Moving, Owners
  <2> QED  BY <2>1, <1>1, <1>2, Finishes DEF PortfolioInv, PortfolioType, CommitMove
<1>5. /\ \A u \in Entries : u # e => entry'[u] = entry[u]
      /\ entry'[e].state = entry[e].state
  BY <1>1, <1>3 DEF PortfolioInv, PortfolioType, EntryRow
<1>6. AttachesToWhatIsThere' /\ SavesWhatIsThere'
  BY <1>5, <1>1, <1>2, <1>4, Finishes, Overtakes DEF CommitMove, PortfolioAssumption, IsHere
<1>7. AttachedHasEntry' /\ AttachedIsServed'
  BY <1>5, <1>4, <1>1 DEF PortfolioInv, PortfolioType, AttachedHasEntry, AttachedIsServed, IsServed, IsHere, Stored, CommitMove, AttachmentsOf
<1>8. TokensAreOnes' /\ LinksOpen'
  BY DEF PortfolioInv, CommitMove, TokensAreOnes, LinksOpen, Opens, IsHere
<1> QED  BY <1>4, <1>6, <1>7, <1>8 DEF PortfolioInv

LEMMA DeletingEntryKeeps ==
    ASSUME PortfolioAssumption, PortfolioInv, NEW t \in Editors, CommitDelete(t)
    PROVE  PortfolioInv'
<1> USE DEF histories
<1> DEFINE asked == editing[t]
           e     == asked.on
<1>1. asked \in Deleting /\ e \in Entries
  BY DEF PortfolioInv, PortfolioType, CommitDelete, Free, Attaching, Moving, Deleting, Sharing
<1>2. PICK some \in SUBSET Collections : asked.lists \in [some -> SUBSET Entries]
  BY <1>1 DEF Deleting
<1>3. Finish(t, e) /\ entry' = [entry EXCEPT ![e].state = "gone"]
  BY DEF CommitDelete
<1>4. \A k \in Collections : collection'[k] \in CollectionRow
          /\ collection'[k].state = collection[k].state
          /\ collection'[k].public = collection[k].public /\ collection'[k].token = collection[k].token
  <2> SUFFICES ASSUME NEW k \in Collections
               PROVE  collection'[k] \in CollectionRow
                      /\ collection'[k].state = collection[k].state
                      /\ collection'[k].public = collection[k].public /\ collection'[k].token = collection[k].token
    OBVIOUS
  <2>1. CASE k \in DOMAIN asked.lists
    <3>1. collection'[k] = [collection[k] EXCEPT !.entries = asked.lists[k] \ {e}]
      BY <2>1 DEF CommitDelete
    <3> QED  BY <3>1, <2>1, <1>2 DEF PortfolioInv, PortfolioType, CollectionRow
  <2>2. CASE k \notin DOMAIN asked.lists
    BY <2>2 DEF CommitDelete, PortfolioInv, PortfolioType
  <2> QED  BY <2>1, <2>2
<1>5. PortfolioType'
  <2>1. entry' \in [Entries -> EntryRow]
    BY <1>1, <1>3 DEF PortfolioInv, PortfolioType, EntryRow, States
  <2>2. collection' \in [Collections -> CollectionRow]
    BY <1>4 DEF CommitDelete
  <2> QED  BY <2>1, <2>2, <1>1, <1>3, Finishes DEF PortfolioInv, PortfolioType, CommitDelete
<1>6. /\ \A u \in Entries : u # e => entry'[u] = entry[u]
      /\ entry'[e].state = "gone"
  BY <1>1, <1>3 DEF PortfolioInv, PortfolioType, EntryRow
<1>7. AttachesToWhatIsThere' /\ SavesWhatIsThere'
  BY <1>4, <1>5, <1>6, <1>1, <1>3, Finishes, Overtakes DEF PortfolioAssumption, IsHere
<1>8. AttachedHasEntry' /\ AttachedIsServed'
  BY <1>6 DEF PortfolioInv, PortfolioType, AttachedHasEntry, AttachedIsServed, IsServed, IsHere, Stored, CommitDelete
<1>9. TokensAreOnes' /\ LinksOpen'
  BY <1>4 DEF PortfolioInv, PortfolioType, CommitDelete, TokensAreOnes, LinksOpen, Opens, IsHere
<1> QED  BY <1>5, <1>7, <1>8, <1>9 DEF PortfolioInv

\* A row of a collection that is written, with a token that is none, its own or a new one.
LEMMA TokenWrittenKeeps ==
    ASSUME PortfolioInv, NEW k \in Collections, NEW row \in CollectionRow,
           collection' = [collection EXCEPT ![k] = row], tokens' \in Nat, tokens <= tokens',
           row.public <=> row.token # NoToken, row.state # "unused",
           row.token \in {NoToken, collection[k].token} \/ (row.token = tokens' /\ tokens' = tokens + 1),
           IsHere(collection, k) \/ collection[k].token = NoToken,
           withdrawn' = withdrawn \cup ({collection[k].token} \ {NoToken, collection'[k].token})
    PROVE  TokensAreOnes' /\ withdrawn' \subseteq Nat
<1> USE DEF NoToken
<1>1. /\ collection'[k] = row
      /\ \A l \in Collections : l # k => collection'[l] = collection[l]
      /\ \A l \in Collections : collection[l] \in CollectionRow
  BY DEF PortfolioInv, PortfolioType
<1>2. collection[k].token \in Nat /\ row.token \in Nat /\ withdrawn \subseteq Nat /\ tokens \in Nat
  BY <1>1 DEF CollectionRow, PortfolioInv, PortfolioType
<1>3. \A l \in Collections : /\ collection'[l].public <=> collection'[l].token # NoToken
                             /\ collection'[l].state = "unused" => collection'[l].token = NoToken
  BY <1>1 DEF PortfolioInv, TokensAreOnes
<1>4. \A l \in Collections : collection'[l].token <= tokens'
  BY <1>1, <1>2 DEF PortfolioInv, TokensAreOnes, CollectionRow
<1>5. \A l \in Collections : l # k /\ collection'[k].token = collection'[l].token => collection'[k].token = NoToken
  <2> SUFFICES ASSUME NEW l \in Collections, l # k, row.token = collection[l].token PROVE row.token = NoToken
    BY <1>1
  <2>1. collection[l].token <= tokens /\ collection[l].token \in Nat
    BY <1>1 DEF PortfolioInv, TokensAreOnes, CollectionRow
  <2>2. CASE row.token \in {NoToken, collection[k].token}
    BY <2>2 DEF PortfolioInv, TokensAreOnes
  <2>3. CASE row.token = tokens' /\ tokens' = tokens + 1
    BY <2>1, <2>3, <1>2
  <2> QED  BY <2>2, <2>3
<1>6. \A l, j \in Collections :
          l # j /\ collection'[l].token = collection'[j].token => collection'[l].token = NoToken
  <2> TAKE l, j \in Collections
  <2>1. CASE l # k /\ j # k
    BY <2>1, <1>1 DEF PortfolioInv, TokensAreOnes
  <2>2. CASE l = k \/ j = k
    BY <2>2, <1>5
  <2> QED  BY <2>1, <2>2
<1>7. \A token \in withdrawn' : token # NoToken /\ token <= tokens' /\ token \in Nat
  BY <1>2 DEF PortfolioInv, TokensAreOnes
<1>8. \A l \in Collections : IsHere(collection', l) => collection'[l].token \notin withdrawn'
  <2> SUFFICES ASSUME NEW l \in Collections, IsHere(collection', l) PROVE collection'[l].token \notin withdrawn'
    OBVIOUS
  <2>1. CASE l # k
    BY <2>1, <1>1 DEF PortfolioInv, TokensAreOnes, IsHere
  <2>2. CASE l = k
    BY <2>2, <1>1, <1>2 DEF PortfolioInv, TokensAreOnes
  <2> QED  BY <2>1, <2>2
<1> QED  BY <1>3, <1>4, <1>6, <1>7, <1>8 DEF TokensAreOnes, IsHere

LEMMA CreatingCollectionKeeps ==
    ASSUME PortfolioInv, NEW k \in Collections, NEW s \in students, NEW some \in SUBSET Entries,
           NEW public \in BOOLEAN, CreateCollection(k, s, some, public)
    PROVE  PortfolioInv'
<1> DEFINE token == IF public THEN tokens + 1 ELSE NoToken
           row   == [state |-> "here", student |-> s, entries |-> some, public |-> public, token |-> token]
<1>1. tokens \in Nat /\ s \in Owners
  BY DEF PortfolioInv, PortfolioType, Owners
<1>2. row \in CollectionRow
  BY <1>1 DEF CollectionRow, States, NoToken
<1>3. collection' = [collection EXCEPT ![k] = row] /\ tokens' = IF public THEN tokens + 1 ELSE tokens
  BY DEF CreateCollection
<1>4. collection'[k] = row
  BY <1>3 DEF PortfolioInv, PortfolioType
<1>5. TokensAreOnes' /\ withdrawn' \subseteq Nat
  <2>1. row.public <=> row.token # NoToken
    BY <1>1 DEF NoToken
  <2>2. collection[k].token = NoToken
    BY DEF CreateCollection, PortfolioInv, TokensAreOnes
  <2>3. row.state # "unused" /\ tokens' \in Nat /\ tokens <= tokens'
    BY <1>1, <1>3
  <2>4. row.token \in {NoToken, collection[k].token} \/ (row.token = tokens' /\ tokens' = tokens + 1)
    BY <1>3
  <2> QED  BY <2>1, <2>2, <2>3, <2>4, <1>1, <1>2, <1>3, <1>4, TokenWrittenKeeps DEF CreateCollection, Promise
<1>6. PortfolioType'
  <2>1. collection' \in [Collections -> CollectionRow]
    BY <1>2, <1>3 DEF PortfolioInv, PortfolioType
  <2>2. links' \subseteq Collections \X Nat
    BY <1>1 DEF PortfolioInv, PortfolioType, CreateCollection, Promise
  <2> QED  BY <2>1, <2>2, <1>1, <1>3, <1>5 DEF PortfolioInv, PortfolioType, CreateCollection
<1>7. \A l \in Collections : l # k => collection'[l] = collection[l]
  BY <1>3 DEF PortfolioInv, PortfolioType
<1>8. collection[k].state = "unused"
  BY DEF CreateCollection
<1>9. AttachesToWhatIsThere' /\ SavesWhatIsThere'
  <2>1. AttachesToWhatIsThere'
    BY DEF PortfolioInv, CreateCollection, AttachesToWhatIsThere, IsHere
  <2>2. ASSUME NEW u \in Editors, editing[u].doing = "saving"
        PROVE  editing[u].on # k /\ editing[u].on \in Collections
    <3>1. editing[u] \in Sharing
      BY <2>2 DEF PortfolioInv, PortfolioType, Free, Attaching, Moving, Deleting, Sharing
    <3> QED  BY <2>2, <3>1, <1>8 DEF PortfolioInv, SavesWhatIsThere, Sharing
  <2> QED  BY <2>1, <2>2, <1>7 DEF PortfolioInv, CreateCollection, SavesWhatIsThere, IsHere
<1>10. AttachedHasEntry' /\ AttachedIsServed'
  BY DEF PortfolioInv, CreateCollection, AttachedHasEntry, AttachedIsServed, IsServed, IsHere
<1>11. LinksOpen'
  <2> SUFFICES ASSUME NEW link \in links' PROVE Opens(link[2], link[1])' /\ link[2] # NoToken
    BY DEF LinksOpen
  <2>1. CASE link \in links
    <3>1. link[1] \in Collections /\ link[1] # k
      BY <2>1, <1>8 DEF PortfolioInv, PortfolioType, LinksOpen, Opens, IsHere
    <3> QED  BY <2>1, <3>1, <1>7 DEF PortfolioInv, LinksOpen, Opens, IsHere
  <2>2. CASE link \notin links
    <3>1. link = <<k, token>> /\ token # NoToken
      BY <2>2 DEF CreateCollection, Promise
    <3>2. row.public
      BY <3>1, <1>1 DEF NoToken
    <3> QED  BY <3>1, <3>2, <1>4 DEF Opens, IsHere
  <2> QED  BY <2>1, <2>2
<1> QED  BY <1>5, <1>6, <1>9, <1>10, <1>11 DEF PortfolioInv

LEMMA SavingKeeps ==
    ASSUME PortfolioAssumption, PortfolioInv, NEW t \in Editors, CommitSave(t)
    PROVE  PortfolioInv'
<1> DEFINE asked == editing[t]
           k     == asked.on
           fresh == asked.public /\ asked.read.token = NoToken
           token == IF ~asked.public THEN NoToken ELSE IF fresh THEN tokens + 1 ELSE asked.read.token
           old   == collection[k]
           row   == [old EXCEPT
                       !.student = Written(@, asked.read.student, asked.student),
                       !.entries = Written(@, asked.read.entries, asked.entries),
                       !.public  = Written(@, asked.read.public, asked.public),
                       !.token   = Written(@, asked.read.token, token)]
<1>1. asked \in Sharing /\ k \in Collections /\ IsHere(collection, k) /\ Finish(t, k)
  BY DEF PortfolioInv, PortfolioType, CommitSave, Free, Attaching, Moving, Deleting, Sharing
<1>2. tokens \in Nat /\ old \in CollectionRow /\ asked.read \in CollectionRow
  BY <1>1 DEF PortfolioInv, PortfolioType, Sharing
<1>3. token \in Nat /\ asked.public \in BOOLEAN /\ asked.read.public \in BOOLEAN
  BY <1>1, <1>2 DEF CollectionRow, NoToken, Sharing
<1>4. collection' = [collection EXCEPT ![k] = row]
  BY <1>1, <1>2 DEF CommitSave, PortfolioInv, PortfolioType, CollectionRow
<1>5. row \in CollectionRow /\ row.state = "here"
  BY <1>1, <1>2, <1>3 DEF CollectionRow, Written, Sharing, IsHere
<1>6. tokens' = IF fresh THEN tokens + 1 ELSE tokens
  BY DEF CommitSave
<1>7. asked.read.public <=> asked.read.token # NoToken
  BY <1>1 DEF PortfolioInv, SavesWhatIsThere, Sharing
<1>8. row.public = Written(old.public, asked.read.public, asked.public)
      /\ row.token = Written(old.token, asked.read.token, token)
  BY <1>2 DEF CollectionRow
<1>9. row.token \in {NoToken, old.token} \/ (row.token = tokens' /\ tokens' = tokens + 1)
  BY <1>6, <1>8 DEF Written
<1>10. row.public <=> row.token # NoToken
  <2>1. old.public <=> old.token # NoToken
    BY <1>1 DEF PortfolioInv, TokensAreOnes
  <2>2. asked.public <=> token # NoToken
    BY <1>2, <1>3 DEF NoToken, CollectionRow
  <2>3. asked.public = asked.read.public <=> token = asked.read.token
    BY <1>7, <1>2, <1>3, <2>2 DEF NoToken, CollectionRow
  <2> QED  BY <1>8, <2>1, <2>2, <2>3, <1>3 DEF Written
<1>11. TokensAreOnes' /\ withdrawn' \subseteq Nat
  <2>1. tokens' \in Nat /\ tokens <= tokens'
    BY <1>2, <1>6
  <2> QED  BY <2>1, <1>1, <1>4, <1>5, <1>9, <1>10, TokenWrittenKeeps DEF CommitSave, Promise
<1>12. collection'[k] = row /\ \A l \in Collections : l # k => collection'[l] = collection[l]
  BY <1>1, <1>4 DEF PortfolioInv, PortfolioType
<1>a. /\ editing' \in [Editors -> {Free} \cup Attaching \cup Moving \cup Deleting \cup Sharing]
      /\ \A u \in Editors :
            \/ editing'[u] = Free
            \/ editing[u] # Free /\ editing'[u] = [editing[u] EXCEPT !.overtaken = TRUE]
            \/ editing'[u] = editing[u] /\ editing[u].on # k
  <2>1. k \in Entries \cup Collections /\ Finish(t, k)
    BY <1>1
  <2> HIDE DEF asked, k
  <2> QED  BY <2>1, Finishes
<1>13. PortfolioType'
  <2>1. collection' \in [Collections -> CollectionRow]
    BY <1>4, <1>5 DEF PortfolioInv, PortfolioType
  <2>2. links' \subseteq Collections \X Nat
    <3>1. links \subseteq Collections \X Nat /\ <<k, token>> \in Collections \X Nat
      BY <1>1, <1>3 DEF PortfolioInv, PortfolioType
    <3>2. links' \subseteq links \cup {<<k, token>>}
      BY DEF CommitSave, Promise
    <3> QED  BY <3>1, <3>2
  <2>3. tokens' \in Nat /\ withdrawn' \subseteq Nat
    BY <1>2, <1>6, <1>11
  <2>4. editing' \in [Editors -> {Free} \cup Attaching \cup Moving \cup Deleting \cup Sharing]
    BY <1>a
  <2> QED  BY <2>1, <2>2, <2>3, <2>4 DEF PortfolioInv, PortfolioType, CommitSave
<1>14. AttachesToWhatIsThere' /\ SavesWhatIsThere'
  <2>1. entry' = entry /\ collection[k].state = "here" /\ collection'[k].state = "here"
    BY <1>1, <1>5, <1>12 DEF CommitSave, IsHere
  <2> HIDE DEF asked, k, fresh, token, old, row
  <2>2. \A l \in Collections : collection[l].state # "unused" => collection'[l].state # "unused"
    BY <1>12, <2>1
  <2>3. \A l \in Collections : l # k => collection'[l] = collection[l] /\ (IsHere(collection', l) => IsHere(collection, l))
    BY <1>12 DEF IsHere
  <2>4. \A e \in Entries : entry'[e] = entry[e]
    BY <2>1
  <2>5. \A u \in Editors :
           \/ editing'[u] = Free
           \/ editing[u] # Free /\ editing'[u] = [editing[u] EXCEPT !.overtaken = TRUE]
           \/ /\ editing'[u] = editing[u]
              /\ \A e \in Entries : e = editing[u].on /\ IsHere(entry', e) => entry'[e] = entry[e]
              /\ \A l \in Collections : l = editing[u].on /\ IsHere(collection', l) =>
                     /\ IsHere(collection, l)
                     /\ collection'[l].token = collection[l].token /\ collection'[l].public = collection[l].public
    BY <1>a, <2>3, <2>4
  <2> QED  BY <1>13, <2>2, <2>4, <2>5, Overtakes
<1>15. AttachedHasEntry' /\ AttachedIsServed'
  BY DEF PortfolioInv, CommitSave, AttachedHasEntry, AttachedIsServed, IsServed, IsHere
<1>16. LinksOpen'
  <2> SUFFICES ASSUME NEW link \in links' PROVE Opens(link[2], link[1])' /\ link[2] # NoToken
    BY DEF LinksOpen
  <2>1. link \in links \/ link = <<k, token>>
    BY DEF CommitSave, Promise
  <2>2. CASE link[1] # k
    <3>1. link \in links /\ link[1] \in Collections
      BY <2>1, <2>2 DEF PortfolioInv, PortfolioType
    <3> QED  BY <2>2, <3>1, <1>12 DEF PortfolioInv, LinksOpen, Opens, IsHere
  <2>3. CASE link[1] = k
    <3>1. token # NoToken /\ ~asked.overtaken
      BY <2>3 DEF CommitSave, Promise
    <3>2. old.token = asked.read.token
      BY <1>1, <3>1 DEF PortfolioInv, SavesWhatIsThere, Sharing
    <3>3. row.token = token
      BY <1>8, <3>2 DEF Written
    <3>4. link[2] = token
      <4>1. CASE link = <<k, token>>
        BY <4>1
      <4>2. CASE link \in links
        <5>1. link[2] = old.token /\ link[2] # NoToken
          BY <4>2, <2>3 DEF PortfolioInv, LinksOpen, Opens
        <5> QED  BY <5>1, <3>1, <3>2
      <4> QED  BY <2>1, <4>1, <4>2
    <3> QED  BY <2>3, <3>1, <3>3, <3>4, <1>5, <1>10, <1>12 DEF Opens, IsHere
  <2> QED  BY <2>2, <2>3
<1> QED  BY <1>11, <1>13, <1>14, <1>15, <1>16 DEF PortfolioInv

\* Collections that go, with or without entries.
LEMMA RemovingKeeps ==
    ASSUME PortfolioInv, NEW some \in SUBSET Collections, RemoveCollections(some),
           \A k \in some : IsHere(collection, k),
           entry' \in [Entries -> EntryRow],
           \A e \in Entries : entry'[e] = entry[e] \/ entry'[e] = [entry[e] EXCEPT !.state = "gone"],
           students' \subseteq Students, UNCHANGED <<editing, stored, tokens, attached>>
    PROVE  PortfolioInv'
<1>1. \A k \in Collections :
          /\ k \in some => collection'[k] = [collection[k] EXCEPT !.state = "gone"]
          /\ k \notin some => collection'[k] = collection[k]
          /\ collection[k] \in CollectionRow
  BY DEF RemoveCollections, PortfolioInv, PortfolioType
<1>2. \A k \in Collections :
          /\ collection'[k].token = collection[k].token /\ collection'[k].public = collection[k].public
          /\ collection'[k].state = "unused" <=> collection[k].state = "unused"
          /\ IsHere(collection', k) <=> IsHere(collection, k) /\ k \notin some
          /\ collection'[k] \in CollectionRow
  <2> TAKE k \in Collections
  <2>1. CASE k \in some
    <3>1. collection[k] \in CollectionRow /\ collection'[k] = [collection[k] EXCEPT !.state = "gone"]
      BY <1>1, <2>1
    <3>2. IsHere(collection, k)
      BY <2>1
    <3>3. /\ collection'[k] \in CollectionRow /\ collection'[k].state = "gone"
          /\ collection'[k].token = collection[k].token /\ collection'[k].public = collection[k].public
      BY <3>1 DEF CollectionRow, States
    <3> QED  BY <2>1, <3>2, <3>3 DEF IsHere
  <2>2. CASE k \notin some
    BY <1>1, <2>2 DEF IsHere
  <2> QED  BY <2>1, <2>2
<1>3. \A e \in Entries :
          /\ entry'[e].state = "unused" => entry[e].state = "unused"
          /\ IsHere(entry', e) => entry'[e] = entry[e]
  BY DEF PortfolioInv, PortfolioType, EntryRow, IsHere
<1>4. PortfolioType'
  <2>1. collection' \in [Collections -> CollectionRow]
    BY <1>2 DEF RemoveCollections
  <2>2. withdrawn' \subseteq Nat
    BY <1>1 DEF RemoveCollections, PortfolioInv, PortfolioType, CollectionRow
  <2> QED  BY <2>1, <2>2 DEF RemoveCollections, PortfolioInv, PortfolioType
<1>5. AttachesToWhatIsThere' /\ SavesWhatIsThere'
  BY <1>2, <1>3, <1>4, Overtakes DEF IsHere
<1>6. AttachedHasEntry' /\ AttachedIsServed'
  <2>1. \A file \in attached : file.entry \in Entries
    BY DEF PortfolioInv, PortfolioType, Stored
  <2> QED  BY <1>3, <2>1 DEF PortfolioInv, AttachedHasEntry, AttachedIsServed, IsServed, IsHere
<1>7. LinksOpen'
  BY <1>2 DEF RemoveCollections, PortfolioInv, PortfolioType, LinksOpen, Opens
<1>8. TokensAreOnes'
  <2>1. \A k, l \in Collections :
            k # l /\ collection'[k].token = collection'[l].token => collection'[k].token = NoToken
    BY <1>2 DEF PortfolioInv, TokensAreOnes
  <2>2. \A token \in withdrawn' : token # NoToken /\ token <= tokens
    BY DEF RemoveCollections, PortfolioInv, TokensAreOnes
  <2>3. ASSUME NEW k \in Collections, IsHere(collection', k) PROVE collection'[k].token \notin withdrawn'
    <3>1. k \notin some /\ IsHere(collection, k) /\ collection[k].token \notin withdrawn
      BY <1>2, <2>3 DEF PortfolioInv, TokensAreOnes
    <3>2. \A l \in some : collection[l].token = collection[k].token => collection[k].token = NoToken
      BY <3>1 DEF PortfolioInv, TokensAreOnes
    <3> QED  BY <1>2, <3>1, <3>2 DEF RemoveCollections
  <2> QED  BY <1>2, <2>1, <2>2, <2>3 DEF PortfolioInv, TokensAreOnes, IsHere
<1> QED  BY <1>4, <1>5, <1>6, <1>7, <1>8 DEF PortfolioInv

LEMMA DeletingStudentKeeps ==
    ASSUME PortfolioInv, NEW s \in students, DeleteStudent(s)
    PROVE  PortfolioInv'
<1>1. /\ entry' \in [Entries -> EntryRow]
      /\ \A e \in Entries : entry'[e] = entry[e] \/ entry'[e] = [entry[e] EXCEPT !.state = "gone"]
  BY DEF DeleteStudent, PortfolioInv, PortfolioType, EntryRow, States
<1>2. students' \subseteq Students
  BY DEF DeleteStudent, PortfolioInv, PortfolioType
<1> DEFINE some == {k \in Collections : IsHere(collection, k) /\ collection[k].student = s}
<1>3. some \in SUBSET Collections /\ RemoveCollections(some) /\ \A k \in some : IsHere(collection, k)
  BY DEF DeleteStudent
<1> QED  BY <1>1, <1>2, <1>3, RemovingKeeps DEF DeleteStudent

LEMMA DeletingCollectionKeeps ==
    ASSUME PortfolioInv, NEW k \in Collections, DeleteCollection(k)
    PROVE  PortfolioInv'
<1>1. {k} \in SUBSET Collections /\ RemoveCollections({k}) /\ \A l \in {k} : IsHere(collection, l)
  BY DEF DeleteCollection
<1>2. /\ entry' \in [Entries -> EntryRow] /\ \A e \in Entries : entry'[e] = entry[e]
      /\ students' \subseteq Students
  BY DEF DeleteCollection, PortfolioInv, PortfolioType
<1> QED  BY <1>1, <1>2, RemovingKeeps DEF DeleteCollection

LEMMA GivingUpKeeps ==
    ASSUME PortfolioInv, NEW t \in Editors, GiveUp(t)
    PROVE  PortfolioInv'
<1> USE DEF histories
<1>1. PortfolioType'
  BY DEF GiveUp, PortfolioInv, PortfolioType
<1>2. \A u \in Editors : editing'[u] = Free \/ editing'[u] = editing[u]
  BY DEF GiveUp, PortfolioInv, PortfolioType
<1>3. AttachesToWhatIsThere' /\ SavesWhatIsThere'
  BY <1>1, <1>2, Overtakes DEF GiveUp, IsHere
<1>4. TokensAreOnes' /\ AttachedHasEntry' /\ AttachedIsServed' /\ LinksOpen'
  BY DEF GiveUp, PortfolioInv, TokensAreOnes, AttachedHasEntry, AttachedIsServed, LinksOpen, IsServed, Opens, IsHere
<1> QED  BY <1>1, <1>3, <1>4 DEF PortfolioInv

-----------------------------------------------------------------------------

\* Every request that begins is one of those whose commits are proved above.
LEMMA BeginningKeeps ==
    ASSUME PortfolioInv, NEW t \in Editors,
           \/ \E e \in Entries : BeginAttach(t, e) \/ BeginDelete(t, e)
           \/ \E e \in Entries, s \in students : BeginMove(t, e, s)
           \/ \E k \in Collections, s \in students, some \in SUBSET Entries, public \in BOOLEAN :
                  BeginSave(t, k, s, some, public)
           \/ \E k \in Collections : BeginShare(t, k)
    PROVE  PortfolioInv'
<1>1. /\ students \subseteq Students /\ stored \in Nat
      /\ \A e \in Entries : entry[e] \in EntryRow
      /\ \A k \in Collections : collection[k] \in CollectionRow
  BY DEF PortfolioInv, PortfolioType
<1>2. ASSUME NEW e \in Entries, BeginAttach(t, e) PROVE PortfolioInv'
  <2> DEFINE asked == [doing |-> "attaching", on |-> e, read |-> entry[e], overtaken |-> FALSE,
                       file |-> Path(entry[e].student, e, stored + 1)]
  <2>1. asked \in Attaching
    BY <1>1 DEF Attaching, EntryRow, Stored, Path
  <2>2. asked.file.entry = e /\ asked.file.student = entry[e].student
    BY DEF Path
  <2>3. Begin(t, asked) /\ IsHere(entry, e) /\ stored' = stored + 1
        /\ UNCHANGED <<students, entry, collection, tokens, histories>>
    BY <1>2 DEF BeginAttach
  <2> HIDE DEF asked
  <2>4. asked.on = e /\ asked.read = entry[e] /\ asked.doing = "attaching"
    BY DEF asked
  <2> QED  BY <2>1, <2>2, <2>3, <2>4, <1>1, Begins
<1>3. ASSUME NEW e \in Entries, BeginDelete(t, e) PROVE PortfolioInv'
  <2> DEFINE lists == [k \in Listing(e) |-> collection[k].entries]
             asked == [doing |-> "deleting", on |-> e, overtaken |-> FALSE, lists |-> lists]
  <2>1. lists \in [Listing(e) -> SUBSET Entries] /\ Listing(e) \in SUBSET Collections
    BY <1>1 DEF Listing, CollectionRow
  <2>2. asked \in Deleting
    BY <2>1 DEF Deleting
  <2> QED  BY <1>3, <2>2, <1>1, Begins DEF BeginDelete
<1>4. ASSUME NEW e \in Entries, NEW s \in students, BeginMove(t, e, s) PROVE PortfolioInv'
  <2>1. [doing |-> "moving", on |-> e, overtaken |-> FALSE, student |-> s] \in Moving
    BY <1>1 DEF Moving
  <2> QED  BY <1>4, <2>1, <1>1, Begins DEF BeginMove
<1>5. ASSUME NEW k \in Collections, NEW s \in Owners, NEW some \in SUBSET Entries, NEW public \in BOOLEAN,
             IsHere(collection, k),
             Begin(t, [doing |-> "saving", on |-> k, read |-> collection[k], overtaken |-> FALSE,
                       student |-> s, entries |-> some, public |-> public]),
             UNCHANGED <<students, entry, collection, stored, tokens, histories>>
      PROVE  PortfolioInv'
  <2>1. [doing |-> "saving", on |-> k, read |-> collection[k], overtaken |-> FALSE,
         student |-> s, entries |-> some, public |-> public] \in Sharing
    BY <1>1 DEF Sharing
  <2> QED  BY <1>5, <2>1, <1>1, Begins
<1>6. ASSUME NEW k \in Collections, NEW s \in students, NEW some \in SUBSET Entries, NEW public \in BOOLEAN,
             BeginSave(t, k, s, some, public)
      PROVE  PortfolioInv'
  BY <1>1, <1>5, <1>6 DEF BeginSave, Owners
<1>7. ASSUME NEW k \in Collections, BeginShare(t, k) PROVE PortfolioInv'
  <2>1. collection[k].student \in Owners /\ collection[k].entries \in SUBSET Entries
    BY <1>1 DEF CollectionRow
  <2> QED  BY <2>1, <1>5, <1>7 DEF BeginShare
<1> QED  BY <1>2, <1>3, <1>4, <1>6, <1>7

\* Every step keeps the invariant.
LEMMA PortfolioInvNext == PortfolioAssumption /\ PortfolioInv /\ [PortfolioNext]_portfolioVars => PortfolioInv'
<1>. SUFFICES ASSUME PortfolioAssumption, PortfolioInv, [PortfolioNext]_portfolioVars PROVE PortfolioInv'
    OBVIOUS
<1>1. CASE UNCHANGED portfolioVars
  BY <1>1 DEF portfolioVars, PortfolioInv, PortfolioType, AttachesToWhatIsThere, SavesWhatIsThere, TokensAreOnes,
              AttachedHasEntry, AttachedIsServed, LinksOpen, IsServed, Opens, IsHere
<1>2. CASE PortfolioNext
  <2>1. ASSUME NEW t \in Editors,
               CommitAttach(t) \/ CommitMove(t) \/ CommitDelete(t) \/ CommitSave(t) \/ GiveUp(t)
        PROVE  PortfolioInv'
    BY <2>1, AttachingKeeps, MovingKeeps, DeletingEntryKeeps, SavingKeeps, GivingUpKeeps
  <2> QED  BY <1>2, <2>1, CreatingEntryKeeps, CreatingCollectionKeeps, BeginningKeeps, DeletingCollectionKeeps,
              DeletingStudentKeeps DEF PortfolioNext
<1> QED  BY <1>1, <1>2

\* For any numbers of students, entries, collections and editors: whatever the requests
\* overtake, an attached file is served, a link that was answered opens its collection until
\* it is withdrawn, and never again after that (routers/portfolio.py, routers/files.py).
THEOREM PortfolioKeepsItsWord ==
    ASSUME PortfolioAssumption
    PROVE  PortfolioSpec => []PortfolioIsKept
<1>1. PortfolioInit => PortfolioInv
  BY PortfolioInvInit
<1>2. PortfolioInv /\ [PortfolioNext]_portfolioVars => PortfolioInv'
  BY PortfolioInvNext
<1>3. PortfolioInv => PortfolioIsKept
  BY PortfolioInvKeeps
<1> QED  BY <1>1, <1>2, <1>3, PTL DEF PortfolioSpec

-----------------------------------------------------------------------------
(* The members of a family. *)

Ids == Nat \ {0}

UserRow       == [email : Emails, active : BOOLEAN, provider : {"local", "sso", "scim"},
                  external : Externals \cup {NoId}, scim : ScimIds \cup {NoId}]
MemberRow     == [role : Roles, owner : BOOLEAN, via : Nat]
InvitationRow == [family : Families, email : Emails, role : Roles, expired : BOOLEAN,
                  state : {"open", "accepted", "revoked"}]

Idling    == [doing : {"nothing"}, user : {0}]
Inviting  == [doing : {"inviting"}, user : {0}, row : InvitationRow]
Accepting == [doing : {"accepting"}, user : Nat, of : Nat, email : Emails]
Revoking  == [doing : {"revoking"}, user : {0}, of : Nat]
SigningIn == [doing : {"signing in"}, user : Nat, external : Externals, email : Emails, row : UserRow,
              joins : BOOLEAN, of : Nat]

\* Who is a member of what.
AreMembers(keys, users) == \A k \in keys : k = <<k[1], k[2]>> /\ k[1] \in users /\ k[2] \in Families

MembershipType ==
    /\ user \in [DOMAIN user -> UserRow] /\ DOMAIN user \subseteq Ids
    /\ member \in [DOMAIN member -> MemberRow] /\ AreMembers(DOMAIN member, DOMAIN user)
    /\ invitation \in [DOMAIN invitation -> InvitationRow] /\ DOMAIN invitation \subseteq Ids
    /\ client \in [Clients -> Idling \cup Inviting \cup Accepting \cup Revoking \cup SigningIn]

\* A request that has read an email, in a row or in an invitation.
HasRead(t, email) == client[t].doing \in {"accepting", "signing in"} /\ client[t].email = email

\* What a request has read of the invitation is still so, and of the user if nobody
\* changed the email under it.
AcceptingKnows(t) ==
    /\ client[t].of \in DOMAIN invitation
    /\ client[t].email = invitation[client[t].of].email
    /\ client[t].user \in DOMAIN user \ renamed => user[client[t].user].email = client[t].email

SigningInKnows(t) ==
    /\ client[t].of # 0 => client[t].of \in DOMAIN invitation /\ client[t].email = invitation[client[t].of].email
    /\ client[t].user \in DOMAIN user \ renamed => user[client[t].user].email = client[t].row.email
    /\ client[t].user = 0 => client[t].row = NewUser(client[t].email, TRUE, "sso", client[t].external, NoId)

RequestsKnow ==
    \A t \in Clients :
        /\ client[t].user \in DOMAIN user \cup {0}
        /\ client[t].doing = "revoking" => client[t].of \in DOMAIN invitation
        /\ client[t].doing = "accepting" => AcceptingKnows(t)
        /\ client[t].doing = "signing in" => SigningInKnows(t)

\* A membership by an invitation closes it, and is of its family.
ViaIsClosed ==
    \A k \in DOMAIN member : member[k].via # 0 =>
        /\ member[k].via \in DOMAIN invitation
        /\ invitation[member[k].via].state # "open"
        /\ k[2] = invitation[member[k].via].family

\* Whoever joined by an invitation that a request still holds has the invitation's email.
JoinedKeepEmail ==
    \A t \in Clients, k \in DOMAIN member :
        /\ client[t].doing \in {"accepting", "signing in"}
        /\ member[k].via # 0 /\ member[k].via = client[t].of /\ k[1] \notin renamed
        => user[k[1]].email = client[t].email

MInv ==
    /\ MembershipType /\ Unique(user) /\ RequestsKnow /\ ViaIsClosed /\ JoinedKeepEmail
    /\ InvitationUsedOnce /\ ManagedHasMembership

\* Who asks for nothing.
LEMMA IdleIs == Idle \in Idling /\ Idle.doing = "nothing" /\ Idle.user = 0
  BY DEF Idle, Idling

\* The first person.
LEMMA MInvInit == ASSUME MembershipAssumption, MembershipInit PROVE MInv
<1>1. PICK e \in Emails, f \in Families :
        /\ user = [u \in {1} |-> NewUser(e, TRUE, "local", NoId, NoId)]
        /\ member = [k \in {<<1, f>>} |-> [role |-> Owner, owner |-> TRUE, via |-> 0]]
        /\ invitation = << >> /\ groups = {}
        /\ client = [t \in Clients |-> Idle]
        /\ renamed = {} /\ asks = 0
  BY DEF MembershipInit
<1>2. DOMAIN user = {1} /\ user[1] = NewUser(e, TRUE, "local", NoId, NoId) /\ user = [u \in {1} |-> user[1]]
  BY <1>1
<1>3. /\ DOMAIN member = {<<1, f>>}
      /\ member[<<1, f>>] = [role |-> Owner, owner |-> TRUE, via |-> 0]
      /\ member = [k \in {<<1, f>>} |-> member[<<1, f>>]]
  BY <1>1
<1>4. DOMAIN invitation = {}
  BY <1>1
<1>5. user[1] \in UserRow /\ ~Managed(1)
  BY <1>2 DEF NewUser, UserRow, Managed, NoId
<1>6. member[<<1, f>>] \in MemberRow
  BY <1>3 DEF MemberRow, MembershipAssumption
<1>7. MembershipType
  <2>1. user \in [DOMAIN user -> UserRow] /\ DOMAIN user \subseteq Ids
    <3>1. user \in [{1} -> UserRow]
      BY <1>1, <1>2, <1>5
    <3>2. {1} \subseteq Ids
      BY DEF Ids
    <3>. QED
      BY <1>2, <3>1, <3>2
  <2>2. member \in [DOMAIN member -> MemberRow]
    BY <1>3, <1>6
  <2>3. AreMembers(DOMAIN member, DOMAIN user)
    BY <1>2, <1>3 DEF AreMembers
  <2>4. client \in [Clients -> Idling] /\ invitation \in [DOMAIN invitation -> InvitationRow]
    BY <1>1, <1>4, IdleIs
  <2>. QED
    BY <1>4, <2>1, <2>2, <2>3, <2>4 DEF MembershipType
<1>8. Unique(user) /\ ViaIsClosed /\ InvitationUsedOnce /\ ManagedHasMembership
  BY <1>2, <1>3, <1>5 DEF Unique, ViaIsClosed, InvitationUsedOnce, ManagedHasMembership
<1>9. RequestsKnow /\ JoinedKeepEmail
  BY <1>1 DEF RequestsKnow, JoinedKeepEmail, Idle
<1>. QED
  BY <1>7, <1>8, <1>9 DEF MInv

\* A change of an email under a request that has read it is noted.
Noted(among) ==
    \A u \in DOMAIN user, t \in among :
        user'[u].email # user[u].email /\ (client[t].user = u \/ HasRead(t, user[u].email)) => u \in renamed'

\* Roles change, but not an owner's, and people become members without an invitation.
Grown(table, users) ==
    /\ DOMAIN member \subseteq DOMAIN table /\ AreMembers(DOMAIN table, users)
    /\ table \in [DOMAIN table -> MemberRow]
    /\ \A k \in DOMAIN member :
          table[k].via = member[k].via /\ (member[k].owner => table[k] = member[k])
    /\ \A k \in DOMAIN table \ DOMAIN member : table[k].via = 0

MembersGrow == Grown(member', DOMAIN user')

\* The steps of the provisioner.
LEMMA ProvisioningKeeps ==
    ASSUME MInv,
           user' \in [DOMAIN user' -> UserRow], DOMAIN user \subseteq DOMAIN user', DOMAIN user' \subseteq Ids,
           Unique(user'), renamed \subseteq renamed', Noted(Clients), MembersGrow, ManagedHasMembership',
           UNCHANGED <<invitation, client>>
    PROVE  MInv' /\ DoorIsKept
<1>1. MembershipType'
  BY DEF MInv, MembershipType, MembersGrow, Grown
<1>2. ASSUME NEW t \in Clients, client[t].user \in DOMAIN user' \ renamed'
      PROVE  client[t].user \in DOMAIN user \ renamed /\ user'[client[t].user].email = user[client[t].user].email
  <2>1. client[t].user \in DOMAIN user
    BY <1>2 DEF MInv, MembershipType, RequestsKnow, Ids
  <2>. QED
    BY <1>2, <2>1 DEF Noted
<1>3. ASSUME NEW t \in Clients, AcceptingKnows(t) PROVE AcceptingKnows(t)'
  BY <1>2, <1>3 DEF AcceptingKnows
<1>4. ASSUME NEW t \in Clients, SigningInKnows(t) PROVE SigningInKnows(t)'
  BY <1>2, <1>4 DEF SigningInKnows
<1>5. RequestsKnow'
  BY <1>3, <1>4 DEF MInv, RequestsKnow
<1>6. ViaIsClosed'
  BY DEF MInv, ViaIsClosed, MembersGrow, Grown
<1>7. JoinedKeepEmail'
  <2>1. ASSUME NEW t \in Clients, NEW k \in DOMAIN member', client[t].doing \in {"accepting", "signing in"},
               member'[k].via # 0, member'[k].via = client[t].of, k[1] \notin renamed'
        PROVE  user'[k[1]].email = client[t].email
    <3>1. k \in DOMAIN member /\ member[k].via = member'[k].via /\ k[1] \notin renamed
      BY <2>1 DEF MembersGrow, Grown
    <3>2. k[1] \in DOMAIN user
      BY <3>1 DEF MInv, MembershipType, AreMembers
    <3>3. user[k[1]].email = client[t].email
      BY <2>1, <3>1 DEF MInv, JoinedKeepEmail
    <3>. QED
      BY <2>1, <3>2, <3>3 DEF Noted, HasRead
  <2>. QED
    BY <2>1 DEF JoinedKeepEmail
<1>8. InvitationUsedOnce'
  BY DEF MInv, InvitationUsedOnce, MembersGrow, Grown
<1>9. DoorIsKept
  BY DEF MembersGrow, Grown, DoorIsKept
<1>. QED
  BY <1>1, <1>5, <1>6, <1>7, <1>8, <1>9 DEF MInv

\* A role for some users, who become members where they are not.
LEMMA SetGrows ==
    ASSUME MembershipAssumption, MInv, NEW users, DOMAIN user \subseteq users,
           NEW some \in SUBSET users, NEW role \in Roles, MaySet(some, role)
    PROVE  Grown(Set(some, role), users) /\ some \X {Default} \subseteq DOMAIN Set(some, role)
<1>. DEFINE table == Set(some, role)
<1>1. /\ DOMAIN table = DOMAIN member \cup (some \X {Default})
      /\ \A k \in DOMAIN table : table[k] =
            IF k \notin some \X {Default} THEN member[k]
            ELSE IF k \in DOMAIN member THEN [member[k] EXCEPT !.role = role]
            ELSE [role |-> role, owner |-> FALSE, via |-> 0]
      /\ table = [k \in DOMAIN table |-> table[k]]
  BY DEF Set
<1>. HIDE DEF table
<1>2. \A k \in DOMAIN member : member[k] \in MemberRow
  BY DEF MInv, MembershipType
<1>3. ASSUME NEW k \in DOMAIN member
      PROVE  /\ table[k] \in MemberRow /\ table[k].via = member[k].via
             /\ member[k].owner => table[k] = member[k]
  <2>1. CASE k \notin some \X {Default}
    BY <1>1, <1>2, <2>1
  <2>2. CASE k \in some \X {Default}
    <3>1. table[k] = [member[k] EXCEPT !.role = role] /\ member[k] \in MemberRow
      BY <1>1, <1>2, <2>2
    <3>2. table[k] \in MemberRow /\ table[k].via = member[k].via
      BY <3>1 DEF MemberRow
    <3>3. ASSUME member[k].owner PROVE member[k].role = role
      <4>1. PICK u \in some : k = <<u, Default>>
        BY <2>2
      <4>. QED
        BY <3>3, <4>1 DEF MaySet
    <3>4. member[k].role = role => table[k] = member[k]
      BY <3>1 DEF MemberRow
    <3>. QED
      BY <3>2, <3>3, <3>4
  <2>. QED
    BY <2>1, <2>2
<1>4. ASSUME NEW k \in DOMAIN table \ DOMAIN member PROVE table[k] \in MemberRow /\ table[k].via = 0
  <2>1. table[k] = [role |-> role, owner |-> FALSE, via |-> 0]
    BY <1>1, <1>4
  <2>. QED
    BY <2>1 DEF MemberRow
<1>5. AreMembers(DOMAIN table, users)
  <2>1. ASSUME NEW k \in some \X {Default} PROVE k = <<k[1], k[2]>> /\ k[1] \in users /\ k[2] \in Families
    <3>1. PICK u \in some : k = <<u, Default>>
      OBVIOUS
    <3>. QED
      BY <3>1 DEF MembershipAssumption
  <2>. QED
    BY <1>1, <2>1 DEF MInv, MembershipType, AreMembers
<1>6. Grown(table, users) /\ some \X {Default} \subseteq DOMAIN table
  BY <1>1, <1>3, <1>4, <1>5 DEF Grown
<1>. QED
  BY <1>6 DEF table

\* What has the default role has it, and who has none gets it.
LEMMA EnsuredGrows ==
    ASSUME MembershipAssumption, MInv, DOMAIN user \subseteq DOMAIN user', NEW u \in DOMAIN user', member' = Ensured(u)
    PROVE  MembersGrow /\ <<u, Default>> \in DOMAIN member'
<1>1. CASE <<u, Default>> \in DOMAIN member
  <2>1. member' = member
    BY <1>1 DEF Ensured
  <2>. QED
    BY <1>1, <2>1 DEF MembersGrow, Grown, MInv, MembershipType, AreMembers
<1>2. CASE <<u, Default>> \notin DOMAIN member
  <2>1. member' = Set({u}, Viewer) /\ MaySet({u}, Viewer) /\ Viewer \in Roles
    BY <1>2 DEF Ensured, MaySet, MembershipAssumption
  <2>2. Grown(Set({u}, Viewer), DOMAIN user') /\ {u} \X {Default} \subseteq DOMAIN Set({u}, Viewer)
    BY <2>1, SetGrows
  <2>. QED
    BY <2>1, <2>2 DEF MembersGrow
<1>. QED
  BY <1>1, <1>2

\* Every step of the provisioner keeps the invariant, and the door.
LEMMA ScimKeeps ==
    ASSUME MembershipAssumption, MInv, NEW u \in 1..MaxUsers,
           \/ \E e \in Emails, s \in ScimIds \cup {NoId}, a \in BOOLEAN : CreateUser(u, e, s, a) \/ PatchUser(u, e, s, a)
           \/ DeleteUser(u)
    PROVE  MInv' /\ DoorIsKept
<1>0. /\ user \in [DOMAIN user -> UserRow] /\ DOMAIN user \subseteq Ids /\ u \in Ids
      /\ Unique(user) /\ ManagedHasMembership
  BY DEF MInv, MembershipType, MembershipAssumption, Ids
<1>1. ASSUME NEW e \in Emails, NEW s \in ScimIds \cup {NoId}, NEW a \in BOOLEAN, CreateUser(u, e, s, a)
      PROVE  MInv' /\ DoorIsKept
  <2>1. NewUser(e, a, "scim", NoId, s) \in UserRow
    BY DEF NewUser, UserRow
  <2>2. /\ DOMAIN user' = DOMAIN user \cup {u} /\ user' \in [DOMAIN user' -> UserRow]
        /\ \A v \in DOMAIN user : user'[v] = user[v]
    BY <1>0, <1>1, <2>1 DEF CreateUser, Put, Fresh
  <2>3. MembersGrow /\ <<u, Default>> \in DOMAIN member'
    BY <1>1, <2>2, EnsuredGrows DEF CreateUser
  <2>4. ManagedHasMembership'
    BY <1>0, <2>2, <2>3 DEF ManagedHasMembership, Managed, MembersGrow, Grown
  <2>5. Noted(Clients) /\ renamed \subseteq renamed' /\ Unique(user') /\ UNCHANGED <<invitation, client>>
    BY <1>1, <2>2 DEF CreateUser, Noted
  <2>. QED
    BY <1>0, <2>2, <2>3, <2>4, <2>5, ProvisioningKeeps
<1>2. ASSUME NEW e \in Emails, NEW s \in ScimIds \cup {NoId}, NEW a \in BOOLEAN, PatchUser(u, e, s, a)
      PROVE  MInv' /\ DoorIsKept
  <2>1. u \in DOMAIN user /\ user' = [user EXCEPT ![u] = [user[u] EXCEPT !.email = e, !.scim = s, !.active = a]]
    BY <1>2 DEF PatchUser, Patch
  <2>2. user'[u] \in UserRow /\ user'[u].scim = s /\ user'[u].provider = user[u].provider
    <3>1. user[u] \in UserRow /\ user'[u] = [user[u] EXCEPT !.email = e, !.scim = s, !.active = a]
      BY <1>0, <2>1
    <3>2. user'[u] \in UserRow
      BY <3>1 DEF UserRow
    <3>. QED
      BY <3>1, <3>2 DEF UserRow
  <2>3. /\ DOMAIN user' = DOMAIN user /\ user' \in [DOMAIN user' -> UserRow]
        /\ \A v \in DOMAIN user \ {u} : user'[v] = user[v]
    BY <1>0, <2>1, <2>2
  <2>4. MembersGrow /\ (s # NoId \/ user[u].provider = "scim" => <<u, Default>> \in DOMAIN member')
    <3>1. CASE s # NoId \/ user[u].provider = "scim"
      BY <1>2, <2>1, <2>3, <3>1, EnsuredGrows DEF PatchUser
    <3>2. CASE ~(s # NoId \/ user[u].provider = "scim")
      BY <1>2, <2>3, <3>2 DEF PatchUser, MembersGrow, Grown, MInv, MembershipType
    <3>. QED
      BY <3>1, <3>2
  <2>5. ManagedHasMembership'
    BY <1>0, <2>2, <2>3, <2>4 DEF ManagedHasMembership, Managed, MembersGrow, Grown
  <2>6. Noted(Clients) /\ renamed \subseteq renamed' /\ Unique(user') /\ UNCHANGED <<invitation, client>>
    BY <1>2 DEF PatchUser, Patch, Renamed, Noted, HasRead
  <2>. QED
    BY <1>0, <2>3, <2>4, <2>5, <2>6, ProvisioningKeeps
<1>3. CASE DeleteUser(u)
  <2>1. u \in DOMAIN user /\ user' = [user EXCEPT ![u] = [user[u] EXCEPT !.active = FALSE]]
    BY <1>3 DEF DeleteUser
  <2>2. /\ user'[u] \in UserRow /\ user'[u].scim = user[u].scim /\ user'[u].provider = user[u].provider
        /\ user'[u].email = user[u].email /\ user'[u].external = user[u].external
    <3>1. user[u] \in UserRow /\ user'[u] = [user[u] EXCEPT !.active = FALSE]
      BY <1>0, <2>1
    <3>2. user'[u] \in UserRow
      BY <3>1 DEF UserRow
    <3>. QED
      BY <3>1, <3>2 DEF UserRow
  <2>3. /\ DOMAIN user' = DOMAIN user /\ user' \in [DOMAIN user' -> UserRow]
        /\ \A v \in DOMAIN user \ {u} : user'[v] = user[v]
    BY <1>0, <2>1, <2>2
  <2>4. Unique(user')
    BY <1>0, <2>2, <2>3 DEF Unique
  <2>5. MembersGrow
    BY <1>3, <2>3 DEF DeleteUser, MembersGrow, Grown, MInv, MembershipType
  <2>6. ManagedHasMembership'
    BY <1>0, <2>2, <2>3, <2>5 DEF ManagedHasMembership, Managed, MembersGrow, Grown
  <2>7. Noted(Clients) /\ renamed \subseteq renamed' /\ UNCHANGED <<invitation, client>>
    BY <1>3, <2>2, <2>3 DEF DeleteUser, Noted
  <2>. QED
    BY <1>0, <2>3, <2>4, <2>5, <2>6, <2>7, ProvisioningKeeps
<1>. QED
  BY <1>1, <1>2, <1>3

\* A group gives and takes roles; who loses one that is not an owner's stays a viewer.
LEMMA GroupsKeep ==
    ASSUME MembershipAssumption, MInv, UNCHANGED <<user, invitation, client, renamed>>,
           NEW r \in Roles, NEW new \in Roles, NEW some \in SUBSET DOMAIN user,
           \/ CreateGroup(r, some) \/ RenameGroup(r, new) \/ DeleteGroup(r)
           \/ AddMembers(r, some) \/ RemoveMembers(r, some) \/ ReplaceMembers(r, some)
    PROVE  MInv' /\ DoorIsKept
<1>0. MembersGrow => MInv' /\ DoorIsKept
  <2>. SUFFICES ASSUME MembersGrow PROVE MInv' /\ DoorIsKept
    OBVIOUS
  <2>1. user' \in [DOMAIN user' -> UserRow] /\ DOMAIN user' \subseteq Ids /\ Unique(user')
    BY DEF MInv, MembershipType
  <2>2. ManagedHasMembership'
    BY DEF MInv, ManagedHasMembership, Managed, MembersGrow, Grown
  <2>3. Noted(Clients)
    BY DEF Noted
  <2>. QED
    BY <2>1, <2>2, <2>3, ProvisioningKeeps
<1>1. ASSUME NEW t \in SUBSET DOMAIN user, NEW role \in Roles, MaySet(t, role), member' = Set(t, role)
      PROVE  MembersGrow
  BY <1>1, SetGrows DEF MembersGrow
<1>2. Viewer \in Roles /\ \A role \in Roles : Members(role) \subseteq DOMAIN user
  BY DEF MembershipAssumption, Members
<1>3. CASE CreateGroup(r, some) \/ AddMembers(r, some)
  BY <1>0, <1>1, <1>3 DEF CreateGroup, AddMembers
<1>4. CASE RenameGroup(r, new)
  BY <1>0, <1>1, <1>2, <1>4 DEF RenameGroup
<1>5. CASE DeleteGroup(r)
  BY <1>0, <1>1, <1>2, <1>5 DEF DeleteGroup, MaySet
<1>6. CASE RemoveMembers(r, some)
  BY <1>0, <1>1, <1>2, <1>6 DEF RemoveMembers, MaySet, Having
<1>7. CASE ReplaceMembers(r, some)
  <2>. DEFINE added == some \ Members(r)
              gone  == Members(r) \ some
              after == Set(added, r)
  <2>1. /\ DOMAIN member' = DOMAIN member \cup (added \X {Default}) /\ MaySet(added, r)
        /\ \A k \in DOMAIN member' : member'[k] =
              IF k \in gone \X {Default} THEN [member[k] EXCEPT !.role = Viewer] ELSE after[k]
        /\ member' = [k \in DOMAIN member' |-> member'[k]]
        /\ \A u \in gone : ~member[<<u, Default>>].owner
    BY <1>7 DEF ReplaceMembers
  <2>2. Grown(after, DOMAIN user') /\ DOMAIN after = DOMAIN member \cup (added \X {Default})
    <3>1. added \in SUBSET DOMAIN user' /\ DOMAIN user \subseteq DOMAIN user' /\ MaySet(added, r)
      BY <2>1
    <3>2. DOMAIN Set(added, r) = DOMAIN member \cup (added \X {Default})
      BY DEF Set
    <3>. HIDE DEF added
    <3>3. Grown(Set(added, r), DOMAIN user')
      BY <3>1, SetGrows
    <3>. QED
      BY <3>2, <3>3
  <2>. HIDE DEF after, added
  <2>3. ASSUME NEW k \in gone \X {Default}
        PROVE  k \in DOMAIN member /\ ~member[k].owner
    <3>1. PICK u \in gone : k = <<u, Default>>
      OBVIOUS
    <3>. QED
      BY <2>1, <3>1 DEF Members
  <2>. HIDE DEF gone
  <2>4. ASSUME NEW k \in DOMAIN member, k \in gone \X {Default}
        PROVE  member'[k] \in MemberRow /\ member'[k].via = member[k].via
    <3>1. member[k] \in MemberRow /\ member'[k] = [member[k] EXCEPT !.role = Viewer]
      BY <2>1, <2>4 DEF MInv, MembershipType
    <3>. QED
      BY <1>2, <3>1 DEF MemberRow
  <2>5. DOMAIN member' = DOMAIN after
    BY <2>1, <2>2
  <2>6. ASSUME NEW k \in DOMAIN member'
        PROVE  /\ member'[k] \in MemberRow
               /\ k \in DOMAIN member => member'[k].via = member[k].via /\ (member[k].owner => member'[k] = member[k])
               /\ k \notin DOMAIN member => member'[k].via = 0
    <3>1. CASE k \in gone \X {Default}
      BY <2>3, <2>4, <3>1
    <3>2. CASE k \notin gone \X {Default}
      BY <2>1, <2>2, <2>5, <3>2 DEF Grown
    <3>. QED
      BY <3>1, <3>2
  <2>7. MembersGrow
    BY <2>1, <2>2, <2>5, <2>6 DEF MembersGrow, Grown
  <2>. QED
    BY <1>0, <2>7
<1>. QED
  BY <1>3, <1>4, <1>5, <1>6, <1>7

\* A request that begins has read what is so; one that gives up takes nothing with it.
LEMMA RequestsKeep ==
    ASSUME MInv, NEW t \in Clients,
           NEW request \in Idling \cup Inviting \cup Accepting \cup Revoking \cup SigningIn,
           client' = [client EXCEPT ![t] = request],
           UNCHANGED <<user, member, invitation, renamed>>,
           request.user \in DOMAIN user \cup {0},
           request.doing = "revoking" => request.of \in DOMAIN invitation,
           request.doing = "accepting" => AcceptingKnows(t)' /\ invitation[request.of].state = "open",
           request.doing = "signing in" =>
               SigningInKnows(t)' /\ (request.of # 0 => invitation[request.of].state = "open")
    PROVE  MInv' /\ DoorIsKept
<1>1. client'[t] = request /\ \A q \in Clients \ {t} : client'[q] = client[q]
  BY DEF MInv, MembershipType
<1>2. MembershipType'
  BY DEF MInv, MembershipType
<1>3. RequestsKnow'
  <2>1. ASSUME NEW q \in Clients \ {t}
        PROVE  AcceptingKnows(q)' = AcceptingKnows(q) /\ SigningInKnows(q)' = SigningInKnows(q)
    BY <1>1 DEF AcceptingKnows, SigningInKnows
  <2>. QED
    BY <1>1, <2>1 DEF MInv, RequestsKnow
<1>4. Unique(user') /\ ViaIsClosed' /\ InvitationUsedOnce' /\ ManagedHasMembership' /\ DoorIsKept
  <2>1. Unique(user')
    BY DEF MInv
  <2>2. ViaIsClosed'
    BY DEF MInv, ViaIsClosed
  <2>3. InvitationUsedOnce'
    BY DEF MInv, InvitationUsedOnce
  <2>4. ManagedHasMembership'
    BY DEF MInv, ManagedHasMembership, Managed
  <2>5. DoorIsKept
    BY DEF DoorIsKept
  <2>. QED
    BY <2>1, <2>2, <2>3, <2>4, <2>5
<1>5. JoinedKeepEmail'
  <2>1. ASSUME NEW k \in DOMAIN member, request.doing \in {"accepting", "signing in"},
               member[k].via # 0, member[k].via = request.of
        PROVE  FALSE
    BY <2>1 DEF MInv, ViaIsClosed
  <2>2. ASSUME NEW q \in Clients, NEW k \in DOMAIN member, client'[q].doing \in {"accepting", "signing in"},
               member[k].via # 0, member[k].via = client'[q].of, k[1] \notin renamed
        PROVE  user[k[1]].email = client'[q].email
    <3>1. CASE q = t
      BY <1>1, <2>1, <2>2, <3>1
    <3>2. CASE q # t
      <4>1. client'[q] = client[q] /\ JoinedKeepEmail
        BY <1>1, <3>2 DEF MInv
      <4>. QED
        BY <2>2, <4>1 DEF JoinedKeepEmail
    <3>. QED
      BY <3>1, <3>2
  <2>. QED
    BY <2>2 DEF JoinedKeepEmail
<1>. QED
  BY <1>2, <1>3, <1>4, <1>5 DEF MInv

\* The steps that read, and those that give up.
LEMMA AskingKeeps ==
    ASSUME MembershipAssumption, MInv, NEW t \in Clients,
           \/ \E f \in Families, e \in Emails, r \in Roles : BeginInvite(t, f, e, r)
           \/ \E i \in 1..MaxInvitations : BeginAccept(t, i) \/ BeginRevoke(t, i)
           \/ \E x \in Externals, e \in Emails : BeginSignIn(t, x, e)
           \/ Abort(t)
    PROVE  MInv' /\ DoorIsKept
<1>0. /\ user \in [DOMAIN user -> UserRow] /\ DOMAIN user \subseteq Ids
      /\ invitation \in [DOMAIN invitation -> InvitationRow] /\ DOMAIN invitation \subseteq Ids
      /\ client \in [Clients -> Idling \cup Inviting \cup Accepting \cup Revoking \cup SigningIn]
      /\ 1..MaxInvitations \subseteq Nat
  BY DEF MInv, MembershipType, MembershipAssumption
<1>1. ASSUME NEW f \in Families, NEW e \in Emails, NEW r \in Roles, BeginInvite(t, f, e, r)
      PROVE  MInv' /\ DoorIsKept
  <2>. DEFINE request == [doing |-> "inviting", user |-> 0,
               row |-> [family |-> f, email |-> e, role |-> r, expired |-> FALSE, state |-> "open"]]
  <2>1. request \in Inviting /\ client' = [client EXCEPT ![t] = request]
        /\ UNCHANGED <<user, member, invitation, renamed>>
    BY <1>1 DEF BeginInvite, Ask, Inviting, InvitationRow
  <2>2. request.user = 0 /\ request.doing = "inviting"
    OBVIOUS
  <2>. HIDE DEF request
  <2>. QED
    BY <2>1, <2>2, RequestsKeep
<1>2. ASSUME NEW i \in 1..MaxInvitations, BeginAccept(t, i)
      PROVE  MInv' /\ DoorIsKept
  <2>. DEFINE u == The(With(invitation[i].email))
              request == [doing |-> "accepting", user |-> u, of |-> i, email |-> invitation[i].email]
  <2>1. /\ client' = [client EXCEPT ![t] = request] /\ UNCHANGED <<user, member, invitation, renamed>>
        /\ i \in DOMAIN invitation /\ invitation[i].state = "open"
    BY <1>2 DEF BeginAccept, Ask, MayAccept, Pending
  <2>2. u = 0 \/ (u \in DOMAIN user /\ user[u].email = invitation[i].email)
    BY DEF The, With
  <2>. HIDE DEF u
  <2>3. request \in Accepting
    BY <1>0, <2>1, <2>2 DEF Accepting, InvitationRow, Ids
  <2>4. client'[t].user = u /\ client'[t].of = i /\ client'[t].email = invitation[i].email
    BY <1>0, <2>1
  <2>5. AcceptingKnows(t)'
    BY <1>0, <2>1, <2>2, <2>4 DEF AcceptingKnows, Ids
  <2>6. request.user = u /\ request.doing = "accepting" /\ request.of = i
    OBVIOUS
  <2>. HIDE DEF request
  <2>. QED
    BY <2>1, <2>2, <2>3, <2>5, <2>6, RequestsKeep
<1>3. ASSUME NEW i \in 1..MaxInvitations, BeginRevoke(t, i)
      PROVE  MInv' /\ DoorIsKept
  <2>. DEFINE request == [doing |-> "revoking", user |-> 0, of |-> i]
  <2>1. /\ client' = [client EXCEPT ![t] = request] /\ UNCHANGED <<user, member, invitation, renamed>>
        /\ i \in DOMAIN invitation /\ request \in Revoking
    BY <1>0, <1>3 DEF BeginRevoke, Ask, Revoking
  <2>2. request.user = 0 /\ request.doing = "revoking" /\ request.of = i
    OBVIOUS
  <2>. HIDE DEF request
  <2>. QED
    BY <2>1, <2>2, RequestsKeep
<1>4. ASSUME NEW x \in Externals, NEW e \in Emails, BeginSignIn(t, x, e)
      PROVE  MInv' /\ DoorIsKept
  <2>. DEFINE linked == {u \in DOMAIN user : user[u].provider = "sso" /\ user[u].external = x}
              u      == The(IF linked = {} THEN With(e) ELSE linked)
              open   == {j \in DOMAIN invitation : invitation[j].email = e /\ MayAccept(j)}
              newest == The({j \in open : \A l \in open : l <= j})
              row    == IF u = 0 THEN NewUser(e, TRUE, "sso", x, NoId) ELSE user[u]
              joins  == u = 0 \/ FamiliesOf(u) = {}
              request == [doing |-> "signing in", user |-> u, external |-> x, email |-> e,
                          row |-> row, joins |-> joins, of |-> newest]
  <2>1. client' = [client EXCEPT ![t] = request] /\ UNCHANGED <<user, member, invitation, renamed>>
    BY <1>4 DEF BeginSignIn, Ask
  <2>2. u = 0 \/ u \in DOMAIN user
    BY DEF The, With
  <2>3. newest # 0 => newest \in DOMAIN invitation /\ invitation[newest].email = e /\ invitation[newest].state = "open"
    BY DEF The, MayAccept, Pending
  <2>4. newest \in Nat
    <3>1. newest = 0 \/ newest \in open
      BY DEF The
    <3>. QED
      BY <1>0, <3>1 DEF Ids
  <2>5. row \in UserRow /\ joins \in BOOLEAN /\ u \in Nat
    BY <1>0, <2>2 DEF NewUser, UserRow, Ids
  <2>6. /\ u = 0 => row = NewUser(e, TRUE, "sso", x, NoId)
        /\ u # 0 => row = user[u]
    OBVIOUS
  <2>. HIDE DEF newest, row, joins, u
  <2>7. request \in SigningIn
    BY <2>4, <2>5 DEF SigningIn
  <2>8. client'[t].user = u /\ client'[t].of = newest /\ client'[t].email = e /\ client'[t].row = row
        /\ client'[t].external = x
    BY <1>0, <2>1
  <2>9. 0 \notin DOMAIN user
    BY <1>0 DEF Ids
  <2>10. SigningInKnows(t)'
    BY <2>1, <2>2, <2>3, <2>6, <2>8, <2>9 DEF SigningInKnows, NewUser
  <2>11. request.user = u /\ request.doing = "signing in" /\ request.of = newest
    OBVIOUS
  <2>. HIDE DEF request
  <2>. QED
    BY <2>1, <2>2, <2>3, <2>7, <2>10, <2>11, RequestsKeep
<1>5. CASE Abort(t)
  <2>1. client' = [client EXCEPT ![t] = Idle] /\ UNCHANGED <<user, member, invitation, renamed>>
    BY <1>5 DEF Abort, Answer
  <2>. QED
    BY <2>1, IdleIs, RequestsKeep
<1>. QED
  BY <1>1, <1>2, <1>3, <1>4, <1>5

\* The steps on an invitation alone.
LEMMA InvitationsKeep ==
    ASSUME MembershipAssumption, MInv, NEW t, NEW i,
           \/ t \in Clients /\ i \in 1..MaxInvitations /\ CommitInvite(t, i)
           \/ t \in Clients /\ CommitRevoke(t)
           \/ Expire(i)
    PROVE  MInv' /\ DoorIsKept
<1>0. /\ invitation \in [DOMAIN invitation -> InvitationRow] /\ DOMAIN invitation \subseteq Ids
      /\ client \in [Clients -> Idling \cup Inviting \cup Accepting \cup Revoking \cup SigningIn]
      /\ 1..MaxInvitations \subseteq Ids
  BY DEF MInv, MembershipType, MembershipAssumption, Ids
<1>1. UNCHANGED <<user, member, renamed>>
  BY DEF CommitInvite, CommitRevoke, Expire
<1>2. client' = client \/ (t \in Clients /\ client' = [client EXCEPT ![t] = Idle])
  BY DEF CommitInvite, CommitRevoke, Expire, Answer
<1>3. \A q \in Clients : client'[q] = client[q] \/ client'[q] = Idle
  BY <1>0, <1>2
<1>4. /\ DOMAIN invitation \subseteq DOMAIN invitation' /\ DOMAIN invitation' \subseteq Ids
      /\ invitation' \in [DOMAIN invitation' -> InvitationRow]
      /\ \A j \in DOMAIN invitation :
            /\ invitation'[j].family = invitation[j].family /\ invitation'[j].email = invitation[j].email
            /\ invitation[j].state # "open" => invitation'[j].state # "open"
  <2>1. CASE t \in Clients /\ i \in 1..MaxInvitations /\ CommitInvite(t, i)
    <3>0. client[t] \in Idling \cup Inviting \cup Accepting \cup Revoking \cup SigningIn /\ client[t].doing = "inviting"
      BY <1>0, <2>1 DEF CommitInvite
    <3>a. client[t] \in Inviting
      BY <3>0 DEF Idling, Inviting, Accepting, Revoking, SigningIn
    <3>1. client[t].row \in InvitationRow
      BY <3>a DEF Inviting
    <3>. QED
      BY <1>0, <2>1, <3>1 DEF CommitInvite, Put, Fresh
  <2>2. CASE t \in Clients /\ CommitRevoke(t)
    <3>1. client[t].of \in DOMAIN invitation
      BY <2>2 DEF CommitRevoke, MInv, RequestsKnow
    <3>. DEFINE j == client[t].of
    <3>2. invitation' = [invitation EXCEPT ![j] = [invitation[j] EXCEPT !.state = "revoked"]]
      BY <2>2 DEF CommitRevoke
    <3>. HIDE DEF j
    <3>3. [invitation[j] EXCEPT !.state = "revoked"] \in InvitationRow
      BY <1>0, <3>1 DEF InvitationRow, j
    <3>. QED
      BY <1>0, <3>1, <3>2, <3>3 DEF InvitationRow
  <2>3. CASE Expire(i)
    <3>1. i \in DOMAIN invitation /\ invitation' = [invitation EXCEPT ![i] = [invitation[i] EXCEPT !.expired = TRUE]]
      BY <2>3 DEF Expire
    <3>2. [invitation[i] EXCEPT !.expired = TRUE] \in InvitationRow
      BY <1>0, <3>1 DEF InvitationRow
    <3>. QED
      BY <1>0, <3>1, <3>2 DEF InvitationRow
  <2>. QED
    BY <2>1, <2>2, <2>3
<1>5. MembershipType'
  BY <1>0, <1>1, <1>2, <1>4, IdleIs DEF MInv, MembershipType
<1>6. RequestsKnow'
  <2>1. ASSUME NEW q \in Clients, client'[q] = client[q]
        PROVE  (AcceptingKnows(q) => AcceptingKnows(q)') /\ (SigningInKnows(q) => SigningInKnows(q)')
    BY <1>1, <1>4, <2>1 DEF AcceptingKnows, SigningInKnows
  <2>. QED
    BY <1>1, <1>3, <1>4, <2>1, IdleIs DEF MInv, RequestsKnow
<1>7. Unique(user') /\ InvitationUsedOnce' /\ ManagedHasMembership' /\ DoorIsKept
  BY <1>1 DEF MInv, Unique, InvitationUsedOnce, ManagedHasMembership, Managed, DoorIsKept
<1>8. ViaIsClosed'
  BY <1>1, <1>4 DEF MInv, ViaIsClosed
<1>9. JoinedKeepEmail'
  <2>1. ASSUME NEW q \in Clients, client'[q].doing \in {"accepting", "signing in"} PROVE client'[q] = client[q]
    BY <1>3, <2>1, IdleIs
  <2>2. ASSUME NEW q \in Clients, NEW k \in DOMAIN member, client'[q].doing \in {"accepting", "signing in"},
               member[k].via # 0, member[k].via = client'[q].of, k[1] \notin renamed
        PROVE  user[k[1]].email = client'[q].email
    BY <2>1, <2>2 DEF MInv, JoinedKeepEmail
  <2>. QED
    BY <1>1, <2>2 DEF JoinedKeepEmail
<1>. QED
  BY <1>5, <1>6, <1>7, <1>8, <1>9 DEF MInv

\* The invitation that a request holds has the email that the request has.
LEMMA RequestHolds ==
    ASSUME MInv, NEW t \in Clients, client[t].doing \in {"accepting", "signing in"}, client[t].of # 0
    PROVE  client[t].of \in DOMAIN invitation /\ client[t].email = invitation[client[t].of].email
<1>1. CASE client[t].doing = "accepting"
  BY <1>1 DEF MInv, RequestsKnow, AcceptingKnows
<1>2. CASE client[t].doing = "signing in"
  BY <1>2 DEF MInv, RequestsKnow, SigningInKnows
<1>. QED
  BY <1>1, <1>2

\* Somebody joins, by an invitation whose email is theirs, unless that changed.
LEMMA JoiningKeeps ==
    ASSUME MembershipAssumption, MInv, NEW t \in Clients, NEW u \in Ids, NEW f \in Families,
           NEW role \in Roles, NEW i \in Nat,
           client[t].doing \in {"accepting", "signing in"}, client' = [client EXCEPT ![t] = Idle],
           user' \in [DOMAIN user' -> UserRow], DOMAIN user' = DOMAIN user \cup {u}, Unique(user'),
           \A v \in DOMAIN user \ {u} : user'[v] = user[v],
           renamed \subseteq renamed', Noted(Clients \ {t}), ManagedHasMembership',
           i # 0 => /\ i = client[t].of /\ f = invitation[i].family /\ role = invitation[i].role
                    /\ u \notin renamed' => user'[u].email = client[t].email,
           Join(u, f, role, i) \/ UNCHANGED <<member, invitation>>
    PROVE  MInv' /\ DoorIsKept
<1>. DEFINE row == [role |-> role, owner |-> FALSE, via |-> i]
<1>0. /\ invitation \in [DOMAIN invitation -> InvitationRow] /\ DOMAIN invitation \subseteq Ids
      /\ client \in [Clients -> Idling \cup Inviting \cup Accepting \cup Revoking \cup SigningIn]
      /\ DOMAIN user \subseteq Ids
      /\ member \in [DOMAIN member -> MemberRow] /\ AreMembers(DOMAIN member, DOMAIN user)
  BY DEF MInv, MembershipType
<1>1. client'[t] = Idle /\ \A q \in Clients \ {t} : client'[q] = client[q]
  BY <1>0
<1>a. <<u, f>>[1] = u /\ <<u, f>>[2] = f /\ row.via = i /\ row \in MemberRow /\ ~row.owner
  BY DEF MemberRow
<1>. HIDE DEF row
<1>2. i # 0 => i \in DOMAIN invitation /\ client[t].email = invitation[i].email
  BY RequestHolds
<1>3. /\ DOMAIN invitation' = DOMAIN invitation /\ invitation' \in [DOMAIN invitation -> InvitationRow]
      /\ \A j \in DOMAIN invitation :
            /\ invitation'[j].family = invitation[j].family /\ invitation'[j].email = invitation[j].email
            /\ invitation[j].state # "open" => invitation'[j].state # "open"
      /\ Join(u, f, role, i) /\ i # 0 => invitation'[i].state # "open"
  <2>1. CASE invitation' = invitation /\ ~(Join(u, f, role, i) /\ i # 0)
    BY <1>0, <2>1
  <2>2. CASE Join(u, f, role, i) /\ i # 0
    <3>1. i \in DOMAIN invitation /\ invitation' = [invitation EXCEPT ![i] = [invitation[i] EXCEPT !.state = "accepted"]]
      BY <1>2, <2>2 DEF Join
    <3>2. [invitation[i] EXCEPT !.state = "accepted"] \in InvitationRow
      BY <1>0, <3>1 DEF InvitationRow
    <3>. QED
      BY <1>0, <3>1, <3>2 DEF InvitationRow
  <2>. QED
    BY <2>1, <2>2 DEF Join
<1>4. /\ DOMAIN member \subseteq DOMAIN member'
      /\ \A k \in DOMAIN member : member'[k] = member[k]
      /\ \A k \in DOMAIN member' \ DOMAIN member :
            k = <<u, f>> /\ member'[k] = row /\ Join(u, f, role, i) /\ (i # 0 => invitation[i].state # "revoked")
      /\ member' = [k \in DOMAIN member' |-> member'[k]]
  <2>1. CASE member' = member
    BY <1>0, <2>1
  <2>2. CASE Join(u, f, role, i)
    <3>1. member' = [k \in DOMAIN member \cup {<<u, f>>} |-> IF k = <<u, f>> THEN row ELSE member[k]]
      BY <2>2 DEF Join, Put, row
    <3>2. <<u, f>> \notin DOMAIN member /\ (i # 0 => invitation[i].state # "revoked")
      BY <2>2 DEF Join
    <3>. QED
      BY <2>2, <3>1, <3>2
  <2>. QED
    BY <2>1, <2>2
<1>5. ASSUME NEW k \in DOMAIN member', k \notin DOMAIN member
      PROVE  k = <<u, f>> /\ k[1] = u /\ member'[k].via = i /\ Join(u, f, role, i)
  <2>1. k = <<u, f>> /\ member'[k] = row /\ Join(u, f, role, i)
    BY <1>4, <1>5
  <2>2. k[1] = u
    BY <2>1
  <2>. QED
    BY <1>a, <2>1, <2>2
<1>6. MembershipType'
  <2>1. member' \in [DOMAIN member' -> MemberRow]
    <3>1. \A k \in DOMAIN member' : member'[k] \in MemberRow
      BY <1>0, <1>4, <1>a
    <3>. QED
      BY <1>4, <3>1
  <2>2. AreMembers(DOMAIN member', DOMAIN user')
    <3>1. ASSUME NEW k \in DOMAIN member
          PROVE  k = <<k[1], k[2]>> /\ k[1] \in DOMAIN user' /\ k[2] \in Families
      BY <1>0 DEF AreMembers
    <3>2. ASSUME NEW k \in DOMAIN member', k \notin DOMAIN member
          PROVE  k = <<k[1], k[2]>> /\ k[1] \in DOMAIN user' /\ k[2] \in Families
      <4>1. k = <<u, f>>
        BY <1>5, <3>2
      <4>2. k[1] = u /\ k[2] = f
        BY <1>a, <4>1
      <4>. QED
        BY <4>1, <4>2
    <3>. QED
      BY <3>1, <3>2 DEF AreMembers
  <2>3. client' \in [Clients -> Idling \cup Inviting \cup Accepting \cup Revoking \cup SigningIn]
    BY <1>0, IdleIs
  <2>4. DOMAIN invitation' \subseteq Ids /\ DOMAIN user' \subseteq Ids /\ invitation' \in [DOMAIN invitation' -> InvitationRow]
    BY <1>0, <1>3
  <2>. QED
    BY <2>1, <2>2, <2>3, <2>4 DEF MembershipType
<1>7. ASSUME NEW q \in Clients \ {t}, NEW v \in DOMAIN user, v \notin renamed',
             client[q].user = v \/ HasRead(q, user[v].email)
      PROVE  user'[v].email = user[v].email /\ v \notin renamed
  BY <1>7 DEF Noted
<1>8. RequestsKnow'
  <2>2. ASSUME NEW q \in Clients \ {t}, AcceptingKnows(q), client[q].user \in DOMAIN user \cup {0}
        PROVE  AcceptingKnows(q)'
    <3>0. client'[q] = client[q] /\ client[q].of \in DOMAIN invitation
          /\ client[q].email = invitation'[client[q].of].email /\ DOMAIN invitation' = DOMAIN invitation
      BY <1>1, <1>3, <2>2 DEF AcceptingKnows
    <3>1. ASSUME client[q].user \in DOMAIN user' \ renamed' PROVE client[q].user \in DOMAIN user
      BY <1>0, <2>2, <3>1 DEF Ids
    <3>. QED
      BY <1>7, <2>2, <3>0, <3>1 DEF AcceptingKnows
  <2>3. ASSUME NEW q \in Clients \ {t}, SigningInKnows(q), client[q].user \in DOMAIN user \cup {0}
        PROVE  SigningInKnows(q)'
    <3>0. /\ client'[q] = client[q] /\ DOMAIN invitation' = DOMAIN invitation
          /\ client[q].of # 0 => client[q].of \in DOMAIN invitation /\ client[q].email = invitation'[client[q].of].email
      BY <1>1, <1>3, <2>3 DEF SigningInKnows
    <3>1. ASSUME client[q].user \in DOMAIN user' \ renamed' PROVE client[q].user \in DOMAIN user
      BY <1>0, <2>3, <3>1 DEF Ids
    <3>. QED
      BY <1>7, <2>3, <3>0, <3>1 DEF SigningInKnows
  <2>. QED
    BY <1>1, <1>3, <2>2, <2>3, IdleIs DEF MInv, RequestsKnow
<1>9. ViaIsClosed'
  <2>1. ASSUME NEW k \in DOMAIN member, member[k].via # 0
        PROVE  /\ member[k].via \in DOMAIN invitation' /\ invitation'[member[k].via].state # "open"
               /\ k[2] = invitation'[member[k].via].family
    BY <1>3, <2>1 DEF MInv, ViaIsClosed
  <2>2. ASSUME NEW k \in DOMAIN member' \ DOMAIN member, member'[k].via # 0
        PROVE  /\ member'[k].via \in DOMAIN invitation' /\ invitation'[member'[k].via].state # "open"
               /\ k[2] = invitation'[member'[k].via].family
    BY <1>2, <1>3, <1>4, <1>a, <2>2
  <2>. QED
    BY <1>4, <2>1, <2>2 DEF ViaIsClosed
\* Those who were in by the invitation of the request have its email still.
<1>10. ASSUME i # 0, NEW k \in DOMAIN member, member[k].via = i, k[1] \notin renamed
       PROVE  user[k[1]].email = client[t].email /\ k[1] \in DOMAIN user
  BY <1>0, <1>10 DEF MInv, JoinedKeepEmail, AreMembers
<1>11. ASSUME NEW q \in Clients \ {t}, NEW k \in DOMAIN member, HasRead(q, client[q].email),
              member[k].via # 0, member[k].via = client[q].of, k[1] \notin renamed'
       PROVE  user'[k[1]].email = client[q].email
  <2>1. k[1] \in DOMAIN user /\ k[1] \notin renamed /\ user[k[1]].email = client[q].email
    BY <1>0, <1>11 DEF MInv, JoinedKeepEmail, AreMembers, HasRead
  <2>. QED
    BY <1>7, <1>11, <2>1 DEF HasRead
<1>12. JoinedKeepEmail'
  <2>1. ASSUME NEW q \in Clients, NEW k \in DOMAIN member', client'[q].doing \in {"accepting", "signing in"},
               member'[k].via # 0, member'[k].via = client'[q].of, k[1] \notin renamed'
        PROVE  user'[k[1]].email = client'[q].email
    <3>1. q # t /\ client'[q] = client[q] /\ HasRead(q, client[q].email)
      BY <1>1, <2>1, IdleIs DEF HasRead
    <3>2. CASE k \in DOMAIN member
      <4>1. member[k].via # 0 /\ member[k].via = client[q].of
        BY <1>4, <2>1, <3>1, <3>2
      <4>2. user'[k[1]].email = client[q].email
        BY <1>11, <2>1, <3>1, <3>2, <4>1
      <4>. QED
        BY <3>1, <4>2
    <3>3. CASE k \notin DOMAIN member
      <4>1. i # 0 /\ client[q].of = i /\ k[1] = u /\ i = client[t].of /\ user'[u].email = client[t].email
        BY <1>5, <2>1, <3>1, <3>3
      <4>2. client[q].email = invitation[i].email
        BY <2>1, <3>1, <4>1, RequestHolds
      <4>. QED
        BY <1>2, <3>1, <4>1, <4>2
    <3>. QED
      BY <3>2, <3>3
  <2>. QED
    BY <2>1 DEF JoinedKeepEmail
\* The one who joins has that email too, and so is the same, who was not a member.
<1>13. ASSUME NEW k \in DOMAIN member, i # 0, member[k].via = i, k[1] \notin renamed',
              Join(u, f, role, i), u \notin renamed'
       PROVE  FALSE
  <2>1. user[k[1]].email = client[t].email /\ k[1] \in DOMAIN user /\ user'[u].email = client[t].email
    BY <1>10, <1>13
  <2>2. k[1] = u
    <3>1. CASE k[1] # u
      <4>1. user'[k[1]] = user[k[1]] /\ k[1] \in DOMAIN user' /\ u \in DOMAIN user'
        BY <2>1, <3>1
      <4>2. user'[k[1]].email # user'[u].email
        BY <3>1, <4>1 DEF Unique
      <4>. QED
        BY <2>1, <4>1, <4>2
    <3>. QED
      BY <3>1
  <2>3. k[2] = f /\ k = <<k[1], k[2]>>
    BY <1>0, <1>13 DEF MInv, ViaIsClosed, AreMembers
  <2>. QED
    BY <1>13, <2>2, <2>3 DEF Join
<1>14. InvitationUsedOnce'
  <2>1. ASSUME NEW k \in DOMAIN member', NEW l \in DOMAIN member', member'[k].via # 0,
               member'[k].via = member'[l].via, k[1] \notin renamed', l[1] \notin renamed'
        PROVE  k = l
    <3>1. CASE k \in DOMAIN member /\ l \in DOMAIN member
      <4>1. member[k].via # 0 /\ member[k].via = member[l].via
        BY <1>4, <2>1, <3>1
      <4>2. {k[1], l[1]} \cap renamed = {}
        BY <2>1
      <4>3. InvitationUsedOnce
        BY DEF MInv
      <4>. QED
        BY <3>1, <4>1, <4>2, <4>3 DEF InvitationUsedOnce
    <3>2. CASE k \notin DOMAIN member /\ l \notin DOMAIN member
      BY <1>5, <2>1, <3>2
    <3>3. CASE k \in DOMAIN member /\ l \notin DOMAIN member
      BY <1>4, <1>5, <1>13, <2>1, <3>3
    <3>4. CASE k \notin DOMAIN member /\ l \in DOMAIN member
      BY <1>4, <1>5, <1>13, <2>1, <3>4
    <3>. QED
      BY <3>1, <3>2, <3>3, <3>4
  <2>. QED
    BY <2>1 DEF InvitationUsedOnce
<1>15. DoorIsKept
  BY <1>4, <1>a DEF DoorIsKept
<1>. QED
  BY <1>6, <1>8, <1>9, <1>12, <1>14, <1>15 DEF MInv

\* An acceptance is of the account that it found, or of a new one with the email.
LEMMA AcceptingKeeps ==
    ASSUME MembershipAssumption, MInv, NEW t \in Clients, NEW u \in 1..MaxUsers, CommitAccept(t, u)
    PROVE  MInv' /\ DoorIsKept
<1>. DEFINE i    == client[t].of
            new  == NewUser(client[t].email, TRUE, "local", NoId, NoId)
<1>0. /\ user \in [DOMAIN user -> UserRow] /\ DOMAIN user \subseteq Ids /\ u \in Ids
      /\ invitation \in [DOMAIN invitation -> InvitationRow] /\ DOMAIN invitation \subseteq Ids
      /\ client \in [Clients -> Idling \cup Inviting \cup Accepting \cup Revoking \cup SigningIn]
      /\ ManagedHasMembership
  BY DEF MInv, MembershipType, MembershipAssumption, Ids
<1>1. /\ client[t].doing = "accepting" /\ client' = [client EXCEPT ![t] = Idle]
      /\ Unique(user') /\ Join(u, invitation[i].family, invitation[i].role, i) /\ renamed' = renamed
      /\ IF client[t].user = 0 THEN Fresh(u, user, MaxUsers) /\ user' = Put(user, u, new)
         ELSE u = client[t].user /\ user' = user
  BY DEF CommitAccept, Answer
<1>2. i \in DOMAIN invitation /\ AcceptingKnows(t) /\ client[t].user \in DOMAIN user \cup {0}
  BY <1>1 DEF MInv, RequestsKnow, AcceptingKnows
<1>3. invitation[i].family \in Families /\ invitation[i].role \in Roles /\ i \in Nat /\ i # 0
  BY <1>0, <1>2 DEF InvitationRow, Ids
<1>4. client[t].email \in Emails
  <2>1. client[t] \in Accepting
    BY <1>0, <1>1 DEF Idling, Inviting, Accepting, Revoking, SigningIn
  <2>. QED
    BY <2>1 DEF Accepting
<1>5. new \in UserRow /\ new.email = client[t].email /\ new.provider = "local" /\ new.scim = NoId
  BY <1>4 DEF NewUser, UserRow
<1>. HIDE DEF new
<1>6. /\ user' \in [DOMAIN user' -> UserRow] /\ DOMAIN user' = DOMAIN user \cup {u}
      /\ \A v \in DOMAIN user : user'[v] = user[v]
      /\ u \notin DOMAIN user => user'[u] = new
      /\ u \notin renamed => user'[u].email = client[t].email
  <2>1. CASE client[t].user = 0
    <3>1. u \notin DOMAIN user /\ user' = [v \in DOMAIN user \cup {u} |-> IF v = u THEN new ELSE user[v]]
      BY <1>1, <2>1 DEF Fresh, Put
    <3>. QED
      BY <1>0, <1>5, <3>1
  <2>2. CASE client[t].user # 0
    BY <1>0, <1>1, <1>2, <2>2 DEF AcceptingKnows
  <2>. QED
    BY <2>1, <2>2
<1>7. Noted(Clients \ {t})
  BY <1>6 DEF Noted
<1>8. DOMAIN member \subseteq DOMAIN member'
  BY <1>1 DEF Join, Put
<1>9. ManagedHasMembership'
  BY <1>0, <1>5, <1>6, <1>8 DEF ManagedHasMembership, Managed
<1>. HIDE DEF i
<1>10. i = client[t].of /\ client[t].doing \in {"accepting", "signing in"}
  BY <1>1 DEF i
<1>. QED
  BY <1>0, <1>1, <1>3, <1>6, <1>7, <1>9, <1>10, JoiningKeeps

\* A sign-in writes what it has changed over what the row now is.
LEMMA SigningInKeeps ==
    ASSUME MembershipAssumption, MInv, NEW t \in Clients, NEW u \in 1..MaxUsers, NEW role \in Roles,
           CommitSignIn(t, u, role)
    PROVE  MInv' /\ DoorIsKept
<1>. DEFINE asked == client[t]
            i     == asked.of
            row   == IF asked.user = 0 THEN asked.row ELSE user[u]
            after == [row EXCEPT !.email    = Changed(@, asked.row.email, asked.email),
                                 !.provider = Changed(@, asked.row.provider, "sso"),
                                 !.external = Changed(@, asked.row.external, asked.external)]
<1>0. /\ user \in [DOMAIN user -> UserRow] /\ DOMAIN user \subseteq Ids /\ u \in Ids
      /\ invitation \in [DOMAIN invitation -> InvitationRow] /\ DOMAIN invitation \subseteq Ids
      /\ client \in [Clients -> Idling \cup Inviting \cup Accepting \cup Revoking \cup SigningIn]
      /\ member \in [DOMAIN member -> MemberRow]
      /\ ManagedHasMembership
  BY DEF MInv, MembershipType, MembershipAssumption, Ids
<1>1. /\ asked.doing = "signing in" /\ client' = [client EXCEPT ![t] = Idle]
      /\ IF asked.user = 0 THEN Fresh(u, user, MaxUsers) ELSE u = asked.user
      /\ user' = Put(user, u, after) /\ Unique(user') /\ renamed' = Renamed(user', Clients \ {t})
      /\ IF ~asked.joins THEN UNCHANGED <<member, invitation>>
         ELSE IF i = 0 THEN Join(u, Default, role, 0)
         ELSE Join(u, invitation[i].family, invitation[i].role, i)
  BY DEF CommitSignIn, Answer
<1>2. SigningInKnows(t) /\ asked.user \in DOMAIN user \cup {0}
  BY <1>1 DEF MInv, RequestsKnow
<1>3. asked \in SigningIn
  BY <1>0, <1>1 DEF Idling, Inviting, Accepting, Revoking, SigningIn
<1>4. asked.row \in UserRow /\ asked.email \in Emails /\ asked.external \in Externals /\ i \in Nat
  BY <1>3 DEF SigningIn
<1>5. u \in DOMAIN user <=> asked.user # 0
  BY <1>0, <1>1, <1>2 DEF Fresh, Ids
<1>6. row \in UserRow
  BY <1>0, <1>4, <1>5
<1>a. asked.user = 0 => row.provider = "sso" /\ row.scim = NoId
  BY <1>2 DEF SigningInKnows, NewUser
<1>b. asked.user # 0 => row = user[u]
  OBVIOUS
<1>. HIDE DEF row
<1>7. /\ after \in UserRow /\ after.scim = row.scim
      /\ after.provider \in {row.provider, "sso"}
      /\ after.email = IF asked.email = asked.row.email THEN row.email ELSE asked.email
  <2>. DEFINE one == [row EXCEPT !.email = Changed(@, asked.row.email, asked.email)]
              two == [one EXCEPT !.provider = Changed(@, asked.row.provider, "sso")]
  <2>1. one \in UserRow /\ one.scim = row.scim /\ one.provider = row.provider
        /\ one.email = IF asked.email = asked.row.email THEN row.email ELSE asked.email
    BY <1>4, <1>6 DEF UserRow, Changed
  <2>. HIDE DEF one
  <2>2. two \in UserRow /\ two.scim = one.scim /\ two.provider \in {one.provider, "sso"} /\ two.email = one.email
    BY <2>1 DEF UserRow, Changed
  <2>3. after = [two EXCEPT !.external = Changed(@, asked.row.external, asked.external)]
    BY <1>6 DEF one, UserRow
  <2>. HIDE DEF two, after
  <2>4. after \in UserRow /\ after.scim = two.scim /\ after.provider = two.provider /\ after.email = two.email
    BY <1>4, <2>2, <2>3 DEF UserRow, Changed
  <2>. QED
    BY <2>1, <2>2, <2>4
<1>. HIDE DEF after
<1>8. /\ user' \in [DOMAIN user' -> UserRow] /\ DOMAIN user' = DOMAIN user \cup {u} /\ user'[u] = after
      /\ \A v \in DOMAIN user \ {u} : user'[v] = user[v]
  BY <1>0, <1>1, <1>7 DEF Put
<1>9. renamed \subseteq renamed' /\ Noted(Clients \ {t})
  BY <1>1 DEF Renamed, Noted, HasRead
<1>10. u \notin renamed' => user'[u].email = asked.email
  <2>1. CASE asked.email # asked.row.email
    BY <1>7, <1>8, <2>1
  <2>2. CASE asked.email = asked.row.email /\ asked.user # 0
    BY <1>5, <1>7, <1>8, <1>9, <1>b, <1>1, <1>2, <2>2 DEF SigningInKnows
  <2>3. CASE asked.email = asked.row.email /\ asked.user = 0
    <3>1. row = asked.row
      BY <2>3 DEF row
    <3>. QED
      BY <1>7, <1>8, <2>3, <3>1
  <2>. QED
    BY <2>1, <2>2, <2>3
<1>11. DOMAIN member \subseteq DOMAIN member'
  BY <1>1 DEF Join, Put
<1>12. Managed(u)' => u \in DOMAIN user /\ Managed(u)
  BY <1>5, <1>7, <1>8, <1>a, <1>b DEF Managed
<1>13. ManagedHasMembership'
  BY <1>0, <1>8, <1>11, <1>12 DEF ManagedHasMembership, Managed
<1>14. i # 0 => invitation[i].family \in Families /\ invitation[i].role \in Roles
  BY <1>0, <1>2 DEF SigningInKnows, InvitationRow
<1>. HIDE DEF i, asked
<1>15. asked = client[t] /\ i = client[t].of /\ client[t].doing \in {"accepting", "signing in"}
  BY <1>1 DEF i, asked
<1>16. CASE asked.joins /\ i # 0
  BY <1>0, <1>1, <1>4, <1>8, <1>9, <1>10, <1>13, <1>14, <1>15, <1>16, JoiningKeeps
<1>17. CASE ~(asked.joins /\ i # 0)
  BY <1>0, <1>1, <1>8, <1>9, <1>13, <1>15, <1>17, JoiningKeeps DEF MembershipAssumption
<1>. QED
  BY <1>16, <1>17

\* Every step keeps the invariant, and the door.
LEMMA MInvNext ==
    ASSUME MembershipAssumption, MInv, [MembershipNext]_membershipVars
    PROVE  MInv' /\ [DoorIsKept]_membershipVars
<1>1. CASE UNCHANGED membershipVars
  <2>0. UNCHANGED <<user, member, invitation, client, renamed>>
    BY <1>1 DEF membershipVars
  <2>1. MembershipType' /\ Unique(user')
    BY <2>0 DEF MInv, MembershipType
  <2>2. RequestsKnow'
    BY <2>0 DEF MInv, RequestsKnow, AcceptingKnows, SigningInKnows
  <2>3. ViaIsClosed'
    BY <2>0 DEF MInv, ViaIsClosed
  <2>4. JoinedKeepEmail'
    BY <2>0 DEF MInv, JoinedKeepEmail
  <2>5. InvitationUsedOnce' /\ ManagedHasMembership'
    BY <2>0 DEF MInv, InvitationUsedOnce, ManagedHasMembership, Managed
  <2>. QED
    BY <1>1, <2>1, <2>2, <2>3, <2>4, <2>5 DEF MInv
<1>2. ASSUME NEW r \in Roles, NEW new \in Roles, NEW some \in SUBSET DOMAIN user,
             \/ CreateGroup(r, some) \/ RenameGroup(r, new) \/ DeleteGroup(r)
             \/ AddMembers(r, some) \/ RemoveMembers(r, some) \/ ReplaceMembers(r, some)
      PROVE  MInv' /\ DoorIsKept
  <2>1. UNCHANGED <<user, invitation, client, renamed>>
    BY <1>2 DEF CreateGroup, RenameGroup, DeleteGroup, AddMembers, RemoveMembers, ReplaceMembers
  <2>. QED
    BY <1>2, <2>1, GroupsKeep
<1>3. ASSUME NEW t \in Clients,
             \/ \E f \in Families, e \in Emails, r \in Roles : BeginInvite(t, f, e, r)
             \/ \E i \in 1..MaxInvitations : BeginAccept(t, i) \/ BeginRevoke(t, i)
             \/ \E x \in Externals, e \in Emails : BeginSignIn(t, x, e)
             \/ Abort(t)
      PROVE  MInv' /\ DoorIsKept
  BY <1>3, AskingKeeps
<1>4. ASSUME NEW t \in Clients, NEW u \in 1..MaxUsers,
             CommitAccept(t, u) \/ \E r \in Roles : CommitSignIn(t, u, r)
      PROVE  MInv' /\ DoorIsKept
  BY <1>4, AcceptingKeeps, SigningInKeeps
<1>5. ASSUME NEW t \in Clients, NEW i \in 1..MaxInvitations, CommitInvite(t, i)
      PROVE  MInv' /\ DoorIsKept
  BY <1>5, InvitationsKeep
<1>6. ASSUME NEW t \in Clients, CommitRevoke(t)
      PROVE  MInv' /\ DoorIsKept
  BY <1>6, InvitationsKeep
<1>7. ASSUME NEW i \in 1..MaxInvitations, Expire(i)
      PROVE  MInv' /\ DoorIsKept
  BY <1>7, InvitationsKeep
<1>8. ASSUME NEW u \in 1..MaxUsers,
             \/ \E e \in Emails, s \in ScimIds \cup {NoId}, a \in BOOLEAN : CreateUser(u, e, s, a) \/ PatchUser(u, e, s, a)
             \/ DeleteUser(u)
      PROVE  MInv' /\ DoorIsKept
  BY <1>8, ScimKeeps
<1>9. ASSUME NEW r \in Roles, DeleteGroup(r) \/ \E new \in Roles : RenameGroup(r, new)
      PROVE  MInv' /\ DoorIsKept
  BY <1>2, <1>9
<1>10. ASSUME NEW r \in Roles, NEW some \in SUBSET DOMAIN user,
              CreateGroup(r, some) \/ AddMembers(r, some) \/ RemoveMembers(r, some) \/ ReplaceMembers(r, some)
       PROVE  MInv' /\ DoorIsKept
  BY <1>2, <1>10
<1>11. MembershipNext => MInv' /\ DoorIsKept
  BY <1>3, <1>4, <1>5, <1>6, <1>7, <1>8, <1>9, <1>10 DEF MembershipNext
<1>. QED
  BY <1>1, <1>11

\* Whoever writes the memberships, through a form of routers/invitations.py, by signing
\* in (services/auth_provisioning.py) or for the provisioner (routers/scim.py): an
\* invitation lets one person in, unless an email changed under a request that had
\* read it, and who is managed by the provisioner belongs to the default family.
THEOREM MembershipsAreSound ==
    ASSUME MembershipAssumption PROVE MembershipSpec => []MembershipIsSound
<1>1. MembershipInit => MInv
  BY MInvInit
<1>2. MInv /\ [MembershipNext]_membershipVars => MInv'
  BY MInvNext
<1>3. MInv => MembershipIsSound
  BY DEF MInv, MembershipIsSound
<1>. QED
  BY <1>1, <1>2, <1>3, PTL DEF MembershipSpec

\* No step takes in a person by an invitation that was revoked before, although
\* accept_invitation and sign-in commit on what they had read of it; and none takes
\* a family from its owner, groups of routers/scim.py included.
THEOREM DoorIsKeptAlways ==
    ASSUME MembershipAssumption PROVE MembershipSpec => KeepsTheDoor
<1>1. MembershipInit => MInv
  BY MInvInit
<1>2. MInv /\ [MembershipNext]_membershipVars => MInv' /\ [DoorIsKept]_membershipVars
  BY MInvNext
<1>. QED
  BY <1>1, <1>2, PTL DEF MembershipSpec, KeepsTheDoor

-----------------------------------------------------------------------------
(* The records.                                                            *)

CoursesEver == Years \X Subjects
MarksEver   == Marks \cup {NoMark}
Line        == [mark : MarksEver, set : Nat]
Lines       == UNION {[some -> Line] : some \in SUBSET CoursesEver}
Document    == [status : {"draft", "final", "archived"}, year : Years \cup {All}, edition : Nat,
                totals : {Totals(lines) : lines \in Lines}]

RecordsType ==
    /\ kind \in {"card", "transcript", "compliance"} /\ years \subseteq Years /\ subjects \subseteq Subjects
    /\ marks \in [CoursesEver -> MarksEver]
    /\ made \in Nat /\ DOMAIN record \subseteq 1..made /\ \A r \in DOMAIN record : record[r] \in Document
    /\ DOMAIN line \subseteq (1..made) \X Years \X Subjects /\ \A k \in DOMAIN line : line[k] \in Line
    /\ DOMAIN clerk = Clerks

\* A line is of a year and of a document that are there, and a document of one year has lines of that year.
LinesBelong == \A k \in DOMAIN line : k[2] \in years /\ k[1] \in DOMAIN record /\ record[k[1]].year \in {k[2], All}

\* What a request asks for.
RequestType(t) ==
    LET asked == clerk[t] IN
    /\ asked.doing = "generating" =>
          /\ asked.of \in 0..made /\ asked.year \in Years \cup {All} /\ asked.entries \in Lines
          /\ asked.copied \in UNION {[some -> MarksEver] : some \in SUBSET CoursesEver}
          /\ kind = "compliance" => asked.of = 0
          /\ IF kind = "transcript" THEN asked.year = All
             ELSE asked.year \in Years /\ \A c \in DOMAIN asked.copied : c[1] = asked.year
    /\ asked.doing = "editing" => asked.of \in 1..made /\ asked.entries \in Lines /\ asked.course \in DOMAIN asked.entries
    /\ asked.doing = "changing" =>
          asked.of \in 1..made /\ asked.status \in {"final", "archived"} /\ asked.entries \in Lines
    /\ asked.doing = "finalizing" => asked.of \in 1..made

Writing(t) == clerk[t].doing \in {"generating", "editing", "changing", "finalizing"} /\ clerk[t].of \in DOMAIN record

\* It knows the document, but for later editions, as it is unless it is late.
KnowsDocument(t) ==
    LET asked == clerk[t] IN
    Writing(t) =>
        /\ asked.year = record[asked.of].year
        /\ asked.record.edition <= record[asked.of].edition /\ asked.record.edition \in Nat
        /\ asked.doing \in {"generating", "editing"} => asked.record.status = "draft"
        /\ t \notin late => record[asked.of] = asked.record

\* It knows the lines as they are, and the one that it edits.
KnowsLines(t) ==
    LET asked == clerk[t] IN
    Writing(t) =>
        /\ asked.doing = "generating" /\ asked.record.edition = record[asked.of].edition =>
               DOMAIN EntriesOf(asked.of) \subseteq DOMAIN asked.entries
        /\ t \notin late /\ asked.of \notin raced \cup cut =>
               /\ asked.doing = "changing" => asked.entries = EntriesOf(asked.of)
               /\ asked.doing = "editing" =>
                      asked.entries = [EntriesOf(asked.of) EXCEPT ![asked.course].set = asked.entries[asked.course].set]

RecordsInv ==
    /\ RecordsType /\ LinesBelong /\ TotalsMatchEntries
    /\ \A t \in Clerks : RequestType(t) /\ KnowsDocument(t) /\ KnowsLines(t)

\* No document yet.
LEMMA RecordsInvInit == ASSUME RecordsAssumption, RecordsInit PROVE RecordsInv
<1>1. /\ kind \in {"card", "transcript", "compliance"} /\ subjects = Subjects /\ years = Years /\ made = 0
      /\ DOMAIN record = {} /\ DOMAIN line = {} /\ marks = [c \in CoursesEver |-> NoMark]
      /\ clerk = [t \in Clerks |-> AtRest]
  <2>1. DOMAIN << >> = {}
    OBVIOUS
  <2>. QED
    BY <2>1 DEF RecordsInit, CoursesEver
<1>2. RecordsType
  BY <1>1 DEF RecordsType, MarksEver
<1>3. \A t \in Clerks : clerk[t].doing = "nothing"
  BY <1>1 DEF AtRest
<1>4. \A t \in Clerks : RequestType(t) /\ KnowsDocument(t) /\ KnowsLines(t)
  BY <1>3 DEF RequestType, KnowsDocument, KnowsLines, Writing
<1>5. LinesBelong /\ TotalsMatchEntries
  BY <1>1 DEF LinesBelong, TotalsMatchEntries
<1>. QED
  BY <1>2, <1>4, <1>5 DEF RecordsInv

\* The lines of a document, by course.
LEMMA EntriesAreLines ==
    ASSUME RecordsType, NEW r
    PROVE  /\ EntriesOf(r) \in Lines
           /\ \A c \in CoursesEver : c \in DOMAIN EntriesOf(r) <=> <<r, c[1], c[2]>> \in DOMAIN line
           /\ \A c \in DOMAIN EntriesOf(r) : EntriesOf(r)[c] = line[<<r, c[1], c[2]>>]
<1>. DEFINE there == {c \in CoursesEver : <<r, c[1], c[2]>> \in DOMAIN line}
<1>1. EntriesOf(r) = [c \in there |-> line[<<r, c[1], c[2]>>]]
  BY DEF EntriesOf, CoursesEver
<1>2. \A c \in there : line[<<r, c[1], c[2]>>] \in Line
  BY DEF RecordsType
<1>3. EntriesOf(r) \in [there -> Line] /\ there \in SUBSET CoursesEver
  BY <1>1, <1>2
<1>. HIDE DEF there
<1>4. EntriesOf(r) \in Lines
  BY <1>3 DEF Lines
<1>. QED
  BY <1>1, <1>4 DEF there

\* Who still has what he knows: his document and its lines are as they were, or it lost some.
LEMMA KnowsStill ==
    ASSUME NEW u \in Clerks, RequestType(u), KnowsDocument(u), KnowsLines(u), clerk'[u] = clerk[u],
           made \in Nat, made' \in Nat, made <= made', kind' = kind, u \in late => u \in late',
           NEW of, of = clerk[u].of, of \in raced \cup cut => of \in raced' \cup cut',
           Writing(u)' => of \in DOMAIN record /\ record'[of] = record[of] /\ DOMAIN EntriesOf(of)' \subseteq DOMAIN EntriesOf(of),
           Writing(u)' /\ of \notin raced' \cup cut' => EntriesOf(of)' = EntriesOf(of)
    PROVE  RequestType(u)' /\ KnowsDocument(u)' /\ KnowsLines(u)'
<1>1. RequestType(u)'
  BY DEF RequestType
<1>2. Writing(u)' => Writing(u)
  BY DEF Writing
<1>3. KnowsDocument(u)'
  BY <1>2 DEF KnowsDocument
<1>4. KnowsLines(u)'
  BY <1>2 DEF KnowsLines
<1>. QED
  BY <1>1, <1>3, <1>4

\* A final document's lines stay if they are as they were.
Frozen == \A r \in DOMAIN record \cap DOMAIN record' : record[r].status # "draft" /\ r \notin raced' => LinesStay(r)

\* Asking changes nothing but the request.
Asks(t) ==
    /\ UNCHANGED <<kind, subjects, years, marks, record, made, line, late, raced, cut>>
    /\ DOMAIN clerk' = Clerks /\ \A u \in Clerks \ {t} : clerk'[u] = clerk[u]

LEMMA AskingKeepsRecords ==
    ASSUME RecordsInv, NEW t \in Clerks, Asks(t), RequestType(t)', KnowsDocument(t)', KnowsLines(t)'
    PROVE  RecordsInv' /\ Frozen
<1>1. RecordsType /\ LinesBelong /\ TotalsMatchEntries /\ \A u \in Clerks : RequestType(u) /\ KnowsDocument(u) /\ KnowsLines(u)
  BY DEF RecordsInv
<1>2. \A r : EntriesOf(r)' = EntriesOf(r)
  BY DEF EntriesOf, Asks
<1>3. RecordsType' /\ LinesBelong' /\ TotalsMatchEntries'
  BY <1>1, <1>2 DEF RecordsType, LinesBelong, TotalsMatchEntries, Asks
<1>4. ASSUME NEW u \in Clerks \ {t} PROVE RequestType(u)' /\ KnowsDocument(u)' /\ KnowsLines(u)'
  <2>. PICK of : of = clerk[u].of
    OBVIOUS
  <2>1. Writing(u)' => of \in DOMAIN record
    BY DEF Writing, Asks
  <2>2. /\ clerk'[u] = clerk[u] /\ made' = made /\ kind' = kind /\ late' = late /\ record' = record
        /\ raced' = raced /\ cut' = cut /\ made \in Nat
    BY <1>1 DEF Asks, RecordsType
  <2>3. EntriesOf(of)' = EntriesOf(of)
    BY <1>2
  <2>. QED
    BY <1>1, <2>1, <2>2, <2>3, KnowsStill
<1>5. Frozen
  BY <1>1 DEF Frozen, LinesStay, LinesOf, LinesBelong, Asks
<1>. QED
  BY <1>1, <1>3, <1>4, <1>5 DEF RecordsInv

\* A commit about a document of year y.
Commits(t, r, y) ==
    /\ Settle(t, y) /\ kind' = kind /\ made' \in Nat /\ made <= made' /\ raced \subseteq raced' /\ cut' = cut
    /\ DOMAIN record' \subseteq DOMAIN record \cup {r}
    /\ \A q : q # r => EntriesOf(q)' = EntriesOf(q)
    /\ \A q \in DOMAIN record \ {r} : record'[q] = record[q]
    /\ r \notin DOMAIN record => r \notin 1..made \/ r \notin DOMAIN record'
    /\ r \in DOMAIN record =>
          /\ record[r].year = y /\ record'[r].year = y
          /\ record[r].edition \in Nat /\ record'[r].edition \in Nat /\ record[r].edition <= record'[r].edition
          /\ record[r].edition = record'[r].edition => DOMAIN EntriesOf(r)' \subseteq DOMAIN EntriesOf(r)

\* After a commit the others know what they knew, or are late.
LEMMA CommitsAreNews ==
    ASSUME RecordsInv, NEW t \in Clerks, NEW r \in Nat \ {0}, NEW y, Commits(t, r, y), NEW u \in Clerks
    PROVE  RequestType(u)' /\ KnowsDocument(u)' /\ KnowsLines(u)'
<1>1. RequestType(u) /\ KnowsDocument(u) /\ KnowsLines(u) /\ made \in Nat /\ DOMAIN record \subseteq 1..made
  BY DEF RecordsInv, RecordsType
<1>2. /\ clerk' = [clerk EXCEPT ![t] = AtRest] /\ DOMAIN clerk = Clerks
      /\ late' = (late \cup {c \in Clerks : clerk[c].year = y}) \ {t}
  BY DEF Commits, Settle, RecordsInv, RecordsType
<1>3. CASE u = t
  <2>1. clerk'[u].doing = "nothing"
    BY <1>2, <1>3 DEF AtRest
  <2>. QED
    BY <2>1 DEF RequestType, KnowsDocument, KnowsLines, Writing
<1>4. CASE u # t
  <2>1. clerk'[u] = clerk[u] /\ (u \in late => u \in late')
    BY <1>2, <1>4
  <2>2. PICK of : of = clerk[u].of
    OBVIOUS
  <2>3. /\ kind' = kind /\ made' \in Nat /\ made <= made' /\ raced \subseteq raced' /\ cut' = cut
        /\ of # r => EntriesOf(of)' = EntriesOf(of)
    BY DEF Commits
  <2>4. Writing(u)' => of \in DOMAIN record /\ (of # r => record'[of] = record[of])
    <3>1. Writing(u)' => of \in DOMAIN record' /\ of # 0
      <4>1. Writing(u)' => of \in DOMAIN record'
        BY <2>1, <2>2 DEF Writing
      <4>. QED
        BY <1>1, <4>1 DEF Commits
    <3>2. Writing(u)' => of \in 1..made
      BY <1>1, <2>1, <2>2, <3>1 DEF Writing, RequestType
    <3>. QED
      BY <2>1, <2>2, <3>1, <3>2 DEF Commits
  <2>5. CASE of # r
    BY <1>1, <2>1, <2>2, <2>3, <2>4, <2>5, KnowsStill
  <2>6. CASE of = r
    <3>1. RequestType(u)'
      BY <1>1, <2>1, <2>3 DEF RequestType
    <3>2. Writing(u)' => Writing(u) /\ r \in DOMAIN record
      BY <2>1, <2>2, <2>4, <2>6 DEF Writing
    <3>3. Writing(u)' =>
             /\ record[r].year = y /\ record'[r].year = y
             /\ record[r].edition \in Nat /\ record'[r].edition \in Nat /\ record[r].edition <= record'[r].edition
             /\ record[r].edition = record'[r].edition => DOMAIN EntriesOf(r)' \subseteq DOMAIN EntriesOf(r)
      BY <3>2 DEF Commits
    <3>4. Writing(u)' => u \in late'
      BY <1>1, <1>2, <1>4, <2>2, <2>6, <3>2, <3>3 DEF KnowsDocument
    <3>5. KnowsDocument(u)'
      BY <1>1, <2>1, <2>2, <2>6, <3>2, <3>3, <3>4 DEF KnowsDocument
    <3>6. ASSUME Writing(u)', clerk[u].doing = "generating", clerk[u].record.edition = record'[r].edition
          PROVE  DOMAIN EntriesOf(r)' \subseteq DOMAIN clerk[u].entries
      <4>1. clerk[u].record.edition = record[r].edition
        BY <1>1, <2>2, <2>6, <3>2, <3>3, <3>6 DEF KnowsDocument
      <4>2. DOMAIN EntriesOf(r) \subseteq DOMAIN clerk[u].entries
        BY <1>1, <2>2, <2>6, <3>2, <3>6, <4>1 DEF KnowsLines
      <4>. QED
        BY <3>3, <3>6, <4>1, <4>2
    <3>7. KnowsLines(u)'
      BY <2>1, <2>2, <2>6, <3>4, <3>6 DEF KnowsLines
    <3>. QED
      BY <3>1, <3>5, <3>7
  <2>. QED
    BY <2>5, <2>6
<1>. QED
  BY <1>3, <1>4

\* A new draft.
LEMMA CreatingKeepsRecords ==
    ASSUME RecordsAssumption, RecordsInv, NEW t \in Clerks, CommitCreate(t)
    PROVE  RecordsInv' /\ Frozen
<1>1. /\ RecordsType /\ LinesBelong /\ TotalsMatchEntries
      /\ RequestType(t) /\ made \in Nat /\ DOMAIN record \subseteq 1..made
  BY DEF RecordsInv, RecordsType
<1>. PICK r \in Nat \ {0} : r = made + 1
  BY <1>1
<1>. PICK asked : asked = clerk[t]
  OBVIOUS
<1>. DEFINE lines == [c \in DOMAIN asked.copied |-> [mark |-> asked.copied[c], set |-> Preset]]
            fresh == {<<r, c[1], c[2]>> : c \in DOMAIN lines}
            new   == [status |-> "draft", year |-> asked.year, edition |-> 1, totals |-> Totals(lines)]
<1>2. /\ asked.doing = "generating" /\ Settle(t, asked.year) /\ Remember(t, r) /\ made' = r
      /\ asked.year \in years \cup {All} /\ HasCourses(lines)
      /\ record' = [q \in DOMAIN record \cup {r} |-> IF q = r THEN new ELSE record[q]]
      /\ line' = [k \in DOMAIN line \cup fresh |-> IF k[1] = r THEN lines[<<k[2], k[3]>>] ELSE line[k]]
      /\ UNCHANGED <<kind, subjects, years, marks, cut>>
  BY DEF CommitCreate
<1>3. lines \in Lines /\ DOMAIN lines \subseteq CoursesEver /\ \A c \in DOMAIN lines : lines[c] \in Line
  <2>1. PICK some \in SUBSET CoursesEver : asked.copied \in [some -> MarksEver]
    BY <1>1, <1>2 DEF RequestType
  <2>2. lines \in [some -> Line]
    BY <2>1 DEF Line, RecordsAssumption
  <2>. HIDE DEF lines
  <2>. QED
    BY <2>2 DEF Lines
<1>4. \A k \in DOMAIN line : k[1] # r
  BY <1>1 DEF RecordsType
<1>5. \A c \in DOMAIN lines : c[2] \in Subjects /\ c[1] \in years
  <2>1. CASE kind = "compliance"
    <3>1. \A c \in DOMAIN lines : c[1] = asked.year
      BY <1>1, <1>2, <2>1 DEF RequestType
    <3>2. asked.year \in years
      BY <1>1, <1>2, <2>1 DEF RequestType, RecordsAssumption
    <3>. HIDE DEF lines
    <3>. QED
      BY <1>3, <3>1, <3>2 DEF CoursesEver
  <2>2. CASE kind # "compliance"
    <3>. HIDE DEF lines
    <3>. QED
      BY <1>1, <1>2, <2>2 DEF HasCourses, Courses, RecordsType
  <2>. QED
    BY <2>1, <2>2
<1>. HIDE DEF lines
<1>6. \A k \in fresh : k[1] = r /\ <<k[2], k[3]>> \in DOMAIN lines /\ k \in {r} \X Years \X Subjects /\ k[2] \in years
  <2>1. \A c \in DOMAIN lines : c \in CoursesEver /\ c = <<c[1], c[2]>>
    BY <1>3 DEF CoursesEver
  <2>. QED
    BY <1>5, <2>1 DEF CoursesEver
<1>7. /\ DOMAIN line' = DOMAIN line \cup fresh
      /\ \A k \in DOMAIN line : line'[k] = line[k]
      /\ \A k \in fresh : line'[k] = lines[<<k[2], k[3]>>]
  <2>. HIDE DEF fresh
  <2>. QED
    BY <1>2, <1>4, <1>6
<1>8. \A c \in CoursesEver : <<r, c[1], c[2]>> \in fresh <=> c \in DOMAIN lines
  <2>1. \A c \in CoursesEver : c = <<c[1], c[2]>>
    BY DEF CoursesEver
  <2>. QED
    BY <1>3, <2>1
<1>. HIDE DEF fresh
<1>9. RecordsType'
  <2>1. new \in Document
    BY <1>1, <1>2, <1>3 DEF Document, RequestType
  <2>. HIDE DEF new
  <2>2. DOMAIN record' \subseteq 1..made' /\ \A q \in DOMAIN record' : record'[q] \in Document
    BY <1>1, <1>2, <2>1 DEF RecordsType
  <2>3. DOMAIN line' \subseteq (1..made') \X Years \X Subjects
    <3>1. \A k \in DOMAIN line : k \in (1..r) \X Years \X Subjects
      BY <1>1 DEF RecordsType
    <3>2. \A k \in fresh : k \in (1..r) \X Years \X Subjects
      <4>1. r \in 1..r
        OBVIOUS
      <4>2. {r} \X Years \X Subjects \subseteq (1..r) \X Years \X Subjects
        BY <4>1
      <4>. QED
        BY <1>6, <4>2
    <3>. QED
      BY <1>2, <1>7, <3>1, <3>2
  <2>4. \A k \in DOMAIN line' : line'[k] \in Line
    BY <1>1, <1>3, <1>6, <1>7 DEF RecordsType
  <2>5. DOMAIN clerk' = Clerks
    BY <1>1, <1>2 DEF Settle, RecordsType
  <2>. QED
    BY <1>1, <1>2, <2>2, <2>3, <2>4, <2>5 DEF RecordsType
<1>10. LinesBelong'
  <2>1. \A k \in fresh : asked.year \in {k[2], All}
    <3>1. asked.year = All \/ \A c \in DOMAIN lines : c[1] = asked.year
      BY <1>1, <1>2 DEF RequestType, lines
    <3>. QED
      BY <1>6, <3>1
  <2>2. record'[r].year = asked.year /\ DOMAIN record' = DOMAIN record \cup {r} /\ \A q \in DOMAIN record \ {r} : record'[q] = record[q]
    BY <1>2
  <2>. HIDE DEF new
  <2>. QED
    BY <1>1, <1>2, <1>4, <1>6, <1>7, <2>1, <2>2 DEF LinesBelong
<1>11. \A q : q # r => EntriesOf(q)' = EntriesOf(q)
  <2>1. \A q : q # r => \A c \in CoursesEver : <<q, c[1], c[2]>> \in DOMAIN line' <=> <<q, c[1], c[2]>> \in DOMAIN line
    BY <1>6, <1>7
  <2>2. \A q : q # r => \A c \in CoursesEver : <<q, c[1], c[2]>> \in DOMAIN line => line'[<<q, c[1], c[2]>>] = line[<<q, c[1], c[2]>>]
    BY <1>7
  <2>. QED
    BY <2>1, <2>2 DEF EntriesOf, CoursesEver
<1>12. EntriesOf(r)' = lines
  <2>1. \A c \in CoursesEver : <<r, c[1], c[2]>> \in DOMAIN line' <=> c \in DOMAIN lines
    BY <1>4, <1>7, <1>8
  <2>2. \A c \in DOMAIN lines : line'[<<r, c[1], c[2]>>] = lines[c]
    <3>1. \A c \in DOMAIN lines : c \in CoursesEver /\ c = <<c[1], c[2]>>
      BY <1>3 DEF CoursesEver
    <3>. QED
      BY <1>7, <1>8, <3>1
  <2>3. lines = [c \in DOMAIN lines |-> lines[c]]
    BY DEF lines
  <2>. QED
    BY <1>3, <2>1, <2>2, <2>3 DEF EntriesOf, CoursesEver
<1>13. TotalsMatchEntries'
  <2>1. record'[r].totals = Totals(lines)
    BY <1>2
  <2>2. \A q \in DOMAIN record' : q # r => q \in DOMAIN record /\ record'[q] = record[q]
    BY <1>2
  <2>3. raced \subseteq raced'
    BY <1>2 DEF Remember
  <2>. QED
    BY <1>1, <1>2, <1>11, <1>12, <2>1, <2>2, <2>3 DEF TotalsMatchEntries
<1>14. Commits(t, r, asked.year)
  <2>1. /\ made' \in Nat /\ made <= made' /\ raced \subseteq raced' /\ r \notin DOMAIN record /\ r \notin 1..made
        /\ DOMAIN record' = DOMAIN record \cup {r} /\ \A q \in DOMAIN record \ {r} : record'[q] = record[q]
    BY <1>1, <1>2 DEF Remember
  <2>. QED
    BY <1>2, <1>11, <2>1 DEF Commits
<1>15. Frozen
  <2>. SUFFICES ASSUME NEW q \in DOMAIN record PROVE LinesStay(q)
    BY DEF Frozen
  <2>1. q # r
    BY <1>1
  <2>2. {k \in DOMAIN line' : k[1] = q} = {k \in DOMAIN line : k[1] = q}
    BY <1>6, <1>7, <2>1
  <2>. QED
    BY <1>1, <1>2, <1>7, <2>2 DEF LinesStay, LinesOf, LinesBelong
<1>16. \A u \in Clerks : RequestType(u)' /\ KnowsDocument(u)' /\ KnowsLines(u)'
  BY <1>14, CommitsAreNews
<1>. QED
  BY <1>9, <1>10, <1>13, <1>15, <1>16 DEF RecordsInv

\* A draft is generated again.
LEMMA GeneratingKeepsRecords ==
    ASSUME RecordsAssumption, RecordsInv, NEW t \in Clerks, CommitGenerate(t)
    PROVE  RecordsInv' /\ Frozen
<1>1. /\ RecordsType /\ LinesBelong /\ TotalsMatchEntries
      /\ RequestType(t) /\ KnowsDocument(t) /\ KnowsLines(t) /\ made \in Nat /\ DOMAIN record \subseteq 1..made
  BY DEF RecordsInv, RecordsType
<1>. PICK asked : asked = clerk[t]
  OBVIOUS
<1>. PICK r \in Nat \ {0} : r = asked.of /\ r \in DOMAIN record
  BY <1>1 DEF CommitGenerate
<1>. DEFINE lines == [c \in DOMAIN asked.copied |-> [mark |-> asked.copied[c], set |-> Kept(asked, r, c)]]
            fresh == {<<r, c[1], c[2]>> : c \in DOMAIN lines}
<1>2. /\ asked.doing = "generating" /\ Settle(t, asked.year) /\ Remember(t, r) /\ HasCourses(lines)
      /\ record' = [record EXCEPT ![r].edition = @ + 1, ![r].totals = Column(@, asked.record.totals, Totals(lines))]
      /\ line' = [k \in (DOMAIN line \ LinesOf(r)) \cup fresh |->
                      IF k[1] = r THEN lines[<<k[2], k[3]>>] ELSE line[k]]
      /\ UNCHANGED <<kind, subjects, years, marks, made, cut>>
  BY DEF CommitGenerate
<1>3. Writing(t) /\ asked.year = record[r].year /\ record[r] \in Document /\ asked.record.status = "draft"
  BY <1>1, <1>2 DEF Writing, KnowsDocument, RecordsType
<1>4. \A c \in CoursesEver : Kept(asked, r, c) \in Nat
  <2>1. \A c \in CoursesEver : <<r, c[1], c[2]>> \in DOMAIN line /\ record[r].edition = asked.record.edition =>
           asked.entries[c].set \in Nat
    <3>1. ASSUME record[r].edition = asked.record.edition PROVE DOMAIN EntriesOf(r) \subseteq DOMAIN asked.entries
      BY <1>1, <1>2, <1>3, <3>1 DEF KnowsLines
    <3>2. \A c \in DOMAIN asked.entries : asked.entries[c].set \in Nat
      BY <1>1, <1>2 DEF RequestType, Lines, Line
    <3>. QED
      BY <1>1, <3>1, <3>2, EntriesAreLines
  <2>2. \A k \in DOMAIN line : line[k].set \in Nat
    BY <1>1 DEF RecordsType, Line
  <2>. QED
    BY <2>1, <2>2 DEF Kept, RecordsAssumption
<1>5. lines \in Lines /\ DOMAIN lines \subseteq CoursesEver /\ \A c \in DOMAIN lines : lines[c] \in Line
  <2>1. PICK some \in SUBSET CoursesEver : asked.copied \in [some -> MarksEver]
    BY <1>1, <1>2 DEF RequestType
  <2>2. lines \in [some -> Line]
    BY <1>4, <2>1 DEF Line
  <2>. HIDE DEF lines
  <2>. QED
    BY <2>2 DEF Lines
<1>. HIDE DEF lines
<1>6. \A c \in DOMAIN lines : c[1] \in years
  BY <1>1, <1>2 DEF HasCourses, Courses, RequestType
<1>7. \A k \in fresh : k[1] = r /\ <<k[2], k[3]>> \in DOMAIN lines /\ k \in {r} \X Years \X Subjects /\ k[2] \in years
  <2>1. \A c \in DOMAIN lines : c \in CoursesEver /\ c = <<c[1], c[2]>>
    BY <1>5 DEF CoursesEver
  <2>. QED
    BY <1>6, <2>1 DEF CoursesEver
<1>8. /\ DOMAIN line' = (DOMAIN line \ LinesOf(r)) \cup fresh
      /\ \A k \in DOMAIN line : k[1] # r => k \in DOMAIN line' /\ line'[k] = line[k]
      /\ \A k \in DOMAIN line' : k[1] = r => k \in fresh
      /\ \A k \in fresh : line'[k] = lines[<<k[2], k[3]>>]
  <2>. HIDE DEF fresh
  <2>. QED
    BY <1>2, <1>7 DEF LinesOf
<1>9. \A c \in CoursesEver : <<r, c[1], c[2]>> \in fresh <=> c \in DOMAIN lines
  <2>1. \A c \in CoursesEver : c = <<c[1], c[2]>>
    BY DEF CoursesEver
  <2>. QED
    BY <1>5, <2>1
<1>. HIDE DEF fresh
<1>10. /\ DOMAIN record' = DOMAIN record /\ \A q \in DOMAIN record \ {r} : record'[q] = record[q]
       /\ record'[r] \in Document /\ record'[r].year = record[r].year
       /\ record[r].edition \in Nat /\ record'[r].edition = record[r].edition + 1
       /\ record'[r].totals = Column(record[r].totals, asked.record.totals, Totals(lines))
  <2>. PICK all : all = {Totals(l) : l \in Lines}
    OBVIOUS
  <2>. PICK totals : totals = Column(record[r].totals, asked.record.totals, Totals(lines))
    OBVIOUS
  <2>4. record[r] \in [status : {"draft", "final", "archived"}, year : Years \cup {All}, edition : Nat, totals : all]
    BY <1>3 DEF Document
  <2>1. record'[r] = [record[r] EXCEPT !.edition = @ + 1, !.totals = totals]
    BY <1>2
  <2>2. totals \in all
    <3>1. Totals(lines) \in all
      BY <1>5
    <3>2. record[r].totals \in all
      BY <2>4
    <3>. QED
      BY <3>1, <3>2 DEF Column
  <2>3. DOMAIN record' = DOMAIN record /\ \A q \in DOMAIN record \ {r} : record'[q] = record[q]
    BY <1>2
  <2>5. /\ record'[r] \in [status : {"draft", "final", "archived"}, year : Years \cup {All}, edition : Nat, totals : all]
        /\ record'[r].year = record[r].year /\ record[r].edition \in Nat
        /\ record'[r].edition = record[r].edition + 1 /\ record'[r].totals = totals
    <3>. PICK old : old = record[r]
      OBVIOUS
    <3>. PICK new : new = record'[r]
      OBVIOUS
    <3>. PICK next : next = [old EXCEPT !.edition = old.edition + 1]
      OBVIOUS
    <3>1. new = [next EXCEPT !.totals = totals]
      BY <2>1
    <3>2. next \in [status : {"draft", "final", "archived"}, year : Years \cup {All}, edition : Nat, totals : all]
          /\ next.year = old.year /\ old.edition \in Nat /\ next.edition = old.edition + 1
      BY <2>4
    <3>3. new \in [status : {"draft", "final", "archived"}, year : Years \cup {All}, edition : Nat, totals : all]
          /\ new.year = next.year /\ new.edition = next.edition /\ new.totals = totals
      BY <2>2, <3>1, <3>2
    <3>. QED
      BY <3>2, <3>3
  <2>. QED
    BY <2>3, <2>5 DEF Document
<1>11. RecordsType'
  <2>1. DOMAIN record' \subseteq 1..made' /\ \A q \in DOMAIN record' : record'[q] \in Document
    BY <1>1, <1>2, <1>10 DEF RecordsType
  <2>2. DOMAIN line' \subseteq (1..made') \X Years \X Subjects
    <3>1. {r} \X Years \X Subjects \subseteq (1..made) \X Years \X Subjects
      BY <1>1
    <3>. QED
      BY <1>1, <1>2, <1>7, <1>8, <3>1 DEF RecordsType
  <2>3. \A k \in DOMAIN line' : line'[k] \in Line
    <3>1. \A k \in DOMAIN line : k[1] # r => line'[k] \in Line
      BY <1>1, <1>8 DEF RecordsType
    <3>2. \A k \in fresh : line'[k] \in Line
      BY <1>5, <1>7, <1>8
    <3>. QED
      BY <1>8, <3>1, <3>2
  <2>4. DOMAIN clerk' = Clerks
    BY <1>1, <1>2 DEF Settle, RecordsType
  <2>. QED
    BY <1>1, <1>2, <2>1, <2>2, <2>3, <2>4 DEF RecordsType
<1>12. LinesBelong'
  <2>1. \A k \in fresh : asked.year \in {k[2], All}
    <3>1. asked.year = All \/ \A c \in DOMAIN lines : c[1] = asked.year
      BY <1>1, <1>2 DEF RequestType, lines
    <3>. QED
      BY <1>7, <3>1
  <2>2. \A k \in fresh : k[2] \in years /\ k[1] \in DOMAIN record' /\ record'[k[1]].year \in {k[2], All}
    BY <1>3, <1>7, <1>10, <2>1
  <2>3. \A k \in DOMAIN line \ LinesOf(r) : k[2] \in years /\ k[1] \in DOMAIN record' /\ record'[k[1]].year \in {k[2], All}
    BY <1>1, <1>10 DEF LinesBelong, LinesOf
  <2>. QED
    BY <1>2, <1>8, <2>2, <2>3 DEF LinesBelong
<1>13. \A q : q # r => EntriesOf(q)' = EntriesOf(q)
  <2>1. \A q : q # r => \A c \in CoursesEver : <<q, c[1], c[2]>> \in DOMAIN line' <=> <<q, c[1], c[2]>> \in DOMAIN line
    BY <1>7, <1>8
  <2>2. \A q : q # r => \A c \in CoursesEver : <<q, c[1], c[2]>> \in DOMAIN line => line'[<<q, c[1], c[2]>>] = line[<<q, c[1], c[2]>>]
    BY <1>8
  <2>. QED
    BY <2>1, <2>2 DEF EntriesOf, CoursesEver
<1>14. EntriesOf(r)' = lines
  <2>1. \A c \in CoursesEver : <<r, c[1], c[2]>> \in DOMAIN line' <=> c \in DOMAIN lines
    BY <1>8, <1>9
  <2>2. \A c \in DOMAIN lines : line'[<<r, c[1], c[2]>>] = lines[c]
    <3>1. \A c \in DOMAIN lines : c \in CoursesEver /\ c = <<c[1], c[2]>>
      BY <1>5 DEF CoursesEver
    <3>. QED
      BY <1>8, <1>9, <3>1
  <2>3. lines = [c \in DOMAIN lines |-> lines[c]]
    BY DEF lines
  <2>. QED
    BY <1>5, <2>1, <2>2, <2>3 DEF EntriesOf, CoursesEver
<1>15. /\ raced \subseteq raced'
       /\ r \notin raced' => t \notin late /\ record[r] = asked.record
  BY <1>1, <1>2, <1>3 DEF Remember, KnowsDocument
<1>16. TotalsMatchEntries'
  <2>1. r \notin raced' => record'[r].totals = Totals(lines)
    BY <1>10, <1>15 DEF Column
  <2>. QED
    BY <1>1, <1>2, <1>10, <1>13, <1>14, <1>15, <2>1 DEF TotalsMatchEntries
<1>17. Commits(t, r, asked.year)
  BY <1>1, <1>2, <1>3, <1>10, <1>13, <1>15 DEF Commits
<1>18. Frozen
  <2>. SUFFICES ASSUME NEW q \in DOMAIN record, record[q].status # "draft", q \notin raced' PROVE LinesStay(q)
    BY DEF Frozen
  <2>1. q # r
    BY <1>3, <1>15
  <2>2. {k \in DOMAIN line' : k[1] = q} = {k \in DOMAIN line : k[1] = q}
    BY <1>7, <1>8, <2>1
  <2>. QED
    BY <1>1, <1>2, <1>8, <2>1, <2>2 DEF LinesStay, LinesOf, LinesBelong
<1>19. \A u \in Clerks : RequestType(u)' /\ KnowsDocument(u)' /\ KnowsLines(u)'
  BY <1>17, CommitsAreNews
<1>. QED
  BY <1>11, <1>12, <1>16, <1>18, <1>19 DEF RecordsInv

\* A document that is there gets other columns, and its lines other settings.
Writes(t, r) ==
    /\ Settle(t, record[r].year) /\ Remember(t, r) /\ UNCHANGED <<kind, subjects, years, marks, made, cut>>
    /\ DOMAIN record' = DOMAIN record /\ \A q \in DOMAIN record \ {r} : record'[q] = record[q]
    /\ record'[r] \in Document /\ record'[r].year = record[r].year /\ record'[r].edition = record[r].edition
    /\ DOMAIN line' = DOMAIN line
    /\ \A k \in DOMAIN line : line'[k] \in Line /\ (k[1] # r \/ (record[r].status # "draft" /\ r \notin raced') => line'[k] = line[k])
    /\ kind = "transcript" /\ r \notin raced' \cup cut => record'[r].totals = Totals(EntriesOf(r))'

LEMMA WritingKeepsRecords ==
    ASSUME RecordsAssumption, RecordsInv, NEW t \in Clerks, NEW r \in DOMAIN record, Writes(t, r)
    PROVE  RecordsInv' /\ Frozen
<1>1. /\ RecordsType /\ LinesBelong /\ TotalsMatchEntries /\ made \in Nat /\ DOMAIN record \subseteq 1..made
      /\ record[r].edition \in Nat
  BY DEF RecordsInv, RecordsType, Document
<1>2. /\ Settle(t, record[r].year) /\ UNCHANGED <<kind, subjects, years, marks, made, cut>>
      /\ DOMAIN record' = DOMAIN record /\ \A q \in DOMAIN record \ {r} : record'[q] = record[q]
      /\ record'[r] \in Document /\ record'[r].year = record[r].year /\ record'[r].edition = record[r].edition
      /\ DOMAIN line' = DOMAIN line
      /\ \A k \in DOMAIN line :
             line'[k] \in Line /\ (k[1] # r \/ (record[r].status # "draft" /\ r \notin raced') => line'[k] = line[k])
      /\ kind = "transcript" /\ r \notin raced' \cup cut => record'[r].totals = Totals(EntriesOf(r))'
      /\ raced \subseteq raced'
  BY DEF Writes, Remember
<1>3. RecordsType'
  <2>1. DOMAIN clerk' = Clerks
    BY <1>1, <1>2 DEF Settle, RecordsType
  <2>. QED
    BY <1>1, <1>2, <2>1 DEF RecordsType
<1>4. LinesBelong'
  BY <1>1, <1>2 DEF LinesBelong
<1>5. \A q : DOMAIN EntriesOf(q)' = DOMAIN EntriesOf(q) /\ (q # r => EntriesOf(q)' = EntriesOf(q))
  BY <1>2 DEF EntriesOf
<1>6. TotalsMatchEntries'
  BY <1>1, <1>2, <1>5 DEF TotalsMatchEntries
<1>7. Commits(t, r, record[r].year)
  BY <1>1, <1>2, <1>5 DEF Commits
<1>8. Frozen
  <2>. SUFFICES ASSUME NEW q \in DOMAIN record, record[q].status # "draft", q \notin raced' PROVE LinesStay(q)
    BY DEF Frozen
  <2>. QED
    BY <1>1, <1>2 DEF LinesStay, LinesOf, LinesBelong
<1>9. \A u \in Clerks : RequestType(u)' /\ KnowsDocument(u)' /\ KnowsLines(u)'
  <2>1. r \in Nat \ {0}
    BY <1>1
  <2>. QED
    BY <1>7, <2>1, CommitsAreNews
<1>. QED
  BY <1>3, <1>4, <1>6, <1>8, <1>9 DEF RecordsInv

\* A document, with other totals and another status.
Rewritten(document, status, totals) == [document EXCEPT !.status = status, !.totals = totals]

LEMMA DocumentWith ==
    ASSUME NEW old \in Document, NEW lines \in Lines, NEW status \in {"draft", "final", "archived"},
           NEW new, new = Rewritten(old, status, Totals(lines))
    PROVE  new \in Document /\ new.year = old.year /\ new.edition = old.edition /\ new.totals = Totals(lines)
<1>. PICK all : all = {Totals(l) : l \in Lines}
  OBVIOUS
<1>. PICK totals \in all : totals = Totals(lines)
  OBVIOUS
<1>1. Document = [status : {"draft", "final", "archived"}, year : Years \cup {All}, edition : Nat, totals : all]
  BY DEF Document
<1>. PICK next : next = [old EXCEPT !.status = status]
  OBVIOUS
<1>2. next \in Document /\ next.year = old.year /\ next.edition = old.edition
  BY <1>1
<1>3. new = [next EXCEPT !.totals = totals]
  BY DEF Rewritten
<1>. QED
  BY <1>1, <1>2, <1>3

\* A document is finalized.
LEMMA FinalizingKeepsRecords ==
    ASSUME RecordsAssumption, RecordsInv, NEW t \in Clerks, CommitFinalize(t)
    PROVE  RecordsInv' /\ Frozen
<1>1. RecordsType /\ LinesBelong /\ TotalsMatchEntries /\ RequestType(t) /\ KnowsDocument(t) /\ KnowsLines(t)
  BY DEF RecordsInv
<1>. PICK asked : asked = clerk[t]
  OBVIOUS
<1>. PICK r \in DOMAIN record : r = asked.of
  BY DEF CommitFinalize
<1>2. /\ asked.doing = "finalizing" /\ Settle(t, asked.year) /\ Remember(t, r)
      /\ record' = [record EXCEPT ![r].status = "final"]
      /\ UNCHANGED <<kind, subjects, years, marks, made, line, cut>>
  BY DEF CommitFinalize
<1>3. asked.year = record[r].year /\ record[r] \in Document
  BY <1>1, <1>2 DEF Writing, KnowsDocument, RecordsType
<1>4. /\ DOMAIN record' = DOMAIN record /\ \A q \in DOMAIN record \ {r} : record'[q] = record[q]
      /\ record'[r] = [record[r] EXCEPT !.status = "final"]
  BY <1>2
<1>5. /\ record'[r] \in Document /\ record'[r].year = record[r].year /\ record'[r].edition = record[r].edition
      /\ record'[r].totals = record[r].totals
  <2>. PICK all : all = {Totals(l) : l \in Lines}
    OBVIOUS
  <2>1. Document = [status : {"draft", "final", "archived"}, year : Years \cup {All}, edition : Nat, totals : all]
    BY DEF Document
  <2>. QED
    BY <1>3, <1>4, <2>1
<1>6. EntriesOf(r)' = EntriesOf(r) /\ \A k \in DOMAIN line : line'[k] = line[k] /\ line[k] \in Line
  BY <1>1, <1>2 DEF EntriesOf, RecordsType
<1>7. kind = "transcript" /\ r \notin raced' \cup cut => record'[r].totals = Totals(EntriesOf(r))'
  BY <1>1, <1>2, <1>5, <1>6 DEF TotalsMatchEntries, Remember
<1>8. Writes(t, r)
  BY <1>2, <1>3, <1>4, <1>5, <1>6, <1>7 DEF Writes
<1>. QED
  BY <1>8, WritingKeepsRecords

\* The totals that a request writes.
LEMMA TotalsWritten ==
    ASSUME NEW asked, NEW document \in Document, asked.entries \in Lines
    PROVE  /\ \E lines \in Lines : WrittenTotals(asked, document.totals) = Totals(lines)
           /\ kind = "transcript" /\ document = asked.record =>
                  WrittenTotals(asked, document.totals) = Totals(asked.entries)
<1>1. \E lines \in Lines : document.totals = Totals(lines)
  <2>. PICK all : all = {Totals(l) : l \in Lines}
    OBVIOUS
  <2>1. document \in [status : {"draft", "final", "archived"}, year : Years \cup {All}, edition : Nat, totals : all]
    BY DEF Document
  <2>. QED
    BY <2>1
<1>. QED
  BY <1>1 DEF WrittenTotals, NewTotals, Column

\* A document gets another status.
LEMMA StatusKeepsRecords ==
    ASSUME RecordsAssumption, RecordsInv, NEW t \in Clerks, CommitStatus(t)
    PROVE  RecordsInv' /\ Frozen
<1>1. RecordsType /\ LinesBelong /\ TotalsMatchEntries /\ RequestType(t) /\ KnowsDocument(t) /\ KnowsLines(t)
  BY DEF RecordsInv
<1>. PICK asked : asked = clerk[t]
  OBVIOUS
<1>. PICK r \in DOMAIN record : r = asked.of
  BY DEF CommitStatus
<1>2. /\ asked.doing = "changing" /\ Settle(t, asked.year) /\ Remember(t, r)
      /\ record' = [record EXCEPT ![r].status = Column(@, asked.record.status, asked.status),
                                  ![r].totals = WrittenTotals(asked, @)]
      /\ UNCHANGED <<kind, subjects, years, marks, made, line, cut>>
  BY DEF CommitStatus
<1>3. /\ Writing(t) /\ asked.year = record[r].year /\ record[r] \in Document /\ asked.entries \in Lines
      /\ asked.status \in {"final", "archived"}
  BY <1>1, <1>2 DEF Writing, KnowsDocument, RecordsType, RequestType
<1>. PICK status : status = Column(record[r].status, asked.record.status, asked.status)
  OBVIOUS
<1>. PICK lines \in Lines : WrittenTotals(asked, record[r].totals) = Totals(lines)
  BY <1>3, TotalsWritten
<1>4. /\ DOMAIN record' = DOMAIN record /\ \A q \in DOMAIN record \ {r} : record'[q] = record[q]
      /\ record'[r] = Rewritten(record[r], status, Totals(lines))
  BY <1>2 DEF Rewritten
<1>5. status \in {"draft", "final", "archived"}
  BY <1>3 DEF Column, Document
<1>6. /\ record'[r] \in Document /\ record'[r].year = record[r].year /\ record'[r].edition = record[r].edition
      /\ record'[r].totals = Totals(lines)
  <2>. PICK old : old = record[r]
    OBVIOUS
  <2>. PICK new : new = record'[r]
    OBVIOUS
  <2>1. old \in Document /\ new = Rewritten(old, status, Totals(lines))
    BY <1>3, <1>4
  <2>2. new \in Document /\ new.year = old.year /\ new.edition = old.edition /\ new.totals = Totals(lines)
    BY <1>5, <2>1, DocumentWith
  <2>. QED
    BY <2>2
<1>7. EntriesOf(r)' = EntriesOf(r) /\ \A k \in DOMAIN line : line'[k] = line[k] /\ line[k] \in Line
  BY <1>1, <1>2 DEF EntriesOf, RecordsType
<1>8. kind = "transcript" /\ r \notin raced' \cup cut => record'[r].totals = Totals(EntriesOf(r))'
  <2>1. r \notin raced' => t \notin late /\ r \notin raced
    BY <1>2 DEF Remember
  <2>2. r \notin raced' => record[r] = asked.record
    BY <1>1, <1>3, <2>1 DEF KnowsDocument
  <2>3. r \notin raced' \cup cut => asked.entries = EntriesOf(r)
    BY <1>1, <1>2, <1>3, <2>1 DEF KnowsLines
  <2>. QED
    BY <1>3, <1>6, <1>7, <2>2, <2>3, TotalsWritten
<1>9. Writes(t, r)
  BY <1>2, <1>3, <1>4, <1>6, <1>7, <1>8 DEF Writes
<1>. QED
  BY <1>9, WritingKeepsRecords

\* A line gets another setting.
LEMMA EditingKeepsRecords ==
    ASSUME RecordsAssumption, RecordsInv, NEW t \in Clerks, CommitEdit(t)
    PROVE  RecordsInv' /\ Frozen
<1>1. RecordsType /\ LinesBelong /\ TotalsMatchEntries /\ RequestType(t) /\ KnowsDocument(t) /\ KnowsLines(t)
  BY DEF RecordsInv
<1>. PICK asked : asked = clerk[t]
  OBVIOUS
<1>. PICK c : c = asked.course
  OBVIOUS
<1>. PICK value : value = asked.entries[c].set
  OBVIOUS
<1>. PICK r \in DOMAIN record : r = asked.of
  <2>1. \E k \in DOMAIN line : k[1] = asked.of
    BY DEF CommitEdit
  <2>. QED
    BY <1>1, <2>1 DEF LinesBelong
<1>. PICK k \in DOMAIN line : k = <<r, c[1], c[2]>>
  BY DEF CommitEdit
<1>2. /\ asked.doing = "editing" /\ Settle(t, asked.year) /\ Remember(t, r) /\ record[r].edition = asked.record.edition
      /\ line' = [line EXCEPT ![k].set = value]
      /\ record' = [record EXCEPT ![r].totals = WrittenTotals(asked, @)]
      /\ UNCHANGED <<kind, subjects, years, marks, made, cut>>
  BY DEF CommitEdit
<1>3. /\ Writing(t) /\ asked.year = record[r].year /\ record[r] \in Document /\ asked.entries \in Lines
      /\ c \in DOMAIN asked.entries /\ c \in CoursesEver /\ asked.record.status = "draft"
  BY <1>1, <1>2 DEF Writing, KnowsDocument, RecordsType, RequestType, Lines
<1>. PICK lines \in Lines : WrittenTotals(asked, record[r].totals) = Totals(lines)
  BY <1>3, TotalsWritten
<1>4. /\ DOMAIN record' = DOMAIN record /\ \A q \in DOMAIN record \ {r} : record'[q] = record[q]
      /\ record'[r] = [record[r] EXCEPT !.totals = Totals(lines)]
  BY <1>2
<1>5. /\ record'[r] \in Document /\ record'[r].year = record[r].year /\ record'[r].edition = record[r].edition
      /\ record'[r].totals = Totals(lines)
  <2>. PICK all : all = {Totals(l) : l \in Lines}
    OBVIOUS
  <2>1. Document = [status : {"draft", "final", "archived"}, year : Years \cup {All}, edition : Nat, totals : all]
    BY DEF Document
  <2>. PICK totals \in all : totals = Totals(lines)
    OBVIOUS
  <2>. QED
    BY <1>3, <1>4, <2>1
<1>6. r \notin raced' => t \notin late /\ r \notin raced /\ record[r] = asked.record
  BY <1>1, <1>2, <1>3 DEF Remember, KnowsDocument
<1>7. value \in Nat
  BY <1>3 DEF Lines, Line
<1>8. DOMAIN line' = DOMAIN line /\ \A j \in DOMAIN line : line'[j] \in Line /\ (j # k => line'[j] = line[j])
  <2>. PICK one : one = [line[k] EXCEPT !.set = value]
    OBVIOUS
  <2>1. line[k] \in Line
    BY <1>1 DEF RecordsType
  <2>2. one \in Line
    BY <1>7, <2>1 DEF Line
  <2>3. line' = [line EXCEPT ![k] = one]
    BY <1>2
  <2>. QED
    BY <1>1, <2>2, <2>3 DEF RecordsType
<1>9. r \notin raced' \cup cut => EntriesOf(r)' = asked.entries
  <2>. SUFFICES ASSUME r \notin raced' \cup cut PROVE EntriesOf(r)' = asked.entries
    OBVIOUS
  <2>. PICK old : old = EntriesOf(r)
    OBVIOUS
  <2>. PICK new : new = EntriesOf(r)'
    OBVIOUS
  <2>1. asked.entries = [old EXCEPT ![c].set = value]
    BY <1>1, <1>2, <1>3, <1>6 DEF KnowsLines
  <2>2. /\ DOMAIN old \subseteq CoursesEver
        /\ \A d \in CoursesEver : d \in DOMAIN old <=> <<r, d[1], d[2]>> \in DOMAIN line
        /\ \A d \in DOMAIN old : old[d] = line[<<r, d[1], d[2]>>]
    BY <1>1, EntriesAreLines DEF Lines
  <2>3. new = [d \in DOMAIN old |-> line'[<<r, d[1], d[2]>>]]
    BY <1>8, <2>2 DEF EntriesOf, CoursesEver
  <2>4. \A d \in DOMAIN old : d = <<d[1], d[2]>>
    BY <2>2 DEF CoursesEver
  <2>5. ASSUME NEW d \in DOMAIN old, d # c PROVE line'[<<r, d[1], d[2]>>] = old[d]
    <3>1. <<r, d[1], d[2]>> # k /\ <<r, d[1], d[2]>> \in DOMAIN line
      <4>1. c = <<c[1], c[2]>>
        BY <1>3 DEF CoursesEver
      <4>. QED
        BY <2>2, <2>4, <2>5, <4>1
    <3>. QED
      BY <1>8, <2>2, <3>1
  <2>6. c \in DOMAIN old /\ line'[<<r, c[1], c[2]>>] = [old[c] EXCEPT !.set = value]
    BY <1>2, <1>3, <2>2
  <2>. PICK one : one = [old[c] EXCEPT !.set = value]
    OBVIOUS
  <2>7. asked.entries = [old EXCEPT ![c] = one]
    BY <2>1
  <2>8. asked.entries = [d \in DOMAIN old |-> IF d = c THEN one ELSE old[d]]
    <3>1. [old EXCEPT ![c] = one] = [d \in DOMAIN old |-> IF d = c THEN one ELSE old[d]]
      BY Zenon
    <3>. QED
      BY <2>7, <3>1, Zenon
  <2>9. \A d \in DOMAIN old : line'[<<r, d[1], d[2]>>] = IF d = c THEN one ELSE old[d]
    BY <2>5, <2>6
  <2>10. new = [d \in DOMAIN old |-> IF d = c THEN one ELSE old[d]]
    BY <2>3, <2>9
  <2>11. new = asked.entries
    BY <2>8, <2>10, Zenon
  <2>. QED
    BY <2>11
<1>10. kind = "transcript" /\ r \notin raced' \cup cut => record'[r].totals = Totals(EntriesOf(r))'
  BY <1>3, <1>5, <1>6, <1>9, TotalsWritten
<1>11. Writes(t, r)
  <2>1. \A j \in DOMAIN line : line'[j] \in Line /\ (j[1] # r \/ (record[r].status # "draft" /\ r \notin raced') => line'[j] = line[j])
    <3>1. record[r].status # "draft" => r \in raced'
      BY <1>3, <1>6
    <3>. QED
      BY <1>8, <3>1
  <2>. QED
    BY <1>2, <1>3, <1>4, <1>5, <1>8, <1>10, <2>1 DEF Writes
<1>. QED
  BY <1>11, WritingKeepsRecords

\* Documents lose lines, or go, or nothing happens to them, and a request may be done.
Loses(lost) ==
    /\ kind' = kind /\ made' = made /\ years' \subseteq years /\ subjects' \subseteq subjects
    /\ marks' \in [CoursesEver -> MarksEver] /\ raced \subseteq raced' /\ cut \subseteq cut'
    /\ DOMAIN record' \subseteq DOMAIN record /\ \A r \in DOMAIN record' : record'[r] = record[r]
    /\ DOMAIN line' = DOMAIN line \ lost /\ \A k \in DOMAIN line \ lost : line'[k] = line[k]
    /\ \A k \in DOMAIN line \ lost : k[2] \in years' /\ k[1] \in DOMAIN record'
    /\ \A k \in lost : k[1] \in raced' \cup cut' /\ (k[2] \in years' => k[1] \in raced')
    /\ DOMAIN clerk' = Clerks
    /\ \A u \in Clerks : clerk'[u] = AtRest \/ (clerk'[u] = clerk[u] /\ (u \in late => u \in late'))

LEMMA LosingKeepsRecords ==
    ASSUME RecordsInv, NEW lost, Loses(lost)
    PROVE  RecordsInv' /\ Frozen
<1>1. RecordsType /\ LinesBelong /\ TotalsMatchEntries /\ \A u \in Clerks : RequestType(u) /\ KnowsDocument(u) /\ KnowsLines(u)
  BY DEF RecordsInv
<1>2. RecordsType'
  BY <1>1 DEF RecordsType, Loses
<1>3. LinesBelong'
  BY <1>1 DEF LinesBelong, Loses
<1>4. \A q : DOMAIN EntriesOf(q)' \subseteq DOMAIN EntriesOf(q)
  BY DEF EntriesOf, Loses
<1>5. \A q : q \notin raced' \cup cut' => EntriesOf(q)' = EntriesOf(q)
  <2>. SUFFICES ASSUME NEW q, q \notin raced' \cup cut' PROVE EntriesOf(q)' = EntriesOf(q)
    OBVIOUS
  <2>1. \A c \in CoursesEver : <<q, c[1], c[2]>> \in DOMAIN line' <=> <<q, c[1], c[2]>> \in DOMAIN line
    BY DEF Loses
  <2>2. \A c \in CoursesEver : <<q, c[1], c[2]>> \in DOMAIN line => line'[<<q, c[1], c[2]>>] = line[<<q, c[1], c[2]>>]
    BY <2>1 DEF Loses
  <2>. QED
    BY <2>1, <2>2 DEF EntriesOf, CoursesEver
<1>6. TotalsMatchEntries'
  BY <1>1, <1>5 DEF TotalsMatchEntries, Loses
<1>7. ASSUME NEW u \in Clerks PROVE RequestType(u)' /\ KnowsDocument(u)' /\ KnowsLines(u)'
  <2>1. CASE clerk'[u] = AtRest
    <3>1. clerk'[u].doing = "nothing"
      BY <2>1 DEF AtRest
    <3>. QED
      BY <3>1 DEF RequestType, KnowsDocument, KnowsLines, Writing
  <2>2. CASE clerk'[u] = clerk[u] /\ (u \in late => u \in late')
    <3>. PICK of : of = clerk[u].of
      OBVIOUS
    <3>1. Writing(u)' => of \in DOMAIN record'
      BY <2>2 DEF Writing
    <3>2. /\ made' = made /\ kind' = kind /\ made \in Nat /\ (of \in raced \cup cut => of \in raced' \cup cut')
          /\ of \in DOMAIN record' => of \in DOMAIN record /\ record'[of] = record[of]
      BY <1>1 DEF Loses, RecordsType
    <3>. QED
      BY <1>1, <1>4, <1>5, <2>2, <3>1, <3>2, KnowsStill
  <2>. QED
    BY <2>1, <2>2 DEF Loses
<1>8. Frozen
  <2>. SUFFICES ASSUME NEW q \in DOMAIN record, q \notin raced' PROVE LinesStay(q)
    BY DEF Frozen
  <2>. QED
    BY <1>1 DEF LinesStay, LinesOf, Loses
<1>. QED
  BY <1>2, <1>3, <1>6, <1>7, <1>8 DEF RecordsInv

\* A request is withdrawn.
LEMMA WithdrawingKeepsRecords ==
    ASSUME RecordsInv, NEW t \in Clerks, Withdraw(t)
    PROVE  RecordsInv' /\ Frozen
<1>1. Loses({})
  BY DEF Loses, Withdraw, Reply, RecordsInv, RecordsType, LinesBelong
<1>. QED
  BY <1>1, LosingKeepsRecords

\* A mark is given.
LEMMA GradingKeepsRecords ==
    ASSUME RecordsAssumption, RecordsInv, NEW c \in CoursesEver, NEW mark \in Marks, Grade(c, mark)
    PROVE  RecordsInv' /\ Frozen
<1>1. Loses({})
  BY DEF Loses, Grade, RecordsInv, RecordsType, LinesBelong, MarksEver
<1>. QED
  BY <1>1, LosingKeepsRecords

\* A subject is deleted.
LEMMA DeletingKeepsRecords ==
    ASSUME RecordsInv, NEW t \in Clerks, CommitDeleteSubject(t)
    PROVE  RecordsInv' /\ Frozen
<1>. PICK s : s = clerk[t].subject
  OBVIOUS
<1>. PICK gone : gone = IF kind = "compliance" THEN {} ELSE {k \in DOMAIN line : k[3] = s}
  OBVIOUS
<1>1. /\ subjects' = subjects \ {s} /\ Reply(t)
      /\ line' = [k \in DOMAIN line \ gone |-> line[k]]
      /\ raced' = raced \cup {k[1] : k \in gone}
      /\ marks' = [c \in DOMAIN marks |-> IF c[2] = s THEN NoMark ELSE marks[c]]
      /\ UNCHANGED <<kind, years, record, made, cut>>
  BY DEF CommitDeleteSubject
<1>2. RecordsType /\ LinesBelong
  BY DEF RecordsInv
<1>3. marks' \in [CoursesEver -> MarksEver]
  BY <1>1, <1>2 DEF RecordsType, MarksEver
<1>4. \A k \in gone : k[1] \in raced'
  BY <1>1
<1>5. Loses(gone)
  BY <1>1, <1>2, <1>3, <1>4 DEF Loses, Reply, RecordsType, LinesBelong
<1>. QED
  BY <1>5, LosingKeepsRecords

\* A school year is deleted.
LEMMA DeletingYearKeepsRecords ==
    ASSUME RecordsAssumption, RecordsInv, NEW y \in Years, DeleteYear(y)
    PROVE  RecordsInv' /\ Frozen
<1>. PICK lines : lines = {k \in DOMAIN line : k[2] = y}
  OBVIOUS
<1>1. /\ years' = years \ {y}
      /\ line' = [k \in DOMAIN line \ lines |-> line[k]]
      /\ record' = [r \in {r \in DOMAIN record : record[r].year # y} |-> record[r]]
      /\ cut' = cut \cup {k[1] : k \in lines}
      /\ marks' = [c \in DOMAIN marks |-> IF c[1] = y THEN NoMark ELSE marks[c]]
      /\ UNCHANGED <<kind, subjects, made, clerk, late, raced>>
  BY DEF DeleteYear
<1>2. RecordsType /\ LinesBelong
  BY DEF RecordsInv
<1>3. marks' \in [CoursesEver -> MarksEver]
  BY <1>1, <1>2 DEF RecordsType, MarksEver
<1>4. \A k \in lines : k[1] \in cut' /\ k[2] \notin years'
  BY <1>1
<1>5. \A k \in DOMAIN line \ lines : k[2] \in years' /\ k[1] \in DOMAIN record'
  BY <1>1, <1>2 DEF LinesBelong, RecordsAssumption
<1>6. Loses(lines)
  BY <1>1, <1>2, <1>3, <1>4, <1>5 DEF Loses, RecordsType
<1>. QED
  BY <1>6, LosingKeepsRecords

\* A request begins.
LEMMA RequestsAsk ==
    ASSUME RecordsInv, NEW t \in Clerks, NEW request, Request(t, request),
           UNCHANGED <<kind, subjects, years, marks, record, made, line, late, raced, cut>>
    PROVE  Asks(t) /\ clerk'[t] = request
BY DEF RecordsInv, RecordsType, Request, Asks

\* Somebody generates a document.
LEMMA BeginGenerateKeepsRecords ==
    ASSUME RecordsAssumption, RecordsInv, NEW t \in Clerks, NEW y \in Years \cup {All}, BeginGenerate(t, y)
    PROVE  RecordsInv' /\ Frozen
<1>1. RecordsType
  BY DEF RecordsInv
<1>. PICK of \in Draft(y) :
        Request(t, [doing |-> "generating", of |-> of, year |-> y, copied |-> MarksOf(y),
                    record |-> IF of = 0 THEN << >> ELSE record[of], entries |-> EntriesOf(of)])
  BY DEF BeginGenerate
<1>. PICK asked : asked = clerk'[t]
  OBVIOUS
<1>. PICK entries : entries = EntriesOf(of)
  OBVIOUS
<1>. PICK copied : copied = MarksOf(y)
  OBVIOUS
<1>2. /\ Asks(t)
      /\ asked = [doing |-> "generating", of |-> of, year |-> y, copied |-> copied,
                  record |-> IF of = 0 THEN << >> ELSE record[of], entries |-> entries]
  BY RequestsAsk DEF BeginGenerate
<1>3. /\ of = 0 \/ (of \in DOMAIN record /\ record[of].year = y /\ record[of].status = "draft")
      /\ kind = "compliance" => of = 0
  BY DEF Draft
<1>4. of \in 0..made /\ (of \in DOMAIN record => of # 0 /\ record[of].edition \in Nat)
  BY <1>1, <1>3 DEF RecordsType, Document
<1>5. /\ copied \in UNION {[some -> MarksEver] : some \in SUBSET CoursesEver}
      /\ IF kind = "transcript" THEN y = All ELSE y \in Years /\ \A c \in DOMAIN copied : c[1] = y
  <2>1. Courses \subseteq CoursesEver
    BY <1>1 DEF RecordsType, Courses, CoursesEver
  <2>2. CASE kind = "transcript"
    <3>. DEFINE some == {c \in Courses : marks[c] # NoMark}
    <3>1. copied = [c \in some |-> marks[c]]
      BY <2>2 DEF MarksOf, WithGrade
    <3>2. copied \in [some -> MarksEver] /\ some \in SUBSET CoursesEver
      BY <1>1, <2>1, <3>1 DEF RecordsType
    <3>. HIDE DEF some
    <3>. QED
      BY <2>2, <3>2 DEF BeginGenerate
  <2>3. CASE kind # "transcript"
    <3>. DEFINE some == {c \in Courses : c[1] = y}
    <3>1. copied = [c \in some |-> marks[c]]
      BY <2>3 DEF MarksOf, OfYear
    <3>2. copied \in [some -> MarksEver] /\ some \in SUBSET CoursesEver
      BY <1>1, <2>1, <3>1 DEF RecordsType
    <3>3. \A c \in DOMAIN copied : c[1] = y
      BY <3>1
    <3>4. y \in Years
      BY <1>1, <2>3 DEF BeginGenerate, RecordsType
    <3>. HIDE DEF some
    <3>. QED
      BY <2>3, <3>2, <3>3, <3>4
  <2>. QED
    BY <2>2, <2>3
<1>6. entries \in Lines
  BY <1>1, EntriesAreLines
<1>7. /\ kind' = kind /\ made' = made /\ record' = record /\ EntriesOf(of)' = entries
  BY DEF BeginGenerate, EntriesOf
<1>8. RequestType(t)'
  BY <1>2, <1>3, <1>4, <1>5, <1>6, <1>7 DEF RequestType
<1>9. KnowsDocument(t)' /\ KnowsLines(t)'
  BY <1>2, <1>3, <1>4, <1>7 DEF KnowsDocument, KnowsLines, Writing
<1>. QED
  BY <1>2, <1>8, <1>9, AskingKeepsRecords

\* Somebody edits a line.
LEMMA BeginEditKeepsRecords ==
    ASSUME RecordsAssumption, RecordsInv, NEW t \in Clerks, NEW r \in 1..MaxRecords, NEW c \in CoursesEver,
           NEW value \in Settings, BeginEdit(t, r, c, value)
    PROVE  RecordsInv' /\ Frozen
<1>1. RecordsType
  BY DEF RecordsInv
<1>. PICK asked : asked = clerk'[t]
  OBVIOUS
<1>. PICK old : old = EntriesOf(r)
  OBVIOUS
<1>. PICK entries : entries = [old EXCEPT ![c].set = value]
  OBVIOUS
<1>2. /\ Asks(t)
      /\ asked = [doing |-> "editing", of |-> r, year |-> record[r].year, record |-> record[r],
                  course |-> c, entries |-> entries]
  BY RequestsAsk DEF BeginEdit
<1>3. r \in DOMAIN record /\ record[r].status = "draft" /\ c \in DOMAIN old
  BY DEF BeginEdit, MayEdit
<1>4. r \in 1..made /\ record[r].edition \in Nat
  BY <1>1, <1>3 DEF RecordsType, Document
<1>5. entries \in Lines /\ c \in DOMAIN entries /\ entries[c].set = value
  <2>1. PICK some \in SUBSET CoursesEver : old \in [some -> Line]
    BY <1>1, EntriesAreLines DEF Lines
  <2>. PICK one : one = [old[c] EXCEPT !.set = value]
    OBVIOUS
  <2>2. one \in Line /\ one.set = value
    BY <1>3, <2>1 DEF Line, RecordsAssumption
  <2>3. entries = [old EXCEPT ![c] = one]
    OBVIOUS
  <2>4. entries \in [some -> Line] /\ entries[c] = one /\ c \in some
    BY <1>3, <2>1, <2>2, <2>3
  <2>. QED
    BY <2>2, <2>4 DEF Lines
<1>6. /\ kind' = kind /\ made' = made /\ record' = record /\ EntriesOf(r)' = old
  BY DEF BeginEdit, EntriesOf
<1>7. RequestType(t)'
  BY <1>2, <1>4, <1>5, <1>6 DEF RequestType
<1>8. KnowsDocument(t)'
  BY <1>2, <1>3, <1>4, <1>6 DEF KnowsDocument, Writing
<1>9. KnowsLines(t)'
  <2>1. asked.doing = "editing" /\ asked.of = r /\ asked.course = c /\ asked.entries = entries
    BY <1>2
  <2>. QED
    BY <1>5, <1>6, <2>1 DEF KnowsLines, Writing
<1>. QED
  BY <1>2, <1>7, <1>8, <1>9, AskingKeepsRecords

\* Somebody changes the status.
LEMMA BeginStatusKeepsRecords ==
    ASSUME RecordsAssumption, RecordsInv, NEW t \in Clerks, NEW r \in 1..MaxRecords,
           NEW status \in {"final", "archived"}, BeginStatus(t, r, status)
    PROVE  RecordsInv' /\ Frozen
<1>1. RecordsType
  BY DEF RecordsInv
<1>. PICK asked : asked = clerk'[t]
  OBVIOUS
<1>. PICK old : old = EntriesOf(r)
  OBVIOUS
<1>2. /\ Asks(t)
      /\ asked = [doing |-> "changing", of |-> r, year |-> record[r].year, record |-> record[r],
                  status |-> status, entries |-> old]
  BY RequestsAsk DEF BeginStatus
<1>3. r \in DOMAIN record /\ r \in 1..made /\ record[r].edition \in Nat /\ old \in Lines
  BY <1>1, EntriesAreLines DEF RecordsType, Document, BeginStatus
<1>4. /\ kind' = kind /\ made' = made /\ record' = record /\ EntriesOf(r)' = old
  BY DEF BeginStatus, EntriesOf
<1>5. RequestType(t)' /\ KnowsDocument(t)' /\ KnowsLines(t)'
  BY <1>2, <1>3, <1>4 DEF RequestType, KnowsDocument, KnowsLines, Writing
<1>. QED
  BY <1>2, <1>5, AskingKeepsRecords

\* Somebody finalizes a document.
LEMMA BeginFinalizeKeepsRecords ==
    ASSUME RecordsAssumption, RecordsInv, NEW t \in Clerks, NEW r \in 1..MaxRecords, BeginFinalize(t, r)
    PROVE  RecordsInv' /\ Frozen
<1>1. RecordsType
  BY DEF RecordsInv
<1>. PICK asked : asked = clerk'[t]
  OBVIOUS
<1>2. /\ Asks(t)
      /\ asked = [doing |-> "finalizing", of |-> r, year |-> record[r].year, record |-> record[r], status |-> "final"]
  BY RequestsAsk DEF BeginFinalize
<1>3. r \in DOMAIN record /\ r \in 1..made /\ record[r].edition \in Nat
  BY <1>1 DEF RecordsType, Document, BeginFinalize
<1>4. /\ kind' = kind /\ made' = made /\ record' = record
  BY DEF BeginFinalize
<1>5. RequestType(t)' /\ KnowsDocument(t)' /\ KnowsLines(t)'
  BY <1>2, <1>3, <1>4 DEF RequestType, KnowsDocument, KnowsLines, Writing
<1>. QED
  BY <1>2, <1>5, AskingKeepsRecords

\* Somebody deletes a subject.
LEMMA BeginDeleteKeepsRecords ==
    ASSUME RecordsInv, NEW t \in Clerks, NEW s \in Subjects, BeginDeleteSubject(t, s)
    PROVE  RecordsInv' /\ Frozen
<1>1. Asks(t) /\ clerk'[t] = [doing |-> "deleting", year |-> "none", subject |-> s]
  BY RequestsAsk DEF BeginDeleteSubject
<1>2. RequestType(t)' /\ KnowsDocument(t)' /\ KnowsLines(t)'
  BY <1>1 DEF RequestType, KnowsDocument, KnowsLines, Writing
<1>. QED
  BY <1>1, <1>2, AskingKeepsRecords

\* Whatever happens, the invariant stays, and so do the lines of what is final.
LEMMA RecordsInvNext ==
    ASSUME RecordsAssumption, RecordsInv, [RecordsNext]_recordsVars
    PROVE  RecordsInv' /\ (recordsVars' = recordsVars \/ Frozen)
<1>1. CASE UNCHANGED recordsVars
  <2>1. \A r : EntriesOf(r)' = EntriesOf(r)
    BY <1>1 DEF recordsVars, EntriesOf
  <2>2. \A u \in Clerks : RequestType(u)' /\ KnowsDocument(u)' /\ KnowsLines(u)'
    BY <1>1, <2>1 DEF recordsVars, RecordsInv, RequestType, KnowsDocument, KnowsLines, Writing
  <2>3. RecordsType' /\ LinesBelong' /\ TotalsMatchEntries'
    BY <1>1, <2>1 DEF recordsVars, RecordsInv, RecordsType, LinesBelong, TotalsMatchEntries
  <2>. QED
    BY <1>1, <2>2, <2>3 DEF RecordsInv
<1>2. CASE \E t \in Clerks, y \in Years \cup {All} : BeginGenerate(t, y)
  BY <1>2, BeginGenerateKeepsRecords
<1>3. CASE \E t \in Clerks, r \in 1..MaxRecords : BeginFinalize(t, r)
  BY <1>3, BeginFinalizeKeepsRecords
<1>4. CASE \E t \in Clerks, r \in 1..MaxRecords, c \in Years \X Subjects, v \in Settings : BeginEdit(t, r, c, v)
  BY <1>4, BeginEditKeepsRecords DEF CoursesEver
<1>5. CASE \E t \in Clerks, r \in 1..MaxRecords, status \in {"final", "archived"} : BeginStatus(t, r, status)
  BY <1>5, BeginStatusKeepsRecords
<1>6. CASE \E t \in Clerks :
              \/ CommitCreate(t) \/ CommitGenerate(t) \/ CommitEdit(t) \/ CommitStatus(t) \/ CommitFinalize(t)
              \/ CommitDeleteSubject(t) \/ Withdraw(t)
  BY <1>6, CreatingKeepsRecords, GeneratingKeepsRecords, EditingKeepsRecords, StatusKeepsRecords,
     FinalizingKeepsRecords, DeletingKeepsRecords, WithdrawingKeepsRecords
<1>7. CASE \E c \in Years \X Subjects, mark \in Marks : Grade(c, mark)
  BY <1>7, GradingKeepsRecords DEF CoursesEver
<1>8. CASE \E t \in Clerks, s \in Subjects : BeginDeleteSubject(t, s)
  BY <1>8, BeginDeleteKeepsRecords
<1>9. CASE \E y \in Years : DeleteYear(y)
  BY <1>9, DeletingYearKeepsRecords
<1>. QED
  BY <1>1, <1>2, <1>3, <1>4, <1>5, <1>6, <1>7, <1>8, <1>9 DEF RecordsNext

\* A transcript's credits and GPA are those of its lines, for any number of clerks,
\* documents, years and subjects.
THEOREM TranscriptsAddUp ==
    ASSUME RecordsAssumption PROVE RecordsSpec => []TotalsMatchEntries
<1>1. RecordsInit => RecordsInv
  BY RecordsInvInit
<1>2. RecordsInv /\ [RecordsNext]_recordsVars => RecordsInv'
  BY RecordsInvNext
<1>3. RecordsInv => TotalsMatchEntries
  BY DEF RecordsInv
<1>. QED
  BY <1>1, <1>2, <1>3, PTL DEF RecordsSpec

\* A final document keeps its lines (the action property FinalIsFrozen).
THEOREM FinalDocumentsStay ==
    ASSUME RecordsAssumption PROVE RecordsSpec => FinalIsFrozen
<1>1. RecordsInit => RecordsInv
  BY RecordsInvInit
<1>2. RecordsInv /\ [RecordsNext]_recordsVars => RecordsInv'
  BY RecordsInvNext
<1>3. RecordsInv /\ [RecordsNext]_recordsVars =>
         [\A r \in DOMAIN record \cap DOMAIN record' : record[r].status # "draft" /\ r \notin raced' => LinesStay(r)]_recordsVars
  BY RecordsInvNext DEF Frozen
<1>. QED
  BY <1>1, <1>2, <1>3, PTL DEF RecordsSpec, FinalIsFrozen

-----------------------------------------------------------------------------
(* The front door.                                                         *)

Account   == [role : FamilyRoles, active : BOOLEAN, member : BOOLEAN, fails : Nat, locked : Int]
Sessions  == {NoSession} \cup [user : Users, issued : Nat, app : AppRoleSets \cup {{}}]
Inspected == [stage : {"inspected", "admitted"}, browser : Browsers, asked : Asked, closed : BOOLEAN, session : Sessions]
Logins    == {asked \in Asked : asked.kind = "login"}
LoggingIn == [stage : {"signing in"}, browser : Browsers, asked : Logins, session : Sessions, row : Account]

DoorType ==
    /\ clock \in Nat /\ jar \in [Browsers -> Sessions] /\ used \in [Browsers -> Nat]
    /\ account \in [Users -> Account] /\ visit \in [Requests -> {NoVisit} \cup Inspected \cup LoggingIn]

\* Whoever holds a session has had no answer within it once it was due for a new term.
UsedInTime(b) ==
    /\ used[b] <= clock
    /\ jar[b] # NoSession => jar[b].issued <= clock /\ used[b] - jar[b].issued < RotateAfter

\* A request came with a session that is not newer than what its browser holds.
CameBefore(r) ==
    LET came == visit[r] IN
    came.stage # "idle" /\ came.session # NoSession =>
        came.session.issued <= clock /\ (jar[came.browser] # NoSession => came.session.issued <= jar[came.browser].issued)

DoorInv == DoorType /\ (\A b \in Browsers : UsedInTime(b)) /\ (\A r \in Requests : CameBefore(r))

\* The kinds of visits.
LEMMA VisitKinds ==
    ASSUME NEW came \in {NoVisit} \cup Inspected \cup LoggingIn, came.stage # "idle"
    PROVE  /\ came.browser \in Browsers /\ came.session \in Sessions /\ came.asked \in Asked
           /\ came.stage \in {"inspected", "admitted"} => came \in Inspected
           /\ came.stage = "signing in" => came \in LoggingIn
<1>1. came # NoVisit
  BY DEF NoVisit
<1>2. CASE came \in Inspected
  BY <1>2 DEF Inspected
<1>3. CASE came \in LoggingIn
  BY <1>3 DEF LoggingIn, Logins
<1>. QED
  BY <1>1, <1>2, <1>3

\* Before any request.
LEMMA DoorInvInit == ASSUME FrontDoorAssumption, FrontDoorInit PROVE DoorInv
<1>1. /\ clock = 0 /\ used = [b \in Browsers |-> 0] /\ visit = [r \in Requests |-> NoVisit]
      /\ jar \in [Browsers -> {NoSession} \cup {Session(u, app) : u \in Users, app \in AppRoleSets}]
      /\ account \in [Users -> {[role |-> role, active |-> TRUE, member |-> TRUE, fails |-> 0, locked |-> Never] :
                                  role \in FamilyRoles}]
  BY DEF FrontDoorInit
<1>2. \A b \in Browsers : jar[b] \in Sessions /\ (jar[b] # NoSession => jar[b].issued = 0)
  <2>. SUFFICES ASSUME NEW b \in Browsers, jar[b] # NoSession PROVE jar[b] \in Sessions /\ jar[b].issued = 0
    BY <1>1 DEF Sessions
  <2>1. PICK u \in Users, app \in AppRoleSets : jar[b] = [user |-> u, issued |-> 0, app |-> app]
    BY <1>1 DEF Session
  <2>. QED
    BY <2>1 DEF Sessions
<1>3. \A u \in Users : account[u] \in Account
  <2>. SUFFICES ASSUME NEW u \in Users PROVE account[u] \in Account
    OBVIOUS
  <2>1. PICK role \in FamilyRoles :
           account[u] = [role |-> role, active |-> TRUE, member |-> TRUE, fails |-> 0, locked |-> Never]
    BY <1>1
  <2>2. Never \in Int
    BY DEF Never
  <2>. QED
    BY <2>1, <2>2 DEF Account
<1>4. DoorType
  BY <1>1, <1>2, <1>3 DEF DoorType
<1>5. \A b \in Browsers : UsedInTime(b)
  BY <1>1, <1>2 DEF UsedInTime, FrontDoorAssumption
<1>6. \A r \in Requests : CameBefore(r)
  BY <1>1 DEF CameBefore, NoVisit
<1>. QED
  BY <1>4, <1>5, <1>6 DEF DoorInv

\* Nothing changes for the browsers.
LEMMA DoorStays ==
    ASSUME DoorInv, clock' \in Nat, clock <= clock', UNCHANGED <<jar, used>>, account' \in [Users -> Account],
           visit' \in [Requests -> {NoVisit} \cup Inspected \cup LoggingIn],
           \A r \in Requests :
               \/ visit'[r].stage = "idle"
               \/ visit[r].stage # "idle" /\ visit'[r].session = visit[r].session /\ visit'[r].browser = visit[r].browser
    PROVE  DoorInv'
<1>1. DoorType'
  BY DEF DoorInv, DoorType
<1>2. \A b \in Browsers : UsedInTime(b)'
  <2>. SUFFICES ASSUME NEW b \in Browsers PROVE UsedInTime(b)'
    OBVIOUS
  <2>1. UsedInTime(b) /\ clock \in Nat /\ used[b] \in Nat /\ (jar[b] # NoSession => jar[b].issued \in Nat)
    BY DEF DoorInv, DoorType, Sessions
  <2>. QED
    BY <2>1 DEF UsedInTime
<1>3. \A r \in Requests : CameBefore(r)'
  <2>. SUFFICES ASSUME NEW r \in Requests PROVE CameBefore(r)'
    OBVIOUS
  <2>1. CameBefore(r) /\ clock \in Nat
    BY DEF DoorInv, DoorType
  <2>2. visit[r].stage # "idle" /\ visit[r].session # NoSession => visit[r].session.issued \in Nat
    <3>1. visit[r] \in {NoVisit} \cup Inspected \cup LoggingIn
      BY DEF DoorInv, DoorType
    <3>2. visit[r].stage # "idle" => visit[r].session \in Sessions
      BY <3>1, VisitKinds
    <3>. QED
      BY <3>2 DEF Sessions
  <2>. QED
    BY <2>1, <2>2 DEF CameBefore
<1>. QED
  BY <1>1, <1>2, <1>3 DEF DoorInv

\* An answer goes out.
LEMMA LeavingKeepsDoor ==
    ASSUME FrontDoorAssumption, DoorInv, NEW r \in Requests, NEW status, NEW cookies, visit[r].stage # "idle",
           Leave(r, status, cookies), clock' = clock, account' \in [Users -> Account],
           \/ cookies = NoSession \/ cookies = jar[visit[r].browser]
           \/ \E u \in Users, app \in AppRoleSets \cup {{}} : cookies = Session(u, app)
    PROVE  DoorInv'
<1>. PICK b : b = visit[r].browser
  OBVIOUS
<1>. PICK session : session = visit[r].session
  OBVIOUS
<1>. PICK rotates \in BOOLEAN : rotates = (status # "error" /\ NeedsRotation(session))
  OBVIOUS
<1>. PICK issued : issued = IF rotates THEN Session(session.user, {}) ELSE cookies
  OBVIOUS
<1>1. b \in Browsers /\ session \in Sessions /\ CameBefore(r)
  <2>1. visit[r] \in {NoVisit} \cup Inspected \cup LoggingIn
    BY DEF DoorInv, DoorType
  <2>. QED
    BY <2>1, VisitKinds DEF DoorInv
<1>2. /\ visit' = [visit EXCEPT ![r] = NoVisit] /\ jar' = [jar EXCEPT ![b] = issued]
      /\ used' = IF cookies # NoSession /\ status # "error" /\ (session # NoSession \/ cookies # jar[b])
                 THEN [used EXCEPT ![b] = clock] ELSE used
  BY DEF Leave, EndVisit
<1>3. /\ clock \in Nat /\ jar \in [Browsers -> Sessions] /\ used \in [Browsers -> Nat]
      /\ visit \in [Requests -> {NoVisit} \cup Inspected \cup LoggingIn] /\ UsedInTime(b)
      /\ MaxAge \in Nat /\ RotateAfter \in 1..MaxAge
  BY <1>1 DEF DoorInv, DoorType, FrontDoorAssumption
<1>4. session # NoSession =>
          /\ session.user \in Users /\ session.issued \in Nat /\ session.issued <= clock
          /\ jar[b] # NoSession => session.issued <= jar[b].issued
  BY <1>1 DEF Sessions, CameBefore
\* What the browser holds then.
<1>5. /\ issued \in Sessions
      /\ issued # NoSession => issued.issued = clock \/ (~rotates /\ issued = jar[b] /\ cookies = jar[b])
  <2>1. \A u \in Users, app \in AppRoleSets \cup {{}} : Session(u, app) \in Sessions /\ Session(u, app).issued = clock
    BY <1>3 DEF Session, Sessions
  <2>2. CASE rotates
    BY <1>4, <2>1, <2>2 DEF NeedsRotation
  <2>3. CASE ~rotates
    <3>1. NoSession \in Sessions /\ jar[b] \in Sessions
      BY <1>1, <1>3 DEF Sessions
    <3>. QED
      BY <2>1, <2>3, <3>1
  <2>. QED
    BY <2>2, <2>3
<1>6. DoorType'
  BY <1>1, <1>2, <1>3, <1>5 DEF DoorType
<1>7. \A c \in Browsers : UsedInTime(c)'
  <2>. SUFFICES ASSUME NEW c \in Browsers PROVE UsedInTime(c)'
    OBVIOUS
  <2>1. UsedInTime(c)
    BY DEF DoorInv
  <2>2. CASE c # b
    BY <1>2, <1>3, <2>1, <2>2 DEF UsedInTime
  <2>3. CASE c = b
    <3>1. used'[b] \in Nat /\ used'[b] <= clock /\ jar'[b] = issued
      BY <1>1, <1>2, <1>3 DEF UsedInTime
    <3>2. CASE issued = NoSession
      BY <2>3, <3>1, <3>2 DEF UsedInTime
    <3>3. CASE issued.issued = clock
      BY <1>3, <2>3, <3>1, <3>3 DEF UsedInTime
    <3>4. CASE issued # NoSession /\ ~rotates /\ issued = jar[b] /\ cookies = jar[b]
      <4>1. jar[b].issued \in Nat /\ jar[b].issued <= clock /\ used[b] - jar[b].issued < RotateAfter
        BY <1>1, <1>3, <3>4 DEF Sessions, UsedInTime
      <4>2. used'[b] = used[b] \/ (used'[b] = clock /\ status # "error" /\ session # NoSession)
        BY <1>1, <1>2, <1>3, <3>4
      <4>3. status # "error" /\ session # NoSession => clock - jar[b].issued < RotateAfter
        <5>. SUFFICES ASSUME status # "error", session # NoSession PROVE clock - jar[b].issued < RotateAfter
          OBVIOUS
        <5>1. ~(clock - session.issued >= RotateAfter)
          BY <3>4 DEF NeedsRotation, Age
        <5>2. session.issued <= jar[b].issued /\ session.issued \in Nat
          BY <1>4, <3>4
        <5>. QED
          BY <1>3, <4>1, <5>1, <5>2
      <4>. QED
        BY <2>3, <3>1, <3>4, <4>1, <4>2, <4>3 DEF UsedInTime
    <3>. QED
      BY <1>5, <3>2, <3>3, <3>4
  <2>. QED
    BY <2>2, <2>3
<1>8. \A q \in Requests : CameBefore(q)'
  <2>. SUFFICES ASSUME NEW q \in Requests PROVE CameBefore(q)'
    OBVIOUS
  <2>1. CameBefore(q)
    BY DEF DoorInv
  <2>2. CASE q = r
    <3>1. visit'[q].stage = "idle"
      BY <1>2, <1>3, <2>2 DEF NoVisit
    <3>. QED
      BY <3>1 DEF CameBefore
  <2>3. CASE q # r
    <3>1. visit'[q] = visit[q]
      BY <1>2, <2>3
    <3>. PICK place : place = visit[q].browser
      OBVIOUS
    <3>3. visit[q].stage # "idle" => place \in Browsers
      <4>1. visit[q] \in {NoVisit} \cup Inspected \cup LoggingIn
        BY <1>3
      <4>. QED
        BY <3>1, <4>1, VisitKinds
    <3>2. place \in Browsers /\ jar'[place] # NoSession =>
             jar'[place] = jar[place] \/ jar'[place].issued = clock \/ (place = b /\ jar'[place] = jar[b])
      BY <1>1, <1>2, <1>3, <1>5
    <3>. QED
      BY <1>2, <2>1, <3>1, <3>2, <3>3 DEF CameBefore
  <2>. QED
    BY <2>2, <2>3
<1>. QED
  BY <1>6, <1>7, <1>8 DEF DoorInv

\* Whose visit it is.
LEMMA VisitsAreKnown ==
    ASSUME DoorInv, NEW r \in Requests, NEW asked, visit[r].stage # "idle", asked = visit[r].asked
    PROVE  /\ visit[r].stage \in {"inspected", "admitted"} => visit[r] \in Inspected
           /\ visit[r].stage = "signing in" => visit[r] \in LoggingIn
           /\ visit[r].browser \in Browsers /\ visit[r].session \in Sessions
           /\ asked.kind \in {"login", "external"} => asked.user \in Users
           /\ asked.kind = "external" => asked.app \in AppRoleSets
<1>1. visit[r] \in {NoVisit} \cup Inspected \cup LoggingIn
  BY DEF DoorInv, DoorType
<1>2. /\ visit[r].stage \in {"inspected", "admitted"} => visit[r] \in Inspected
      /\ visit[r].stage = "signing in" => visit[r] \in LoggingIn
      /\ visit[r].browser \in Browsers /\ visit[r].session \in Sessions /\ asked \in Asked
  BY <1>1, VisitKinds
<1>. QED
  BY <1>2 DEF Asked

\* Only the visit changes, and it is over or goes on.
LEMMA VisitKeepsDoor ==
    ASSUME DoorInv, UNCHANGED <<clock, jar, used>>, account' \in [Users -> Account], NEW r \in Requests, NEW next,
           visit' = [visit EXCEPT ![r] = next], visit[r].stage # "idle",
           \/ next = NoVisit
           \/ next \in Inspected \cup LoggingIn /\ next.session = visit[r].session /\ next.browser = visit[r].browser
    PROVE  DoorInv'
<1>1. clock \in Nat /\ visit \in [Requests -> {NoVisit} \cup Inspected \cup LoggingIn]
  BY DEF DoorInv, DoorType
<1>2. visit' \in [Requests -> {NoVisit} \cup Inspected \cup LoggingIn]
  BY <1>1
<1>3. \A q \in Requests :
         \/ visit'[q].stage = "idle"
         \/ visit[q].stage # "idle" /\ visit'[q].session = visit[q].session /\ visit'[q].browser = visit[q].browser
  <2>. SUFFICES ASSUME NEW q \in Requests, visit'[q].stage # "idle"
       PROVE visit[q].stage # "idle" /\ visit'[q].session = visit[q].session /\ visit'[q].browser = visit[q].browser
    OBVIOUS
  <2>1. CASE q = r
    <3>1. visit'[q] = next /\ next # NoVisit
      BY <1>1, <2>1 DEF NoVisit
    <3>. QED
      BY <2>1, <3>1
  <2>2. CASE q # r
    BY <1>1, <2>2
  <2>. QED
    BY <2>1, <2>2
<1>. QED
  BY <1>1, <1>2, <1>3, DoorStays

\* A request arrives.
LEMMA ArrivingKeepsDoor ==
    ASSUME DoorInv, NEW r \in Requests, NEW b \in Browsers, NEW asked \in Asked, Arrive(r, b, asked)
    PROVE  DoorInv'
<1>. PICK session : session = IF IsSignIn(asked.kind) THEN NoSession ELSE Held(b)
  OBVIOUS
<1>. PICK closed \in BOOLEAN : closed = InMaintenance
  BY DEF InMaintenance
<1>. PICK next : next = [stage |-> "inspected", browser |-> b, asked |-> asked, closed |-> closed, session |-> session]
  OBVIOUS
<1>1. visit' = [visit EXCEPT ![r] = next] /\ UNCHANGED <<clock, jar, used, account>>
  BY DEF Arrive
<1>2. DoorType /\ \A c \in Browsers : UsedInTime(c)
  BY DEF DoorInv
<1>3. session = NoSession \/ session = jar[b]
  BY DEF Held
<1>4. session \in Sessions /\ jar[b] \in Sessions
  BY <1>2, <1>3 DEF DoorType, Sessions
<1>5. next \in Inspected
  BY <1>4 DEF Inspected
<1>6. DoorType'
  BY <1>1, <1>2, <1>5 DEF DoorType
<1>7. \A c \in Browsers : UsedInTime(c)'
  BY <1>1, <1>2 DEF UsedInTime
<1>8. \A q \in Requests : CameBefore(q)'
  <2>. SUFFICES ASSUME NEW q \in Requests PROVE CameBefore(q)'
    OBVIOUS
  <2>1. CASE q = r
    <3>1. visit'[q] = next
      BY <1>1, <1>2, <2>1 DEF DoorType
    <3>2. session # NoSession => session = jar[b] /\ session.issued \in Nat /\ session.issued <= clock
      BY <1>2, <1>3, <1>4 DEF UsedInTime, Sessions
    <3>. QED
      BY <1>1, <3>1, <3>2 DEF CameBefore
  <2>2. CASE q # r
    <3>1. visit'[q] = visit[q]
      BY <1>1, <2>2
    <3>. QED
      BY <1>1, <3>1 DEF CameBefore, DoorInv
  <2>. QED
    BY <2>1, <2>2
<1>. QED
  BY <1>6, <1>7, <1>8 DEF DoorInv

\* A request is let in.
LEMMA AdmittingKeepsDoor ==
    ASSUME DoorInv, NEW r \in Requests, Admit(r)
    PROVE  DoorInv'
<1>1. visit[r].stage = "inspected" /\ UNCHANGED <<clock, jar, used, account>> /\ account \in [Users -> Account]
  BY DEF Admit, DoorInv, DoorType
<1>2. visit[r] \in Inspected
  BY <1>1, VisitsAreKnown
<1>. PICK next : next = [visit[r] EXCEPT !.stage = "admitted"]
  OBVIOUS
<1>3. next \in Inspected /\ next.session = visit[r].session /\ next.browser = visit[r].browser
  BY <1>2 DEF Inspected
<1>4. visit' = [visit EXCEPT ![r] = NoVisit] \/ visit' = [visit EXCEPT ![r] = next]
  BY DEF Admit, EndVisit
<1>. QED
  BY <1>1, <1>3, <1>4, VisitKeepsDoor

\* The handlers within a session.
LEMMA HandlersKeepDoor ==
    ASSUME FrontDoorAssumption, DoorInv, NEW r \in Requests, Use(r) \/ SetMaintenance(r) \/ SignOut(r)
    PROVE  DoorInv'
<1>1. visit[r].stage # "idle" /\ clock' = clock /\ account' = account /\ account \in [Users -> Account]
  BY DEF Use, SetMaintenance, SignOut, DoorInv, DoorType
<1>2. \E status, cookies : Leave(r, status, cookies) /\ (cookies = NoSession \/ cookies = jar[visit[r].browser])
  BY DEF Use, SetMaintenance, SignOut
<1>. QED
  BY <1>1, <1>2, LeavingKeepsDoor

\* A user's row is written.
LEMMA LoginsAreTyped ==
    ASSUME DoorInv, NEW u \in Users, NEW seen \in Account, NEW fails \in Nat, NEW locked \in Int,
           WriteLogin(u, seen, fails, locked)
    PROVE  account' \in [Users -> Account]
<1>. PICK f \in Nat : f = IF fails # seen.fails THEN fails ELSE account[u].fails
  BY DEF DoorInv, DoorType, Account
<1>. PICK l \in Int : l = IF locked # seen.locked THEN locked ELSE account[u].locked
  BY DEF DoorInv, DoorType, Account
<1>. PICK old \in Account : old = account[u]
  BY DEF DoorInv, DoorType
<1>. PICK mid : mid = [old EXCEPT !.fails = f]
  OBVIOUS
<1>. PICK new : new = [mid EXCEPT !.locked = l]
  OBVIOUS
<1>1. mid \in Account
  BY DEF Account
<1>2. new \in Account
  BY <1>1 DEF Account
<1>3. account' = [account EXCEPT ![u] = new]
  BY DEF WriteLogin
<1>. QED
  BY <1>2, <1>3 DEF DoorInv, DoorType

\* The handlers that sign a user in.
LEMMA SigningInKeepsDoor ==
    ASSUME FrontDoorAssumption, DoorInv, NEW r \in Requests,
           ReadAccount(r) \/ Reject(r) \/ SignIn(r) \/ SignInOutside(r) \/ RefuseOutside(r)
    PROVE  DoorInv'
<1>. PICK asked : asked = visit[r].asked
  OBVIOUS
<1>1. /\ DoorType /\ visit[r].stage # "idle" /\ clock' = clock /\ clock \in Nat
      /\ account \in [Users -> Account]
  BY DEF DoorInv, DoorType, ReadAccount, Reject, SignIn, SignInOutside, RefuseOutside
<1>2. asked.kind \in {"login", "external"} => asked.user \in Users /\ account[asked.user] \in Account
  BY <1>1, VisitsAreKnown
<1>3. CASE ReadAccount(r)
  <2>1. visit[r] \in Inspected /\ asked.user \in Users /\ UNCHANGED <<jar, used, account>>
    BY <1>1, <1>2, <1>3, VisitsAreKnown DEF ReadAccount
  <2>. PICK next : next = [stage |-> "signing in", browser |-> visit[r].browser, asked |-> asked,
                           session |-> visit[r].session, row |-> account[asked.user]]
    OBVIOUS
  <2>4. visit[r].browser \in Browsers /\ visit[r].session \in Sessions /\ asked \in Logins
    BY <1>3, <2>1 DEF Inspected, Logins, ReadAccount
  <2>2. next \in LoggingIn /\ next.session = visit[r].session /\ next.browser = visit[r].browser
    <3>1. account[asked.user] \in Account
      BY <1>1, <2>1
    <3>. QED
      BY <2>4, <3>1 DEF LoggingIn
  <2>3. visit' = [visit EXCEPT ![r] = NoVisit] \/ visit' = [visit EXCEPT ![r] = next]
    BY <1>3 DEF ReadAccount, EndVisit
  <2>. QED
    BY <1>1, <2>1, <2>2, <2>3, VisitKeepsDoor
<1>4. CASE RefuseOutside(r)
  <2>1. UNCHANGED <<jar, used, account>> /\ visit' = [visit EXCEPT ![r] = NoVisit]
    BY <1>4 DEF RefuseOutside, EndVisit
  <2>. QED
    BY <1>1, <2>1, VisitKeepsDoor
<1>5. CASE SignInOutside(r)
  <2>1. asked.user \in Users /\ asked.app \in AppRoleSets /\ account' = account
    BY <1>1, <1>5, VisitsAreKnown DEF SignInOutside
  <2>2. CASE UNCHANGED <<jar, used>> /\ visit' = [visit EXCEPT ![r] = NoVisit]
    BY <1>1, <2>1, <2>2, VisitKeepsDoor
  <2>3. CASE Leave(r, "ok", Session(asked.user, asked.app))
    BY <1>1, <2>1, <2>3, LeavingKeepsDoor
  <2>. QED
    BY <1>5, <2>2, <2>3 DEF SignInOutside, EndVisit
<1>6. CASE Reject(r) \/ SignIn(r)
  <2>. PICK row : row = visit[r].row
    OBVIOUS
  <2>1. visit[r] \in LoggingIn
    BY <1>1, <1>6, VisitsAreKnown DEF Reject, SignIn
  <2>2. row \in Account
    BY <2>1 DEF LoggingIn
  <2>3. row.fails \in Nat /\ row.locked \in Int /\ LockFor \in Nat
    BY <2>2 DEF Account, FrontDoorAssumption
  <2>4. asked.kind = "login"
    BY <2>1 DEF LoggingIn, Logins
  <2>5. asked.user \in Users
    BY <1>2, <2>4
  <2>6. account' \in [Users -> Account]
    <3>1. \E fails \in Nat, locked \in Int : WriteLogin(asked.user, row, fails, locked)
      <4>1. row.fails + 1 \in Nat /\ 0 \in Nat /\ Never \in Int /\ clock + LockFor \in Int
        BY <1>1, <2>3 DEF Never
      <4>2. CASE Reject(r)
        <5>1. WriteLogin(asked.user, row, 0, clock + LockFor) \/ WriteLogin(asked.user, row, row.fails + 1, row.locked)
          BY <4>2 DEF Reject
        <5>. QED
          BY <2>3, <4>1, <5>1
      <4>3. CASE SignIn(r)
        <5>1. WriteLogin(asked.user, row, 0, Never)
          BY <4>3 DEF SignIn
        <5>. QED
          BY <4>1, <5>1
      <4>. QED
        BY <1>6, <4>2, <4>3
    <3>. QED
      BY <2>2, <2>5, <3>1, LoginsAreTyped
  <2>7. CASE Reject(r)
    <3>1. UNCHANGED <<jar, used>> /\ visit' = [visit EXCEPT ![r] = NoVisit]
      BY <2>7 DEF Reject, EndVisit
    <3>. QED
      BY <1>1, <2>6, <3>1, VisitKeepsDoor
  <2>8. CASE SignIn(r)
    <3>1. Leave(r, "ok", Session(asked.user, {}))
      BY <2>8 DEF SignIn
    <3>. QED
      BY <1>1, <2>5, <2>6, <3>1, LeavingKeepsDoor
  <2>. QED
    BY <1>6, <2>7, <2>8
<1>. QED
  BY <1>3, <1>4, <1>5, <1>6

\* A member changes.
LEMMA ChangesKeepDoor ==
    ASSUME DoorInv, NEW u \in Users, NEW row \in Account, Change(u, row)
    PROVE  DoorInv'
<1>1. DoorType
  BY DEF DoorInv
<1>2. account' \in [Users -> Account] /\ UNCHANGED <<clock, jar, used, visit>>
  BY <1>1 DEF Change, DoorType
<1>. QED
  BY <1>1, <1>2, DoorStays DEF DoorType

\* Time goes on, or the server starts again.
LEMMA TimeKeepsDoor ==
    ASSUME DoorInv, Tick \/ RestartServer
    PROVE  DoorInv'
<1>1. DoorType
  BY DEF DoorInv
<1>2. CASE Tick
  BY <1>1, <1>2, DoorStays DEF Tick, DoorType
<1>3. CASE RestartServer
  <2>1. visit' = [r \in Requests |-> NoVisit] /\ UNCHANGED <<clock, jar, used, account>>
    BY <1>3 DEF RestartServer
  <2>2. \A r \in Requests : visit'[r].stage = "idle"
    BY <2>1 DEF NoVisit
  <2>3. visit' \in [Requests -> {NoVisit} \cup Inspected \cup LoggingIn]
    BY <2>1
  <2>. QED
    BY <1>1, <2>1, <2>2, <2>3, DoorStays DEF DoorType
<1>. QED
  BY <1>2, <1>3

\* Every step.
LEMMA DoorInvNext ==
    ASSUME FrontDoorAssumption, DoorInv, [FrontDoorNext]_frontDoorVars
    PROVE  DoorInv'
<1>1. CASE UNCHANGED frontDoorVars
  BY <1>1 DEF frontDoorVars, DoorInv, DoorType, UsedInTime, CameBefore
<1>2. CASE Tick \/ RestartServer
  BY <1>2, TimeKeepsDoor
<1>3. CASE \E r \in Requests, b \in Browsers, asked \in Asked : Arrive(r, b, asked)
  BY <1>3, ArrivingKeepsDoor
<1>4. CASE \E r \in Requests :
              \/ Admit(r) \/ Use(r) \/ SetMaintenance(r) \/ SignOut(r)
              \/ ReadAccount(r) \/ Reject(r) \/ SignIn(r) \/ SignInOutside(r) \/ RefuseOutside(r)
  BY <1>4, AdmittingKeepsDoor, HandlersKeepDoor, SigningInKeepsDoor
<1>5. CASE \E u \in Users \ {FirstUser} :
              \/ \E role \in FamilyRoles : Change(u, [account[u] EXCEPT !.role = role])
              \/ \E b \in BOOLEAN : Change(u, [account[u] EXCEPT !.active = b]) \/ Change(u, [account[u] EXCEPT !.member = b])
  <2>. PICK u \in Users : \E row \in {[account[u] EXCEPT !.role = role] : role \in FamilyRoles}
                             \cup {[account[u] EXCEPT !.active = b] : b \in BOOLEAN}
                             \cup {[account[u] EXCEPT !.member = b] : b \in BOOLEAN} : Change(u, row)
    BY <1>5
  <2>. PICK old \in Account : old = account[u]
    BY DEF DoorInv, DoorType
  <2>1. /\ \A role \in FamilyRoles : [old EXCEPT !.role = role] \in Account
        /\ \A b \in BOOLEAN : [old EXCEPT !.active = b] \in Account /\ [old EXCEPT !.member = b] \in Account
    BY DEF Account
  <2>2. \E row \in Account : Change(u, row)
    BY <2>1
  <2>. QED
    BY <2>2, ChangesKeepDoor
<1>. QED
  BY <1>1, <1>2, <1>3, <1>4, <1>5 DEF FrontDoorNext

\* Who is at it stays signed in, and who could end the maintenance mode gets through.
LEMMA DoorInvImplies == ASSUME FrontDoorAssumption, DoorInv PROVE NobodyIsShutOut
<1>1. DoorType /\ MaxAge \in Nat /\ RotateAfter \in 1..MaxAge
  BY DEF DoorInv, FrontDoorAssumption
<1>2. StaysSignedIn
  <2>. SUFFICES ASSUME NEW b \in Browsers, jar[b] # NoSession, clock - used[b] <= MaxAge - RotateAfter
       PROVE  Held(b) # NoSession
    BY DEF StaysSignedIn
  <2>1. /\ clock \in Nat /\ used[b] \in Nat /\ jar[b].issued \in Nat /\ used[b] - jar[b].issued < RotateAfter
    BY <1>1 DEF DoorInv, DoorType, UsedInTime, Sessions
  <2>2. ~(Age(jar[b]) >= MaxAge)
    BY <1>1, <2>1 DEF Age
  <2>. QED
    BY <2>2 DEF Held
<1>3. AdminsGetThrough
  <2>. SUFFICES ASSUME NEW r \in Requests, visit[r].stage = "inspected", MayAdminister(visit[r].session)
       PROVE  MayBypass(visit[r].session)
    BY DEF AdminsGetThrough, TurnAway
  <2>. PICK session : session = visit[r].session
    OBVIOUS
  <2>1. session \in Sessions /\ MayAdminister(session) /\ session # NoSession
    BY VisitsAreKnown DEF MayAdminister, MayEnter
  <2>2. session.user \in Users /\ account[session.user].member
    BY <2>1 DEF Sessions, MayAdminister, MayEnter
  <2>3. account[session.user].role \in {"parent", "co_parent", "tutor", "student_viewer"}
    BY <1>1, <2>2 DEF DoorType, Account, FrontDoorAssumption
  <2>4. CASE session.app # {}
    BY <2>1, <2>4 DEF MayAdminister, AppRoles, MayBypass
  <2>5. CASE session.app = {}
    <3>1. "admin" \in SynthesizedRoles(account[session.user].role)
      BY <2>1, <2>5 DEF MayAdminister, AppRoles
    <3>2. account[session.user].role \in {"parent", "co_parent"}
      BY <2>3, <3>1 DEF SynthesizedRoles
    <3>. QED
      BY <2>1, <2>2, <3>2 DEF MayBypass, MemberMayBypass
  <2>. QED
    BY <2>4, <2>5
<1>. QED
  BY <1>2, <1>3 DEF NobodyIsShutOut

\* Nobody is shut out, for any browsers, users, requests and times.
THEOREM NobodyIsShutOutEver ==
    ASSUME FrontDoorAssumption PROVE FrontDoorSpec => []NobodyIsShutOut
<1>1. FrontDoorInit => DoorInv
  BY DoorInvInit
<1>2. DoorInv /\ [FrontDoorNext]_frontDoorVars => DoorInv'
  BY DoorInvNext
<1>3. DoorInv => NobodyIsShutOut
  BY DoorInvImplies
<1>. QED
  BY <1>1, <1>2, <1>3, PTL DEF FrontDoorSpec

-----------------------------------------------------------------------------
(* The school year wizard.                                                 *)

Forms ==
    [step : {"template", "structure", "holidays", "review"}, name : Names \cup {"", "first"},
     first : Nat, last : Nat, auto : BOOLEAN, active : BOOLEAN,
     kind : {"semester", "trimester", "quarter", "custom"}, presets : SUBSET DOMAIN Presets,
     breaks : Seq(Filling), terms : Seq(Filling)]

YearRow == [first : Nat, last : Nat, active : BOOLEAN]

\* What a save keeps; of its terms, its dates and what was reviewed, no more is said here.
SaveRow ==
    [name : Names \cup {"", "first"}, first : Nat, last : Nat, active : BOOLEAN, created : BOOLEAN,
     terms : {saving.terms}, dates : {saving.dates}, reviewed : {saving.reviewed}]

WizardType ==
    /\ form \in Forms
    /\ \A y \in DOMAIN year : year[y] \in YearRow
    /\ IsFiniteSet(DOMAIN term)
    /\ saving # NotSaving => saving \in SaveRow /\ IsFiniteSet(DOMAIN saving.terms)

\* Terms and events are of the years there are, and the events are days off within them.
BelongToYears ==
    /\ \A t \in DOMAIN term : term[t].of \in DOMAIN year
    /\ \A e \in DOMAIN event :
        /\ event[e].of \in DOMAIN year /\ ~event[e].instructional
        /\ Server!Holds(year[event[e].of], event[e].date)

\* The weekdays of a span, less those that are off.
WeekdaysOf(span) == {d \in Weekdays : Server!Holds(span, d)}

Left(span, off) == Cardinality(WeekdaysOf(span)) - Cardinality(off \cap Weekdays)

DatesOf(events) == {e.date : e \in events}

\* Before there is a year, what is to be sent is what was reviewed.
NothingSent ==
    /\ saving.reviewed.terms = Cardinality(DOMAIN saving.terms)
    /\ saving.reviewed.exact => saving.reviewed.days = Left(saving, DatesOf(saving.dates))

\* Afterwards it is what the server has, and what is still to be sent.
PartSent ==
    LET y == saving.name IN
    /\ year[y].first = saving.first /\ year[y].last = saving.last
    /\ saving.reviewed.terms = Cardinality(Server!TermsOf(y)) + Cardinality(DOMAIN saving.terms)
    /\ saving.reviewed.exact =>
        saving.reviewed.days = Left(year[y], Server!Mapped(y) \cup DatesOf(saving.dates))

SavesWhatWasReviewed ==
    saving # NotSaving =>
        /\ ~saving.created => NothingSent
        /\ saving.created => saving.name \notin DOMAIN promised
        /\ (saving.created /\ saving.name \in DOMAIN year) => PartSent

KeepsPromise(y) ==
    /\ y \in DOMAIN year
    /\ promised[y].terms = Cardinality(Server!TermsOf(y))
    /\ promised[y].exact => promised[y].days = Left(year[y], Server!Mapped(y))

WizardInv == WizardType /\ BelongToYears /\ SavesWhatWasReviewed /\ \A y \in DOMAIN promised : KeepsPromise(y)

-----------------------------------------------------------------------------

\* What the assumption says of the dates that a form is filled in with.
LEMMA DatesAreNumbers ==
    ASSUME SchoolYearWizardAssumption
    PROVE  /\ \A span \in Templates : span.first \in Nat /\ span.last \in Nat
           /\ \A d \in Dates \cup {Blank} : d \in Nat
           /\ Draft0 \in Filling /\ Drafts \subseteq Filling /\ Suggestions \subseteq Filling
<1>1. \A span \in Templates : span.first \in Nat /\ span.last \in Nat
  BY DEF SchoolYearWizardAssumption, Server!Spans
<1>2. \A d \in Dates \cup {Blank} : d \in Nat
  BY DEF SchoolYearWizardAssumption, Blank
<1>3. Draft0 \in Filling
  BY DEF Blank, Draft0, Filling
<1>. QED
  BY <1>1, <1>2, <1>3 DEF SchoolYearWizardAssumption

\* createDefaultCustomTerms: the form starts with one term.
LEMMA OneTermIsThere ==
    ASSUME SchoolYearWizardAssumption, NEW span \in Templates
    PROVE  <<[name |-> 1, first |-> span.first, last |-> span.last]>> \in Seq(Filling)
<1>. PICK row : row = [name |-> 1, first |-> span.first, last |-> span.last]
  OBVIOUS
<1>1. row \in Filling
  BY DatesAreNumbers DEF Filling
<1>2. <<row>> \in Seq(Filling)
  BY <1>1
<1>. QED
  BY <1>2

\* The empty form is one.
LEMMA ClearedIsForm ==
    ASSUME SchoolYearWizardAssumption, NEW span \in Templates, NEW active \in BOOLEAN
    PROVE  Cleared(span, active) \in Forms
<1>1. << >> \in Seq(Filling)
  OBVIOUS
<1>. QED
  BY <1>1, DatesAreNumbers, OneTermIsThere DEF Cleared, Forms

\* At first there is no year, no save and no promise.
LEMMA WizardInvInit == ASSUME SchoolYearWizardAssumption, WizardInit PROVE WizardInv
<1>1. DOMAIN << >> = {}
  OBVIOUS
<1>2. /\ DOMAIN term = {} /\ DOMAIN year = {} /\ DOMAIN event = {} /\ DOMAIN promised = {}
      /\ IsFiniteSet(DOMAIN term)
  BY <1>1, FS_EmptySet DEF WizardInit, Server!CalendarInit
<1>3. form \in Forms
  BY ClearedIsForm DEF WizardInit
<1>. QED
  BY <1>2, <1>3 DEF WizardInit, WizardInv, WizardType, BelongToYears, SavesWhatWasReviewed

\* What a promise is about stays when the year, its terms and the dates of its events do.
LEMMA PromisesStay ==
    ASSUME \A y \in DOMAIN promised : KeepsPromise(y),
           \A y \in DOMAIN promised' :
               /\ y \in DOMAIN promised /\ promised'[y] = promised[y] /\ y \in DOMAIN year'
               /\ year'[y].first = year[y].first /\ year'[y].last = year[y].last
               /\ Server!TermsOf(y)' = Server!TermsOf(y) /\ Server!Mapped(y)' = Server!Mapped(y)
    PROVE  (\A y \in DOMAIN promised : KeepsPromise(y))'
<1>. SUFFICES ASSUME NEW y \in DOMAIN promised' PROVE KeepsPromise(y)'
  OBVIOUS
<1>. QED
  BY DEF KeepsPromise, Left, WeekdaysOf, Server!Holds

\* What a person fills in touches neither a save nor the server.
LEMMA FormsChange ==
    ASSUME WizardInv, NEW new \in Forms, NEW message, Display(new, message)
    PROVE  WizardInv'
<1>1. /\ form' \in Forms
      /\ UNCHANGED <<saving, promised, year, term, period, event>>
  BY DEF Display, serverVars
<1>2. WizardType'
  BY <1>1 DEF WizardInv, WizardType, Forms, SaveRow
<1>3. BelongToYears'
  BY <1>1 DEF WizardInv, BelongToYears
<1>4. SavesWhatWasReviewed'
  BY <1>1 DEF WizardInv, SavesWhatWasReviewed, NothingSent, PartSent, Left, WeekdaysOf, Server!Holds, Server!TermsOf, Server!Mapped, Server!EventsOf
<1>5. (\A y \in DOMAIN promised : KeepsPromise(y))'
  <2>. SUFFICES ASSUME NEW y \in DOMAIN promised'
       PROVE  /\ y \in DOMAIN promised /\ promised'[y] = promised[y] /\ y \in DOMAIN year'
              /\ year'[y].first = year[y].first /\ year'[y].last = year[y].last
              /\ Server!TermsOf(y)' = Server!TermsOf(y) /\ Server!Mapped(y)' = Server!Mapped(y)
    BY PromisesStay DEF WizardInv
  <2>. QED
    BY <1>1 DEF WizardInv, KeepsPromise, Server!TermsOf, Server!Mapped, Server!EventsOf
<1>. QED
  BY <1>2, <1>3, <1>4, <1>5 DEF WizardInv

\* Taking one out of a sequence leaves a sequence.
LEMMA RemovedAt ==
    ASSUME NEW S, NEW s \in Seq(S), NEW i \in DOMAIN s PROVE RemoveAt(s, i) \in Seq(S)
  BY DEF RemoveAt

\* Whatever is changed in the form, it stays one.
LEMMA FillingIn ==
    ASSUME SchoolYearWizardAssumption, WizardInv, ChangeForm
    PROVE  WizardInv'
<1>. SUFFICES \E new \in Forms, message \in {told, WithoutError, "", "invalid"} : Display(new, message)
  BY FormsChange
<1>t. form \in Forms
  BY DEF WizardInv, WizardType
<1>s. /\ form.terms \in Seq(Filling) /\ form.breaks \in Seq(Filling)
      /\ form.first \in Nat /\ form.last \in Nat
  BY <1>t DEF Forms
<1>f. ASSUME NEW new, NEW message, Filled(new, message) PROVE Display(new, message)
  BY <1>f DEF Filled
<1>d. /\ \A span \in Templates : span.first \in Nat /\ span.last \in Nat
      /\ \A d \in Dates \cup {Blank} : d \in Nat
      /\ Draft0 \in Filling /\ Drafts \subseteq Filling /\ Suggestions \subseteq Filling
  BY DatesAreNumbers
<1>j. ASSUME NEW j \in 1..4 PROVE [form EXCEPT !.step = Steps[j]] \in Forms
  <2>1. Steps[j] \in {"template", "structure", "holidays", "review"}
    BY DEF Steps
  <2>. QED
    BY <1>t, <2>1 DEF Forms
<1>1. ASSUME NEW span \in Templates, ApplyTemplate(span) PROVE \E new \in Forms : Display(new, "")
  <2>. QED
    BY <1>1, <1>t, <1>f, <1>d, OneTermIsThere DEF ApplyTemplate, Forms
<1>2. ASSUME NEW span \in Templates, NEW active \in BOOLEAN, Reset(span, active)
      PROVE  \E new \in Forms : Display(new, "")
  BY <1>2, <1>f, ClearedIsForm DEF Reset
<1>3. ASSUME NEW n \in Names \cup {""}, SetName(n) PROVE \E new \in Forms : Display(new, "")
  BY <1>3, <1>t, <1>f DEF SetName, Forms
<1>4. ASSUME NEW d \in Dates \cup {Blank}, SetStart(d) \/ SetEnd(d) PROVE \E new \in Forms : Display(new, "")
  <2>1. CASE SetEnd(d)
    BY <2>1, <1>t, <1>f, <1>d DEF SetEnd, Forms
  <2>2. CASE SetStart(d)
    <3>1. PICK last, auto : Filled([form EXCEPT !.first = d, !.last = last, !.auto = auto], "")
                            /\ last \in Nat /\ auto \in BOOLEAN
      <4>1. (d # Blank /\ (form.last = Blank \/ form.auto)) => d + 1 \in Nat
        BY <1>d
      <4>2. form.last \in Nat /\ form.auto \in BOOLEAN
        BY <1>t DEF Forms
      <4>. QED
        BY <2>2, <4>1, <4>2, <1>t DEF SetStart, Forms
    <3>. QED
      BY <3>1, <1>t, <1>f, <1>d DEF Forms
  <2>. QED
    BY <1>4, <2>1, <2>2
<1>5. ASSUME NEW way \in {"semester", "trimester", "quarter", "custom"}, SetKind(way)
      PROVE  \E new \in Forms : Display(new, WithoutError)
  BY <1>5, <1>t, <1>f DEF SetKind, Forms
<1>6. ASSUME NEW i, RemoveTerm(i) \/ RemoveBreak(i) PROVE \E new \in Forms : Display(new, told)
  <2>1. CASE RemoveTerm(i)
    BY <2>1, <1>t, <1>f, RemovedAt DEF RemoveTerm, Forms
  <2>2. CASE RemoveBreak(i)
    BY <2>2, <1>t, <1>f, RemovedAt DEF RemoveBreak, Forms
  <2>. QED
    BY <1>6, <2>1, <2>2
<1>7. ASSUME NEW i, NEW draft \in Drafts, ChangeTerm(i, draft) \/ ChangeBreak(i, draft)
      PROVE  \E new \in Forms : Display(new, told)
  <2>. draft \in Filling
    BY <1>d
  <2>1. CASE ChangeTerm(i, draft)
    <3>1. [form.terms EXCEPT ![i] = draft] \in Seq(Filling)
      BY <2>1, <1>s DEF ChangeTerm
    <3>. QED
      BY <2>1, <3>1, <1>t, <1>f DEF ChangeTerm, Forms
  <2>2. CASE ChangeBreak(i, draft)
    <3>1. [form.breaks EXCEPT ![i] = draft] \in Seq(Filling)
      BY <2>2, <1>s DEF ChangeBreak
    <3>. QED
      BY <2>2, <3>1, <1>t, <1>f DEF ChangeBreak, Forms
  <2>. QED
    BY <1>7, <2>1, <2>2
<1>8. ASSUME NEW p \in DOMAIN Presets, TogglePreset(p) PROVE \E new \in Forms : Display(new, WithoutError)
  BY <1>8, <1>t, <1>f DEF TogglePreset, Forms
<1>9. ASSUME NEW s \in Suggestions \cup {Draft0}, AddBreak(s) PROVE \E new \in Forms : Display(new, told)
  <2>1. s \in Filling
    BY <1>d
  <2>2. Suggested(s) \in Filling
    BY <1>t, <2>1 DEF Suggested, Clamp, Filling, Forms
  <2>3. Append(form.breaks, Suggested(s)) \in Seq(Filling)
    BY <1>s, <2>2
  <2>. QED
    BY <1>9, <1>t, <1>f, <2>3 DEF AddBreak, Forms
<1>10. ASSUME NEW i \in 1..4, NEW j \in 1..4, JumpBack(i, j)
       PROVE  \E new \in Forms, message \in {told, WithoutError} : Display(new, message)
  BY <1>10, <1>j DEF JumpBack, Jump
<1>11. ToggleActive => \E new \in Forms : Display(new, told)
  BY <1>t, <1>f DEF ToggleActive, Forms
<1>12. AddTerm => \E new \in Forms : Display(new, told)
  <2>. SUFFICES ASSUME AddTerm PROVE \E new \in Forms : Display(new, told)
    OBVIOUS
  <2>1. Len(form.terms) \in Nat
    BY <1>s
  <2>2. [name |-> Len(form.terms) + 1, first |-> form.first, last |-> form.last] \in Filling
    BY <1>s, <2>1 DEF Filling
  <2>3. Append(form.terms, [name |-> Len(form.terms) + 1, first |-> form.first, last |-> form.last]) \in Seq(Filling)
    BY <1>s, <2>2
  <2>. QED
    BY <1>t, <1>f, <2>3 DEF AddTerm, Forms
<1>13. GoOn => \E new \in Forms, message \in {"", "invalid"} : Display(new, message)
  <2>1. \A i \in 1..3 : i + 1 \in 1..4
    OBVIOUS
  <2>. SUFFICES ASSUME NEW i \in 1..3,
                       \/ Display([form EXCEPT !.step = Steps[i + 1]], "")
                       \/ Display(form, "invalid")
       PROVE  \E new \in Forms, message \in {"", "invalid"} : Display(new, message)
    BY DEF GoOn
  <2>. PICK j : j = i + 1
    OBVIOUS
  <2>2. [form EXCEPT !.step = Steps[j]] \in Forms
    BY <1>j, <2>1
  <2>. QED
    BY <1>t, <2>2
<1>. QED
  BY <1>1, <1>2, <1>3, <1>4, <1>5, <1>6, <1>7, <1>8, <1>9, <1>10, <1>11, <1>12, <1>13 DEF ChangeForm

\* The server counts as everybody does.
LEMMA SameCount == ASSUME NEW S PROVE Server!Cardinality(S) = Cardinality(S)
  BY DEF Server!Cardinality, Cardinality

\* There are finitely many weekdays between two dates.
LEMMA WeekdaysAreFinite ==
    ASSUME SchoolYearWizardAssumption, NEW span, span.first \in Nat, span.last \in Nat
    PROVE  IsFiniteSet(WeekdaysOf(span))
<1>. PICK first, last : first = span.first /\ last = span.last
  OBVIOUS
<1>1. IsFiniteSet(first..last)
  BY FS_Interval
<1>2. WeekdaysOf(span) \in SUBSET (first..last)
  <2>1. \A d \in Weekdays : d \in Nat
    BY DEF SchoolYearWizardAssumption
  <2>. QED
    BY <2>1 DEF WeekdaysOf, Server!Holds
<1>. QED
  BY <1>1, <1>2, FS_Subset

\* The server's count of the days of a year, as the weekdays of its span that are not off.
LEMMA CountOfDays ==
    ASSUME SchoolYearWizardAssumption, WizardInv, NEW y \in DOMAIN year
    PROVE  Server!DayCount(y).instructional = Left(year[y], Server!Mapped(y))
<1>. PICK off : off = Server!Mapped(y)
  OBVIOUS
<1>. PICK days : days = WeekdaysOf(year[y])
  OBVIOUS
<1>1. IsFiniteSet(days)
  BY WeekdaysAreFinite DEF WizardInv, WizardType, YearRow
<1>2. \A date \in off : ~Server!MappedInstructional(y, date)
  BY DEF WizardInv, BelongToYears, Server!MappedInstructional, Server!EventsOf
<1>3. \A date : Server!Instructional(y, date) <=> date \in Weekdays /\ date \notin off
  BY <1>2 DEF Server!Instructional
<1>4. {date \in {date \in Dates : Server!Holds(year[y], date)} : Server!Instructional(y, date)} = days \ off
  BY <1>3 DEF WeekdaysOf, SchoolYearWizardAssumption
<1>5. days \cap off = off \cap Weekdays
  <2>1. ASSUME NEW date \in off PROVE Server!Holds(year[y], date)
    BY DEF WizardInv, BelongToYears, Server!Mapped, Server!EventsOf
  <2>. QED
    BY <2>1 DEF WeekdaysOf
<1>6. Cardinality(days \ off) = Cardinality(days) - Cardinality(days \cap off)
  BY <1>1, FS_Difference
<1>7. Server!DayCount(y).instructional = Cardinality(days \ off)
  <2>1. Server!DayCount(y).instructional
        = Cardinality({date \in {date \in Dates : Server!Holds(year[y], date)} : Server!Instructional(y, date)})
    BY SameCount DEF Server!DayCount
  <2>. QED
    BY <1>4, <2>1
<1>. QED
  BY <1>5, <1>6, <1>7 DEF Left

\* The terms that follow from a form are finitely many.
LEMMA GeneratedIsFinite ==
    ASSUME form \in Forms PROVE IsFiniteSet(DOMAIN Generated(form))
<1>1. CASE ~IsRange(form)
  <2>1. DOMAIN << >> = {}
    OBVIOUS
  <2>. QED
    BY <1>1, <2>1, FS_EmptySet DEF Generated
<1>2. CASE IsRange(form) /\ form.kind = "custom"
  <2>1. DOMAIN form.terms = 1..Len(form.terms) /\ Len(form.terms) \in Nat
    <3>1. form.terms \in Seq(Filling)
      BY DEF Forms
    <3>. QED
      BY <3>1
  <2>2. IsFiniteSet(DOMAIN form.terms)
    BY <2>1, FS_Interval
  <2>3. DOMAIN Generated(form) \in SUBSET DOMAIN form.terms
    BY <1>2 DEF Generated
  <2>. QED
    BY <2>2, <2>3, FS_Subset
<1>3. CASE IsRange(form) /\ form.kind # "custom"
  <2>1. Segments(form.kind) \in Int
    <3>1. form.kind \in {"semester", "trimester", "quarter"}
      BY <1>3 DEF Forms
    <3>. QED
      BY <3>1 DEF Segments
  <2>2. DOMAIN Generated(form) = 1..Segments(form.kind)
    BY <1>3 DEF Generated
  <2>. QED
    BY <2>1, <2>2, FS_Interval
<1>. QED
  BY <1>1, <1>2, <1>3

\* A save starts with what was reviewed.
LEMMA SavesStart == ASSUME SchoolYearWizardAssumption, WizardInv, StartSave PROVE WizardInv'
<1>1. form \in Forms /\ UNCHANGED <<form, promised, year, term, period, event>>
  BY DEF WizardInv, WizardType, StartSave, serverVars
<1>2. /\ saving'.name = form.name /\ saving'.first = form.first /\ saving'.last = form.last
      /\ saving'.active = form.active /\ saving'.created = FALSE
      /\ saving'.terms = Generated(form) /\ saving'.dates = DaysOff(form)
      /\ saving'.reviewed.terms = Cardinality(DOMAIN Generated(form))
      /\ saving'.reviewed.days = Preview(form)
      /\ saving'.reviewed.exact = (DaysFrom(form.first, form.last) = form.last - form.first + 1)
  BY DEF StartSave
<1>3. saving' \in SaveRow'
  BY <1>1 DEF StartSave, SaveRow, Forms
<1>4. WizardType'
  BY <1>1, <1>2, <1>3, GeneratedIsFinite DEF WizardInv, WizardType
<1>5. BelongToYears'
  BY <1>1 DEF WizardInv, BelongToYears
<1>6. NothingSent'
  <2>1. ASSUME DaysFrom(form.first, form.last) = form.last - form.first + 1
        PROVE  Enumerated(form.first, form.last) \cap Weekdays = WeekdaysOf(form)
    <3>. PICK first, last : first = form.first /\ last = form.last
      OBVIOUS
    <3>1. first \in Nat /\ last \in Nat
      BY <1>1 DEF Forms
    <3>2. first + (last - first + 1) - 1 = last
      BY <3>1
    <3>3. Enumerated(first, last) = first..last
      BY <2>1, <3>2 DEF Enumerated
    <3>4. \A d \in Weekdays : d \in Nat
      BY DEF SchoolYearWizardAssumption
    <3>. QED
      BY <3>1, <3>3, <3>4 DEF WeekdaysOf, Server!Holds
  <2>2. WeekdaysOf(saving)' = WeekdaysOf(form)
    BY <1>2 DEF WeekdaysOf, Server!Holds
  <2>. QED
    BY <1>2, <2>1, <2>2 DEF NothingSent, Preview, Left, DatesOf
<1>7. SavesWhatWasReviewed'
  BY <1>2, <1>6 DEF SavesWhatWasReviewed
<1>8. (\A y \in DOMAIN promised : KeepsPromise(y))'
  <2>. SUFFICES ASSUME NEW y \in DOMAIN promised'
       PROVE  /\ y \in DOMAIN promised /\ promised'[y] = promised[y] /\ y \in DOMAIN year'
              /\ year'[y].first = year[y].first /\ year'[y].last = year[y].last
              /\ Server!TermsOf(y)' = Server!TermsOf(y) /\ Server!Mapped(y)' = Server!Mapped(y)
    BY PromisesStay DEF WizardInv
  <2>. QED
    BY <1>1 DEF WizardInv, KeepsPromise, Server!TermsOf, Server!Mapped, Server!EventsOf
<1>. QED
  BY <1>4, <1>5, <1>7, <1>8 DEF WizardInv

\* A save that ends leaves the form and the promises as they are.
LEMMA SendingChanges ==
    ASSUME NEW answered, NEW next, Sent(answered, next)
    PROVE  /\ UNCHANGED <<form, promised>>
           /\ saving' = NotSaving \/ saving' = next
  BY DEF Sent, StopSaving

\* The request for the year: the server has nothing of it yet, and all is still to be sent.
LEMMA YearsAreSent ==
    ASSUME SchoolYearWizardAssumption, WizardInv, NEW answered, CreateYear(answered)
    PROVE  WizardInv'
<1>. PICK y : y = saving.name
  OBVIOUS
<1>. PICK row : row = [first |-> saving.first, last |-> saving.last, active |-> saving.active]
  OBVIOUS
<1>1. /\ saving # NotSaving /\ ~saving.created /\ saving \in SaveRow /\ IsFiniteSet(DOMAIN saving.terms)
      /\ NothingSent
  BY DEF WizardInv, WizardType, SavesWhatWasReviewed, CreateYear
<1>2. /\ y \notin DOMAIN year /\ UNCHANGED <<term, period, event>>
      /\ year' = Server!Saved(y, row)
  BY DEF CreateYear, Server!CreateYear
<1>3. /\ UNCHANGED <<form, promised>>
      /\ saving' = NotSaving \/ saving' = [saving EXCEPT !.created = TRUE]
  BY SendingChanges DEF CreateYear
<1>4. row \in YearRow
  BY <1>1 DEF SaveRow, YearRow
<1>5. DOMAIN year' = DOMAIN year \cup {y} /\ year'[y] = row
  BY <1>2 DEF Server!Saved
<1>6. ASSUME NEW z \in DOMAIN year
      PROVE  year'[z] \in YearRow /\ year'[z].first = year[z].first /\ year'[z].last = year[z].last
  <2>1. year'[z] = [year[z] EXCEPT !.active = @ /\ ~row.active]
    BY <1>2 DEF Server!Saved
  <2>2. year[z] \in YearRow
    BY DEF WizardInv, WizardType
  <2>. QED
    BY <2>1, <2>2, <1>4 DEF YearRow
<1>7. ASSUME saving' # NotSaving
      PROVE  /\ saving' \in SaveRow' /\ saving'.created /\ saving'.name = y
             /\ saving'.first = saving.first /\ saving'.last = saving.last
             /\ saving'.terms = saving.terms /\ saving'.dates = saving.dates /\ saving'.reviewed = saving.reviewed
  BY <1>1, <1>3, <1>7 DEF SaveRow
<1>8. WizardType'
  BY <1>1, <1>2, <1>3, <1>4, <1>5, <1>6, <1>7 DEF WizardInv, WizardType
<1>9. BelongToYears'
  BY <1>2, <1>5, <1>6 DEF WizardInv, BelongToYears, Server!Holds
<1>10. SavesWhatWasReviewed'
  <2>. SUFFICES ASSUME saving' # NotSaving PROVE y \notin DOMAIN promised /\ PartSent'
    BY <1>3, <1>7 DEF SavesWhatWasReviewed
  <2>1. y \notin DOMAIN promised
    BY <1>2 DEF WizardInv, KeepsPromise
  <2>2. Server!TermsOf(y)' = {} /\ Server!Mapped(y)' = {}
    BY <1>2 DEF WizardInv, BelongToYears, Server!TermsOf, Server!Mapped, Server!EventsOf
  <2>3. Cardinality({}) = 0 /\ Cardinality(DOMAIN saving.terms) \in Nat
    BY <1>1, FS_EmptySet, FS_CardinalityType
  <2>4. WeekdaysOf(year'[y]) = WeekdaysOf(saving)
    BY <1>5 DEF WeekdaysOf, Server!Holds
  <2>5. {} \cup DatesOf(saving.dates) = DatesOf(saving.dates)
    OBVIOUS
  <2>6. Left(year'[y], {} \cup DatesOf(saving.dates)) = Left(saving, DatesOf(saving.dates))
    BY <2>4, <2>5 DEF Left
  <2>7. saving.reviewed.terms = Cardinality({}) + Cardinality(DOMAIN saving.terms)
    BY <1>1, <2>3 DEF NothingSent
  <2>8. saving.reviewed.exact => saving.reviewed.days = Left(year'[y], {} \cup DatesOf(saving.dates))
    BY <1>1, <2>6 DEF NothingSent
  <2>9. DatesOf(saving'.dates) = DatesOf(saving.dates) /\ saving'.name = y
    BY <1>7
  <2>10. /\ year'[y].first = saving'.first /\ year'[y].last = saving'.last
         /\ saving'.reviewed.terms = Cardinality(Server!TermsOf(y)') + Cardinality(DOMAIN saving'.terms)
         /\ saving'.reviewed.exact =>
                saving'.reviewed.days = Left(year'[y], Server!Mapped(y)' \cup DatesOf(saving'.dates))
    BY <1>5, <1>7, <2>2, <2>7, <2>8, <2>9
  <2>. QED
    BY <2>1, <2>9, <2>10 DEF PartSent
<1>11. (\A z \in DOMAIN promised : KeepsPromise(z))'
  <2>. SUFFICES ASSUME NEW z \in DOMAIN promised'
       PROVE  /\ z \in DOMAIN promised /\ promised'[z] = promised[z] /\ z \in DOMAIN year'
              /\ year'[z].first = year[z].first /\ year'[z].last = year[z].last
              /\ Server!TermsOf(z)' = Server!TermsOf(z) /\ Server!Mapped(z)' = Server!Mapped(z)
    BY PromisesStay DEF WizardInv
  <2>1. z \in DOMAIN promised /\ promised'[z] = promised[z] /\ z \in DOMAIN year
    BY <1>3 DEF WizardInv, KeepsPromise
  <2>. QED
    BY <2>1, <1>2, <1>5, <1>6 DEF Server!TermsOf, Server!Mapped, Server!EventsOf
<1>. QED
  BY <1>8, <1>9, <1>10, <1>11 DEF WizardInv

\* The request for a term: the server has one more, and one less is to be sent.
LEMMA TermsAreSent ==
    ASSUME SchoolYearWizardAssumption, WizardInv, NEW answered, CreateTerm(answered)
    PROVE  WizardInv'
<1>. PICK y : y = saving.name
  OBVIOUS
<1>1. /\ saving # NotSaving /\ saving.created /\ saving \in SaveRow /\ IsFiniteSet(DOMAIN saving.terms)
      /\ y \notin DOMAIN promised
  BY DEF WizardInv, WizardType, SavesWhatWasReviewed, CreateTerm
<1>. PICK i \in DOMAIN saving.terms :
        /\ Server!CreateTerm(<<y, saving.terms[i].name>>, y, saving.terms[i])
        /\ Sent(answered, [saving EXCEPT !.terms = Server!Drop(@, {i})])
  BY DEF CreateTerm
<1>. PICK t : t = <<y, saving.terms[i].name>>
  OBVIOUS
<1>2. /\ y \in DOMAIN year /\ t \notin DOMAIN term /\ UNCHANGED <<year, period, event>>
      /\ term' = Server!Put(term, t, [of |-> y, first |-> saving.terms[i].first, last |-> saving.terms[i].last])
  BY DEF Server!CreateTerm
<1>3. /\ UNCHANGED <<form, promised>>
      /\ saving' = NotSaving \/ saving' = [saving EXCEPT !.terms = Server!Drop(@, {i})]
  BY SendingChanges
<1>4. /\ DOMAIN term' = DOMAIN term \cup {t} /\ term'[t].of = y
      /\ \A u \in DOMAIN term : term'[u] = term[u]
  BY <1>2 DEF Server!Put
<1>5. ASSUME saving' # NotSaving
      PROVE  /\ saving' \in SaveRow' /\ saving'.created /\ saving'.name = y
             /\ saving'.first = saving.first /\ saving'.last = saving.last
             /\ DOMAIN saving'.terms = DOMAIN saving.terms \ {i}
             /\ saving'.dates = saving.dates /\ saving'.reviewed = saving.reviewed
  <2>. PICK rest : rest = Server!Drop(saving.terms, {i})
    OBVIOUS
  <2>1. saving' = [saving EXCEPT !.terms = rest]
    BY <1>3, <1>5
  <2>2. DOMAIN rest = DOMAIN saving.terms \ {i}
    BY DEF Server!Drop
  <2>. QED
    BY <1>1, <2>1, <2>2 DEF SaveRow
<1>6. WizardType'
  <2>1. IsFiniteSet(DOMAIN term')
    BY <1>4, FS_AddElement DEF WizardInv, WizardType
  <2>2. saving' # NotSaving => saving' \in SaveRow' /\ IsFiniteSet(DOMAIN saving'.terms)
    BY <1>1, <1>5, FS_RemoveElement
  <2>. QED
    BY <1>2, <1>3, <2>1, <2>2 DEF WizardInv, WizardType
<1>7. BelongToYears'
  BY <1>2, <1>4 DEF WizardInv, BelongToYears
<1>8. SavesWhatWasReviewed'
  <2>. SUFFICES ASSUME saving' # NotSaving PROVE PartSent'
    BY <1>1, <1>3, <1>5 DEF SavesWhatWasReviewed
  <2>. PICK had, has : had = Server!TermsOf(y) /\ has = Server!TermsOf(y)'
    OBVIOUS
  <2>1. has = had \cup {t} /\ t \notin had
    BY <1>2, <1>4 DEF Server!TermsOf
  <2>2. IsFiniteSet(had)
    BY FS_Subset DEF WizardInv, WizardType, Server!TermsOf
  <2>3. Cardinality(has) = Cardinality(had) + 1 /\ Cardinality(had) \in Nat
    <3>1. Cardinality(had \cup {t}) = Cardinality(had) + 1
      BY <2>1, <2>2, FS_AddElement
    <3>. QED
      BY <2>1, <2>2, <3>1, FS_CardinalityType
  <2>4. /\ Cardinality(DOMAIN saving.terms \ {i}) = Cardinality(DOMAIN saving.terms) - 1
        /\ Cardinality(DOMAIN saving.terms) \in Nat
    BY <1>1, FS_RemoveElement, FS_CardinalityType
  <2>5. /\ year[y].first = saving.first /\ year[y].last = saving.last
        /\ saving.reviewed.terms = Cardinality(had) + Cardinality(DOMAIN saving.terms)
        /\ saving.reviewed.exact =>
               saving.reviewed.days = Left(year[y], Server!Mapped(y) \cup DatesOf(saving.dates))
    BY <1>1, <1>2 DEF WizardInv, SavesWhatWasReviewed, PartSent
  <2>6. saving'.reviewed.terms = Cardinality(has) + Cardinality(DOMAIN saving'.terms)
    <3>. PICK n, rest : n = Cardinality(had) /\ rest = Cardinality(DOMAIN saving.terms)
      OBVIOUS
    <3>1. Cardinality(DOMAIN saving'.terms) = rest - 1 /\ Cardinality(has) = n + 1
      BY <1>5, <2>3, <2>4
    <3>2. n + rest = (n + 1) + (rest - 1)
      BY <2>3, <2>4
    <3>. QED
      BY <1>5, <2>5, <3>1, <3>2
  <2>7. Server!Mapped(y)' = Server!Mapped(y)
    BY <1>2 DEF Server!Mapped, Server!EventsOf
  <2>8. /\ year'[y].first = saving'.first /\ year'[y].last = saving'.last
        /\ saving'.reviewed.exact =>
               saving'.reviewed.days = Left(year'[y], Server!Mapped(y)' \cup DatesOf(saving'.dates))
    BY <1>2, <1>5, <2>5, <2>7
  <2>. QED
    BY <1>5, <2>6, <2>8 DEF PartSent
<1>9. (\A z \in DOMAIN promised : KeepsPromise(z))'
  <2>. SUFFICES ASSUME NEW z \in DOMAIN promised'
       PROVE  /\ z \in DOMAIN promised /\ promised'[z] = promised[z] /\ z \in DOMAIN year'
              /\ year'[z].first = year[z].first /\ year'[z].last = year[z].last
              /\ Server!TermsOf(z)' = Server!TermsOf(z) /\ Server!Mapped(z)' = Server!Mapped(z)
    BY PromisesStay DEF WizardInv
  <2>1. z \in DOMAIN promised /\ promised'[z] = promised[z] /\ z \in DOMAIN year /\ z # y
    BY <1>1, <1>3 DEF WizardInv, KeepsPromise
  <2>. QED
    BY <2>1, <1>2, <1>4 DEF Server!TermsOf, Server!Mapped, Server!EventsOf
<1>. QED
  BY <1>6, <1>7, <1>8, <1>9 DEF WizardInv

\* The request for a day off: the server has its date, which is not to be sent any more.
LEMMA EventsAreSent ==
    ASSUME SchoolYearWizardAssumption, WizardInv, NEW answered, CreateEvent(answered)
    PROVE  WizardInv'
<1>. PICK y : y = saving.name
  OBVIOUS
<1>1. /\ saving # NotSaving /\ saving.created /\ saving \in SaveRow /\ IsFiniteSet(DOMAIN saving.terms)
      /\ y \notin DOMAIN promised
  BY DEF WizardInv, WizardType, SavesWhatWasReviewed, CreateEvent
<1>. PICK e \in saving.dates :
        /\ Server!CreateEvent(<<y, e.date, e.name>>, y, e.date, FALSE)
        /\ Sent(answered, [saving EXCEPT !.dates = @ \ {e}])
  BY DEF CreateEvent
<1>. PICK id : id = <<y, e.date, e.name>>
  OBVIOUS
<1>2. /\ y \in DOMAIN year /\ id \notin DOMAIN event /\ Server!Holds(year[y], e.date)
      /\ UNCHANGED <<year, term, period>>
      /\ event' = Server!Put(event, id, [of |-> y, date |-> e.date, instructional |-> FALSE])
  BY DEF Server!CreateEvent
<1>3. /\ UNCHANGED <<form, promised>>
      /\ saving' = NotSaving \/ saving' = [saving EXCEPT !.dates = @ \ {e}]
  BY SendingChanges
<1>4. /\ DOMAIN event' = DOMAIN event \cup {id}
      /\ event'[id].of = y /\ event'[id].date = e.date /\ event'[id].instructional = FALSE
      /\ \A f \in DOMAIN event : event'[f] = event[f]
  BY <1>2 DEF Server!Put
<1>5. ASSUME saving' # NotSaving
      PROVE  /\ saving' \in SaveRow' /\ saving'.created /\ saving'.name = y
             /\ saving'.first = saving.first /\ saving'.last = saving.last
             /\ saving'.terms = saving.terms /\ saving'.dates = saving.dates \ {e}
             /\ saving'.reviewed = saving.reviewed
  BY <1>1, <1>3, <1>5 DEF SaveRow
<1>6. WizardType'
  BY <1>1, <1>2, <1>3, <1>5 DEF WizardInv, WizardType
<1>7. BelongToYears'
  BY <1>2, <1>4 DEF WizardInv, BelongToYears
<1>8. Server!Mapped(y)' = Server!Mapped(y) \cup {e.date}
  <2>1. Server!EventsOf(y)' = Server!EventsOf(y) \cup {id} /\ \A f \in Server!EventsOf(y) : event'[f] = event[f]
    BY <1>4 DEF Server!EventsOf
  <2>. QED
    BY <1>4, <2>1 DEF Server!Mapped
<1>9. SavesWhatWasReviewed'
  <2>. SUFFICES ASSUME saving' # NotSaving PROVE PartSent'
    BY <1>1, <1>3, <1>5 DEF SavesWhatWasReviewed
  <2>1. /\ year[y].first = saving.first /\ year[y].last = saving.last
        /\ saving.reviewed.terms = Cardinality(Server!TermsOf(y)) + Cardinality(DOMAIN saving.terms)
        /\ saving.reviewed.exact =>
               saving.reviewed.days = Left(year[y], Server!Mapped(y) \cup DatesOf(saving.dates))
    BY <1>1, <1>2 DEF WizardInv, SavesWhatWasReviewed, PartSent
  <2>2. Server!Mapped(y)' \cup DatesOf(saving'.dates) = Server!Mapped(y) \cup DatesOf(saving.dates)
    BY <1>5, <1>8 DEF DatesOf
  <2>3. Server!TermsOf(y)' = Server!TermsOf(y)
    BY <1>2 DEF Server!TermsOf
  <2>4. /\ year'[y].first = saving'.first /\ year'[y].last = saving'.last
        /\ saving'.reviewed.terms = Cardinality(Server!TermsOf(y)') + Cardinality(DOMAIN saving'.terms)
        /\ saving'.reviewed.exact =>
               saving'.reviewed.days = Left(year'[y], Server!Mapped(y)' \cup DatesOf(saving'.dates))
    BY <1>2, <1>5, <2>1, <2>2, <2>3
  <2>. QED
    BY <1>5, <2>4 DEF PartSent
<1>10. (\A z \in DOMAIN promised : KeepsPromise(z))'
  <2>. SUFFICES ASSUME NEW z \in DOMAIN promised'
       PROVE  /\ z \in DOMAIN promised /\ promised'[z] = promised[z] /\ z \in DOMAIN year'
              /\ year'[z].first = year[z].first /\ year'[z].last = year[z].last
              /\ Server!TermsOf(z)' = Server!TermsOf(z) /\ Server!Mapped(z)' = Server!Mapped(z)
    BY PromisesStay DEF WizardInv
  <2>1. z \in DOMAIN promised /\ promised'[z] = promised[z] /\ z \in DOMAIN year /\ z # y
    BY <1>1, <1>3 DEF WizardInv, KeepsPromise
  <2>2. Server!EventsOf(z)' = Server!EventsOf(z) /\ \A f \in Server!EventsOf(z) : event'[f] = event[f]
    BY <2>1, <1>4 DEF Server!EventsOf
  <2>3. Server!Mapped(z)' = Server!Mapped(z)
    BY <2>2 DEF Server!Mapped
  <2>. QED
    BY <2>1, <2>3, <1>2 DEF Server!TermsOf
<1>. QED
  BY <1>6, <1>7, <1>9, <1>10 DEF WizardInv

\* A request that fails ends the save.
LEMMA SavesFail == ASSUME WizardInv, Fail PROVE WizardInv'
<1>1. /\ saving' = NotSaving
      /\ UNCHANGED <<form, promised, year, term, period, event>>
  BY DEF Fail, StopSaving, serverVars
<1>2. WizardType'
  BY <1>1 DEF WizardInv, WizardType
<1>3. BelongToYears'
  BY <1>1 DEF WizardInv, BelongToYears
<1>4. SavesWhatWasReviewed'
  BY <1>1 DEF SavesWhatWasReviewed
<1>5. (\A y \in DOMAIN promised : KeepsPromise(y))'
  <2>. SUFFICES ASSUME NEW y \in DOMAIN promised'
       PROVE  /\ y \in DOMAIN promised /\ promised'[y] = promised[y] /\ y \in DOMAIN year'
              /\ year'[y].first = year[y].first /\ year'[y].last = year[y].last
              /\ Server!TermsOf(y)' = Server!TermsOf(y) /\ Server!Mapped(y)' = Server!Mapped(y)
    BY PromisesStay DEF WizardInv
  <2>. QED
    BY <1>1 DEF WizardInv, KeepsPromise, Server!TermsOf, Server!Mapped, Server!EventsOf
<1>. QED
  BY <1>2, <1>3, <1>4, <1>5 DEF WizardInv

\* Nothing is left to be sent when a year is said to be ready, so it is as it was reviewed.
LEMMA ReadyIsSaid ==
    ASSUME SchoolYearWizardAssumption, WizardInv, NEW span \in Templates, SayReady(span)
    PROVE  WizardInv'
<1>. PICK y : y = saving.name
  OBVIOUS
<1>1. /\ saving # NotSaving /\ saving.created /\ DOMAIN saving.terms = {} /\ saving.dates = {}
      /\ saving' = NotSaving /\ form' = Cleared(span, FALSE)
      /\ promised' = IF y \in DOMAIN year THEN Server!Put(promised, y, saving.reviewed) ELSE promised
      /\ UNCHANGED <<year, term, period, event>>
  BY DEF SayReady, serverVars
<1>2. WizardType'
  BY <1>1, ClearedIsForm DEF WizardInv, WizardType
<1>3. BelongToYears'
  BY <1>1 DEF WizardInv, BelongToYears
<1>4. SavesWhatWasReviewed'
  BY <1>1 DEF SavesWhatWasReviewed
<1>5. ASSUME NEW z PROVE Server!TermsOf(z)' = Server!TermsOf(z) /\ Server!Mapped(z)' = Server!Mapped(z)
  BY <1>1 DEF Server!TermsOf, Server!Mapped, Server!EventsOf
<1>6. (\A z \in DOMAIN promised : KeepsPromise(z))'
  <2>. SUFFICES ASSUME NEW z \in DOMAIN promised'
       PROVE  /\ z \in DOMAIN year
              /\ promised'[z].terms = Cardinality(Server!TermsOf(z))
              /\ promised'[z].exact => promised'[z].days = Left(year[z], Server!Mapped(z))
    BY <1>1, <1>5 DEF KeepsPromise
  <2>1. CASE z = y /\ y \in DOMAIN year
    <3>1. promised'[y] = saving.reviewed
      BY <1>1, <2>1 DEF Server!Put
    <3>2. /\ saving.reviewed.terms = Cardinality(Server!TermsOf(y)) + Cardinality({})
          /\ saving.reviewed.exact =>
                 saving.reviewed.days = Left(year[y], Server!Mapped(y) \cup DatesOf({}))
      BY <1>1, <2>1 DEF WizardInv, SavesWhatWasReviewed, PartSent
    <3>3. Server!Mapped(y) \cup DatesOf({}) = Server!Mapped(y)
      BY DEF DatesOf
    <3>4. IsFiniteSet(Server!TermsOf(y))
      BY FS_Subset DEF WizardInv, WizardType, Server!TermsOf
    <3>5. Cardinality(Server!TermsOf(y)) \in Nat /\ Cardinality({}) = 0
      BY <3>4, FS_CardinalityType, FS_EmptySet
    <3>6. saving.reviewed.terms = Cardinality(Server!TermsOf(y))
      BY <3>2, <3>5
    <3>. QED
      BY <2>1, <3>1, <3>2, <3>3, <3>6
  <2>2. CASE ~(z = y /\ y \in DOMAIN year)
    <3>1. z \in DOMAIN promised /\ promised'[z] = promised[z]
      BY <1>1, <2>2 DEF Server!Put
    <3>. QED
      BY <3>1 DEF WizardInv, KeepsPromise
  <2>. QED
    BY <2>1, <2>2
<1>. QED
  BY <1>2, <1>3, <1>4, <1>6 DEF WizardInv

\* A year that is deleted takes its terms, its events and its promise with it, and no others.
LEMMA YearsAreLost ==
    ASSUME SchoolYearWizardAssumption, WizardInv, NEW y, LoseYear(y) PROVE WizardInv'
<1>1. /\ UNCHANGED <<form, saving>>
      /\ promised' = Server!Drop(promised, {y})
      /\ year' = Server!Drop(year, {y})
      /\ term' = Server!Drop(term, Server!TermsOf(y))
      /\ event' = Server!Drop(event, Server!EventsOf(y))
  BY DEF LoseYear, Server!DeleteYear
<1>2. /\ DOMAIN promised' = DOMAIN promised \ {y} /\ DOMAIN year' = DOMAIN year \ {y}
      /\ \A z \in DOMAIN promised' : promised'[z] = promised[z]
      /\ \A z \in DOMAIN year' : year'[z] = year[z]
  BY <1>1 DEF Server!Drop
<1>3. /\ DOMAIN term' = {t \in DOMAIN term : term[t].of # y}
      /\ \A t \in DOMAIN term' : term'[t] = term[t]
      /\ DOMAIN event' = {e \in DOMAIN event : event[e].of # y}
      /\ \A e \in DOMAIN event' : event'[e] = event[e]
  BY <1>1 DEF Server!Drop, Server!TermsOf, Server!EventsOf
<1>4. ASSUME NEW z, z # y PROVE Server!TermsOf(z)' = Server!TermsOf(z) /\ Server!Mapped(z)' = Server!Mapped(z)
  <2>1. Server!TermsOf(z)' = Server!TermsOf(z)
    BY <1>3, <1>4 DEF Server!TermsOf
  <2>2. Server!EventsOf(z)' = Server!EventsOf(z) /\ \A e \in Server!EventsOf(z) : event'[e] = event[e]
    BY <1>3, <1>4 DEF Server!EventsOf
  <2>. QED
    BY <2>1, <2>2 DEF Server!Mapped
<1>5. WizardType'
  <2>1. IsFiniteSet(DOMAIN term')
    BY <1>3, FS_Subset DEF WizardInv, WizardType
  <2>. QED
    BY <1>1, <1>2, <2>1 DEF WizardInv, WizardType, SaveRow
<1>6. BelongToYears'
  BY <1>2, <1>3 DEF WizardInv, BelongToYears
<1>7. SavesWhatWasReviewed'
  <2>. SUFFICES ASSUME saving # NotSaving
       PROVE  /\ ~saving.created => NothingSent'
              /\ saving.created => saving.name \notin DOMAIN promised'
              /\ (saving.created /\ saving.name \in DOMAIN year') => PartSent'
    BY <1>1 DEF SavesWhatWasReviewed
  <2>1. ~saving.created => NothingSent'
    BY <1>1 DEF WizardInv, SavesWhatWasReviewed, NothingSent, Left, WeekdaysOf, Server!Holds
  <2>2. saving.created => saving.name \notin DOMAIN promised'
    BY <1>2 DEF WizardInv, SavesWhatWasReviewed
  <2>3. ASSUME saving.created, saving.name \in DOMAIN year' PROVE PartSent'
    <3>. PICK z : z = saving.name
      OBVIOUS
    <3>1. z # y /\ z \in DOMAIN year /\ year'[z] = year[z]
      BY <1>2, <2>3
    <3>2. /\ year[z].first = saving.first /\ year[z].last = saving.last
          /\ saving.reviewed.terms = Cardinality(Server!TermsOf(z)) + Cardinality(DOMAIN saving.terms)
          /\ saving.reviewed.exact =>
                 saving.reviewed.days = Left(year[z], Server!Mapped(z) \cup DatesOf(saving.dates))
      BY <2>3, <3>1 DEF WizardInv, SavesWhatWasReviewed, PartSent
    <3>3. Server!TermsOf(z)' = Server!TermsOf(z) /\ Server!Mapped(z)' = Server!Mapped(z)
      BY <1>4, <3>1
    <3>. QED
      BY <1>1, <3>1, <3>2, <3>3 DEF PartSent
  <2>. QED
    BY <2>1, <2>2, <2>3
<1>8. (\A z \in DOMAIN promised : KeepsPromise(z))'
  <2>. SUFFICES ASSUME NEW z \in DOMAIN promised'
       PROVE  /\ z \in DOMAIN promised /\ promised'[z] = promised[z] /\ z \in DOMAIN year'
              /\ year'[z].first = year[z].first /\ year'[z].last = year[z].last
              /\ Server!TermsOf(z)' = Server!TermsOf(z) /\ Server!Mapped(z)' = Server!Mapped(z)
    BY PromisesStay DEF WizardInv
  <2>1. z \in DOMAIN promised /\ z # y /\ promised'[z] = promised[z] /\ z \in DOMAIN year
    BY <1>2 DEF WizardInv, KeepsPromise
  <2>. QED
    BY <2>1, <1>2, <1>4
<1>. QED
  BY <1>5, <1>6, <1>7, <1>8 DEF WizardInv

\* Every step of the wizard keeps the invariant.
LEMMA WizardInvNext ==
    ASSUME SchoolYearWizardAssumption, WizardInv, [WizardNext]_wizardVars PROVE WizardInv'
<1>1. CASE ChangeForm
  BY <1>1, FillingIn
<1>2. CASE StartSave \/ Fail
  BY <1>2, SavesStart, SavesFail
<1>3. CASE \E answered \in BOOLEAN : CreateYear(answered) \/ CreateTerm(answered) \/ CreateEvent(answered)
  BY <1>3, YearsAreSent, TermsAreSent, EventsAreSent
<1>4. CASE \E span \in Templates : SayReady(span)
  BY <1>4, ReadyIsSaid
<1>5. CASE \E y \in Names : LoseYear(y)
  BY <1>5, YearsAreLost
<1>6. CASE UNCHANGED wizardVars
  <2>1. Display(form, told)
    BY <1>6 DEF wizardVars, Display, serverVars
  <2>. QED
    BY <2>1, FormsChange DEF WizardInv, WizardType
<1>. QED
  BY <1>1, <1>2, <1>3, <1>4, <1>5, <1>6 DEF WizardNext

\* A year that is told to be ready is as it was reviewed, whatever the form, its dates and
\* the clocks are, and however many saves fail before, between and after.
THEOREM ReadyYearsAreAsReviewed ==
    ASSUME SchoolYearWizardAssumption PROVE WizardSpec => []ReadyIsAsReviewed
<1>1. WizardInit => WizardInv
  BY WizardInvInit
<1>2. WizardInv /\ [WizardNext]_wizardVars => WizardInv'
  BY WizardInvNext
<1>3. WizardInv => ReadyIsAsReviewed
  BY CountOfDays DEF WizardInv, KeepsPromise, ReadyIsAsReviewed
<1>. QED
  BY <1>1, <1>2, <1>3, PTL DEF WizardSpec
===============================================================================
