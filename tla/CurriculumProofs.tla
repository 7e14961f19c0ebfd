-------------------------- MODULE CurriculumProofs --------------------------
(***************************************************************************)
(* Proofs about the curriculum: the files of the resources                 *)
(* (CurriculumPackages), and the page that imports a curriculum            *)
(* (CurriculumWizard).                                                     *)
(***************************************************************************)
EXTENDS CurriculumPackages, CurriculumWizard, TLAPS

-----------------------------------------------------------------------------
(* The files of the resources. *)

Creating   == [doing : {"creating"}, name : Resources, type : Types, file : Files \cup {NoFile}]
Deleting   == [doing : {"deleting"}, file : Files \cup {NoFile}]

\* The resources and the requests that have a file in their hands.
PackagesType ==
    /\ resource \in [DOMAIN resource -> [type : Types, file : Files \cup {NoFile}]]
    /\ client = [t \in Requests |-> client[t]]
    /\ \A t \in Requests :
          /\ client[t].doing = "creating" => client[t] \in Creating
          /\ client[t].doing = "deleting" => client[t] \in Deleting

\* What a request is about to write is whole.
CreatesWhole ==
    \A t \in Requests : client[t].doing = "creating" /\ client[t].type = "file" => client[t].file # NoFile

\* A request that stored a file, or is about to remove one, is alone with it: the
\* file is on disk, of no resource and of no other request.
Carries(t) == client[t].doing \in {"creating", "deleting"} /\ client[t].file # NoFile

CarriedIsOwn ==
    \A t \in Requests : Carries(t) =>
        /\ client[t].file \in disk
        /\ \A r \in DOMAIN resource : resource[r].file # client[t].file
        /\ \A u \in Requests : Carries(u) /\ client[u].file = client[t].file => u = t

PackagesInv == PackagesType /\ CreatesWhole /\ CarriedIsOwn /\ ResourceHasFile

\* Nothing is stored.
LEMMA PackagesInvInit == CurriculumPackagesInit => PackagesInv
<1>. SUFFICES ASSUME CurriculumPackagesInit PROVE PackagesInv
  OBVIOUS
<1>1. DOMAIN resource = {} /\ \A t \in Requests : client[t] = Idle /\ Idle.doing = "nothing"
  BY DEF CurriculumPackagesInit, Idle
<1>2. resource = [r \in {} |-> resource[r]] /\ client = [t \in Requests |-> client[t]]
  BY DEF CurriculumPackagesInit
<1>. QED
  BY <1>1, <1>2 DEF PackagesInv, PackagesType, CreatesWhole, Carries, CarriedIsOwn, ResourceHasFile

\* A request that does not carry a file: it begins or gives up an activation.
LEMMA OtherwiseBusy ==
    ASSUME CurriculumPackagesAssumption, PackagesInv, UNCHANGED <<resource, disk>>,
           NEW t \in Requests, NEW now, client' = [client EXCEPT ![t] = now],
           now.doing \notin {"creating", "deleting"}
    PROVE  PackagesInv'
<1>1. client' = [u \in Requests |-> client'[u]] /\ client'[t] = now /\ \A u \in Requests \ {t} : client'[u] = client[u]
  BY DEF PackagesInv, PackagesType
<1>2. PackagesType'
  BY <1>1 DEF PackagesInv, PackagesType
<1>3. CreatesWhole' /\ CarriedIsOwn'
  BY <1>1 DEF PackagesInv, CreatesWhole, CarriedIsOwn, Carries
<1>. QED
  BY <1>2, <1>3 DEF PackagesInv, ResourceHasFile

\* A file is stored for a request.
LEMMA StoringFileKeeps ==
    ASSUME CurriculumPackagesAssumption, PackagesInv,
           NEW t \in Requests, NEW r \in Resources, NEW type \in Types, NEW f \in Files \cup {NoFile},
           StoreResourceFile(t, r, type, f)
    PROVE  PackagesInv'
<1>. DEFINE now == [doing |-> "creating", name |-> r, type |-> type, file |-> f]
<1>1. now \in Creating /\ now.doing = "creating" /\ now.type = type /\ now.file = f
  BY DEF Creating
<1>2. /\ client' = [client EXCEPT ![t] = now] /\ UNCHANGED resource
      /\ disk' = disk \cup ({f} \ {NoFile}) /\ (f # NoFile => f \notin disk) /\ (type = "file" => f # NoFile)
  BY DEF StoreResourceFile, CurriculumPackagesAssumption, NoFile
<1>. HIDE DEF now
<1>3. client' = [u \in Requests |-> client'[u]] /\ client'[t] = now /\ \A u \in Requests \ {t} : client'[u] = client[u]
  BY <1>2 DEF PackagesInv, PackagesType
<1>4. PackagesType'
  BY <1>1, <1>2, <1>3 DEF PackagesInv, PackagesType, Deleting
<1>5. CreatesWhole'
  BY <1>1, <1>2, <1>3 DEF PackagesInv, CreatesWhole
<1>6. CarriedIsOwn'
  <2>1. \A u \in Requests \ {t} : Carries(u)' <=> Carries(u)
    BY <1>3 DEF Carries
  <2>2. Carries(t)' => f # NoFile
    BY <1>1, <1>3 DEF Carries
  <2>3. \A s \in DOMAIN resource : resource[s].file # NoFile => resource[s].file \in disk
    BY DEF PackagesInv, ResourceHasFile
  <2>. QED
    BY <1>1, <1>2, <1>3, <2>1, <2>2, <2>3 DEF PackagesInv, CarriedIsOwn
<1>7. ResourceHasFile'
  BY <1>2 DEF PackagesInv, ResourceHasFile
<1>. QED
  BY <1>4, <1>5, <1>6, <1>7 DEF PackagesInv

\* The row is there, or its name was taken and the file is of nobody.
LEMMA CommittingKeeps ==
    ASSUME CurriculumPackagesAssumption, PackagesInv, NEW t \in Requests, CommitResource(t)
    PROVE  PackagesInv'
<1>. DEFINE n == client[t].name
            row == [type |-> client[t].type, file |-> client[t].file]
<1>1. client[t] \in Creating /\ client[t].doing = "creating" /\ Idle.doing = "nothing"
  BY DEF CommitResource, PackagesInv, PackagesType, Idle
<1>2. client' = [client EXCEPT ![t] = Idle] /\ UNCHANGED disk
  BY DEF CommitResource
<1>3. client' = [u \in Requests |-> client'[u]] /\ client'[t] = Idle /\ \A u \in Requests \ {t} : client'[u] = client[u]
  BY <1>2 DEF PackagesInv, PackagesType
<1>4. CASE n \in DOMAIN resource
  BY <1>1, <1>2, <1>4, OtherwiseBusy DEF CommitResource
<1>5. CASE n \notin DOMAIN resource
  <2>1. resource' = Put(resource, n, row)
    BY <1>5 DEF CommitResource
  <2>2. row \in [type : Types, file : Files \cup {NoFile}] /\ row.type = client[t].type /\ row.file = client[t].file
    BY <1>1 DEF Creating
  <2>. HIDE DEF row
  <2>3. /\ DOMAIN resource' = DOMAIN resource \cup {n} /\ resource'[n] = row
        /\ \A r \in DOMAIN resource : resource'[r] = resource[r]
        /\ resource' = [r \in DOMAIN resource' |-> resource'[r]]
    BY <1>5, <2>1 DEF Put
  <2>4. PackagesType'
    BY <1>1, <1>3, <2>2, <2>3 DEF PackagesInv, PackagesType
  <2>5. CreatesWhole'
    BY <1>1, <1>3 DEF PackagesInv, CreatesWhole
  <2>6. CarriedIsOwn'
    BY <1>1, <1>2, <1>3, <2>2, <2>3 DEF PackagesInv, CarriedIsOwn, Carries
  <2>7. ResourceHasFile'
    BY <1>1, <1>2, <2>2, <2>3 DEF PackagesInv, CreatesWhole, CarriedIsOwn, Carries, ResourceHasFile
  <2>. QED
    BY <2>4, <2>5, <2>6, <2>7 DEF PackagesInv
<1>. QED
  BY <1>4, <1>5

\* A resource keeps its file under another name and another type.
LEMMA UpdatingResourceKeeps ==
    ASSUME CurriculumPackagesAssumption, PackagesInv,
           NEW r \in Resources, NEW n \in Resources, NEW type \in Types, UpdateResource(r, n, type)
    PROVE  PackagesInv'
<1>. DEFINE row == [resource[r] EXCEPT !.type = type]
<1>1. r \in DOMAIN resource /\ UNCHANGED <<disk, client>> /\ (n = r \/ n \notin DOMAIN resource)
  BY DEF UpdateResource
<1>2. /\ row \in [type : Types, file : Files \cup {NoFile}]
      /\ row.type = type /\ row.file = resource[r].file
      /\ type = "file" => resource[r].file # NoFile
  BY <1>1 DEF UpdateResource, PackagesInv, PackagesType
<1>3. resource' = [k \in (DOMAIN resource \ {r}) \cup {n} |-> IF k = n THEN row ELSE resource[k]]
  BY DEF UpdateResource
<1>. HIDE DEF row
<1>4. /\ DOMAIN resource' = (DOMAIN resource \ {r}) \cup {n} /\ resource'[n] = row
      /\ \A k \in DOMAIN resource' \ {n} : k # r /\ k \in DOMAIN resource /\ resource'[k] = resource[k]
      /\ resource' = [k \in DOMAIN resource' |-> resource'[k]]
  BY <1>1, <1>3
<1>5. PackagesType'
  BY <1>1, <1>2, <1>4 DEF PackagesInv, PackagesType
<1>6. CreatesWhole'
  BY <1>1 DEF PackagesInv, CreatesWhole
<1>7. CarriedIsOwn'
  BY <1>1, <1>2, <1>4 DEF PackagesInv, CarriedIsOwn, Carries
<1>8. ResourceHasFile'
  BY <1>1, <1>2, <1>4 DEF PackagesInv, ResourceHasFile
<1>. QED
  BY <1>5, <1>6, <1>7, <1>8 DEF PackagesInv

\* A resource goes, and its request takes the file over until it is removed.
LEMMA DeletingResourceKeeps ==
    ASSUME CurriculumPackagesAssumption, PackagesInv, NEW t \in Requests, NEW r \in Resources, DeleteResource(t, r)
    PROVE  PackagesInv'
<1>. DEFINE now == [doing |-> "deleting", file |-> resource[r].file]
<1>1. now \in Deleting /\ now.doing = "deleting" /\ now.file = resource[r].file /\ r \in DOMAIN resource
  BY DEF Deleting, DeleteResource, PackagesInv, PackagesType
<1>2. /\ client' = [client EXCEPT ![t] = now] /\ UNCHANGED disk
      /\ resource' = Only(resource, DOMAIN resource \ {r}) /\ client[t] = Idle
  BY DEF DeleteResource
<1>. HIDE DEF now
<1>3. client' = [u \in Requests |-> client'[u]] /\ client'[t] = now /\ \A u \in Requests \ {t} : client'[u] = client[u]
  BY <1>2 DEF PackagesInv, PackagesType
<1>4. /\ DOMAIN resource' = DOMAIN resource \ {r} /\ \A k \in DOMAIN resource' : resource'[k] = resource[k]
      /\ resource' = [k \in DOMAIN resource' |-> resource'[k]]
  BY <1>2 DEF Only
<1>5. PackagesType'
  BY <1>1, <1>3, <1>4 DEF PackagesInv, PackagesType
<1>6. CreatesWhole'
  BY <1>1, <1>3 DEF PackagesInv, CreatesWhole
<1>7. CarriedIsOwn'
  <2>1. \A u \in Requests \ {t} : Carries(u)' <=> Carries(u)
    BY <1>3 DEF Carries
  <2>2. Carries(t)' => resource[r].file # NoFile
    BY <1>1, <1>3 DEF Carries
  <2>3. \A u \in Requests : Carries(u) => client[u].file \in disk /\ \A k \in DOMAIN resource : resource[k].file # client[u].file
    BY DEF PackagesInv, CarriedIsOwn
  <2>4. resource[r].file # NoFile =>
          resource[r].file \in disk /\ \A k \in DOMAIN resource' : resource'[k].file # resource[r].file
    BY <1>1, <1>4 DEF PackagesInv, ResourceHasFile
  <2>5. \A u, v \in Requests \ {t} : Carries(u) /\ Carries(v) /\ client[u].file = client[v].file => u = v
    BY DEF PackagesInv, CarriedIsOwn
  <2>6. \A u \in Requests \ {t} : Carries(u) => client[u].file # resource[r].file
    BY <1>1, <2>3
  <2>7. ASSUME NEW u \in Requests, Carries(u)'
        PROVE  client'[u].file \in disk' /\ \A k \in DOMAIN resource' : resource'[k].file # client'[u].file
    <3>1. CASE u = t
      <4>1. client'[u].file = resource[r].file /\ resource[r].file # NoFile /\ disk' = disk
        BY <1>1, <1>2, <1>3, <2>2, <2>7, <3>1
      <4>. QED
        BY <2>4, <4>1, Zenon
    <3>2. CASE u # t
      <4>1. client'[u] = client[u] /\ Carries(u) /\ disk' = disk
        BY <1>2, <1>3, <2>1, <2>7, <3>2
      <4>. QED
        BY <1>4, <2>3, <4>1
    <3>. QED
      BY <3>1, <3>2
  <2>8. ASSUME NEW u \in Requests, NEW v \in Requests, Carries(u)', Carries(v)', client'[u].file = client'[v].file
        PROVE  u = v
    BY <1>1, <1>3, <2>1, <2>5, <2>6, <2>8
  <2>. QED
    BY <2>7, <2>8 DEF CarriedIsOwn
<1>8. ResourceHasFile'
  BY <1>2, <1>4 DEF PackagesInv, ResourceHasFile
<1>. QED
  BY <1>5, <1>6, <1>7, <1>8 DEF PackagesInv

\* The file of a resource that is gone is removed.
LEMMA RemovingFileKeeps ==
    ASSUME CurriculumPackagesAssumption, PackagesInv, NEW t \in Requests, RemoveFile(t)
    PROVE  PackagesInv'
<1>1. /\ client[t].doing = "deleting" /\ client' = [client EXCEPT ![t] = Idle] /\ Idle.doing = "nothing"
      /\ disk' = disk \ {client[t].file} /\ UNCHANGED resource
  BY DEF RemoveFile, Idle
<1>2. client' = [u \in Requests |-> client'[u]] /\ client'[t] = Idle /\ \A u \in Requests \ {t} : client'[u] = client[u]
  BY <1>1 DEF PackagesInv, PackagesType
<1>3. PackagesType' /\ CreatesWhole'
  BY <1>1, <1>2 DEF PackagesInv, PackagesType, CreatesWhole
<1>4. CarriedIsOwn'
  BY <1>1, <1>2 DEF PackagesInv, CarriedIsOwn, Carries
<1>5. ResourceHasFile'
  BY <1>1 DEF PackagesInv, CarriedIsOwn, Carries, ResourceHasFile
<1>. QED
  BY <1>3, <1>4, <1>5 DEF PackagesInv

\* An activation makes resources of the type link, without files.
LEMMA ActivatingKeeps ==
    ASSUME CurriculumPackagesAssumption, PackagesInv, NEW t \in Requests, NEW row, CommitActivation(t, row)
    PROVE  PackagesInv'
<1>. DEFINE made == {client[t].names[k] : k \in DOMAIN client[t].names}
            link1 == [type |-> "link", file |-> NoFile]
<1>1. /\ client' = [client EXCEPT ![t] = Idle] /\ UNCHANGED disk /\ Idle.doing = "nothing"
      /\ resource' = [r \in DOMAIN resource \cup made |-> IF r \in DOMAIN resource THEN resource[r] ELSE link1]
  BY DEF CommitActivation, Idle
<1>2. link1 \in [type : Types, file : Files \cup {NoFile}] /\ link1.type = "link" /\ link1.file = NoFile
  BY DEF Types
<1>. HIDE DEF made, link1
<1>3. client' = [u \in Requests |-> client'[u]] /\ client'[t] = Idle /\ \A u \in Requests \ {t} : client'[u] = client[u]
  BY <1>1 DEF PackagesInv, PackagesType
<1>4. /\ resource' = [k \in DOMAIN resource' |-> resource'[k]]
      /\ DOMAIN resource \subseteq DOMAIN resource'
      /\ \A k \in DOMAIN resource' : resource'[k] = IF k \in DOMAIN resource THEN resource[k] ELSE link1
  BY <1>1
<1>5. PackagesType' /\ CreatesWhole'
  BY <1>1, <1>2, <1>3, <1>4 DEF PackagesInv, PackagesType, CreatesWhole
<1>6. CarriedIsOwn'
  BY <1>1, <1>2, <1>3, <1>4 DEF PackagesInv, CarriedIsOwn, Carries
<1>7. ResourceHasFile'
  BY <1>1, <1>2, <1>4 DEF PackagesInv, ResourceHasFile
<1>. QED
  BY <1>5, <1>6, <1>7 DEF PackagesInv

\* Every step keeps it; those that move packages, units and lessons touch no file.
LEMMA PackagesInvNext ==
    ASSUME CurriculumPackagesAssumption, PackagesInv, [CurriculumPackagesNext]_packagesVars
    PROVE  PackagesInv'
<1>1. UNCHANGED <<resource, disk, client>> => PackagesInv'
  BY DEF PackagesInv, PackagesType, CreatesWhole, CarriedIsOwn, Carries, ResourceHasFile
<1>2. ASSUME NEW p \in 1..MaxPackages, NEW y \in Years, NEW n \in PackageNames,
             \/ \E s \in Subjects : CreatePackage(p, y, s, n) \/ UpdatePackage(p, y, s, n)
             \/ \E q \in 1..MaxPackages : ClonePackage(p, q, y, n)
      PROVE  PackagesInv'
  BY <1>1, <1>2 DEF CreatePackage, UpdatePackage, ClonePackage
<1>3. ASSUME NEW x, DeletePackage(x) \/ DeleteYear(x) \/ DeleteSubject(x)
      PROVE  PackagesInv'
  BY <1>1, <1>3 DEF DeletePackage, DeleteYear, DeleteSubject
<1>4. ASSUME NEW p \in 1..MaxPackages, NEW u \in Units,
             \/ CreateUnit(p, u) \/ DeleteUnit(p, u)
             \/ \E v \in Units : UpdateUnit(p, u, v)
             \/ \E n \in Lessons : CreateLesson(p, u, n)
      PROVE  PackagesInv'
  BY <1>1, <1>4 DEF CreateUnit, UpdateUnit, DeleteUnit, CreateLesson
<1>5. ASSUME NEW l \in lessons,
             \/ DeleteLesson(l) \/ \E n \in Lessons : UpdateLesson(l, n)
             \/ \E r \in Resources : LinkResource(l, r) \/ UnlinkResource(l, r)
      PROVE  PackagesInv'
  BY <1>1, <1>5 DEF UpdateLesson, DeleteLesson, LinkResource, UnlinkResource
<1>6. ASSUME NEW t \in Requests, NEW c \in Curricula, NEW y \in Years, NEW to, NEW names, BeginActivation(t, c, y, to, names)
      PROVE  PackagesInv'
  <2>. DEFINE now == [doing |-> "activating", of |-> c, year |-> y, to |-> to, names |-> names, knew |-> subjects]
  <2>1. client' = [client EXCEPT ![t] = now] /\ UNCHANGED <<resource, disk>> /\ now.doing = "activating"
    BY <1>6 DEF BeginActivation
  <2>. HIDE DEF now
  <2>. QED
    BY <2>1, OtherwiseBusy
<1>7. ASSUME NEW t \in Requests, AbortActivation(t)
      PROVE  PackagesInv'
  <2>1. client' = [client EXCEPT ![t] = Idle] /\ UNCHANGED <<resource, disk>> /\ Idle.doing = "nothing"
    BY <1>7 DEF AbortActivation, Idle
  <2>. QED
    BY <2>1, OtherwiseBusy
<1>8. ASSUME NEW c \in Curricula, DeleteImported(c)
      PROVE  PackagesInv'
  BY <1>1, <1>8 DEF DeleteImported
<1>9. UNCHANGED packagesVars => PackagesInv'
  BY <1>1 DEF packagesVars
<1>. QED
  BY <1>2, <1>3, <1>4, <1>5, <1>6, <1>7, <1>8, <1>9, StoringFileKeeps, CommittingKeeps, UpdatingResourceKeeps,
     DeletingResourceKeeps, RemovingFileKeeps, ActivatingKeeps DEF CurriculumPackagesNext

\* Whatever is created, changed, activated and deleted, in whatever order the steps of
\* the requests come, a resource of type file has its file on disk, and alone (routers/
\* curriculum.py stores a file before its row and removes it after).
THEOREM ResourcesHaveFiles ==
    ASSUME CurriculumPackagesAssumption
    PROVE  CurriculumPackagesSpec => []ResourceHasFile
<1>1. PackagesInv /\ [CurriculumPackagesNext]_packagesVars => PackagesInv'
  BY PackagesInvNext
<1>2. PackagesInv => ResourceHasFile
  BY DEF PackagesInv
<1>. QED
  BY <1>1, <1>2, PackagesInvInit, PTL DEF CurriculumPackagesSpec
-----------------------------------------------------------------------------
(* The page that imports a curriculum: what it holds and what it sends. *)

Ids           == 0..MaxAnalyses
SessionStatus == {"none", "processing", "ready", "failed", "deleted", "expired", "confirmed"}
AnyText       == Texts \cup {NoText}

Pages == [open : BOOLEAN, step : {"upload", "preview", "review", "done"}, mode : {"manual", "ai"},
          shown : [id : Ids, status : SessionStatus], text : AnyText, origin : Ids, validated : AnyText,
          matches : [of : AnyText, any : BOOLEAN], acknowledged : AnyText, checking : BOOLEAN, due : BOOLEAN]

Imports == [state : {"sent", "created", "matches", "refused"}, text : AnyText, seen : [of : AnyText, any : BOOLEAN],
            acknowledged : AnyText, origin : Ids, id : Ids]

\* A page in which the matches are those of the text that was validated, what was
\* acknowledged is the text as it is, and a draft came from the session that shows.
Sound(p) ==
    /\ p \in Pages
    /\ p.validated # NoText => p.matches.of = p.validated
    /\ p.acknowledged # NoText => p.acknowledged = p.text
    /\ p.step \in {"preview", "review"} => p.text \in Texts /\ (p.mode = "ai" => p.origin = p.shown.id)

PageType ==
    /\ Sound(page)
    /\ checks \subseteq [text : Texts, current : BOOLEAN]
    /\ saving \in Imports \cup {Nothing}

Removals == [id : Analyses, for : {"run", "close", "quiet", "orphan"}, run : Ids, newest : BOOLEAN,
             state : {"sent", "done", "refused"}]

RunnerType ==
    /\ sessions \in [Analyses -> SessionStatus]
    /\ run \in [Analyses -> Working \cup {"unused", "abandoned", "ended"}]
    /\ held \in Ids /\ removals \subseteq Removals /\ lost \subseteq Analyses

\* One analysis is at work, on the page's first step, and one deletion may give the
\* session back.
OneAtWork ==
    /\ \A r, q \in Analyses : run[r] \in Working /\ run[q] \in Working => r = q
    /\ \A r \in Analyses : run[r] \in Working => page.open /\ page.step = "upload" /\ page.mode = "ai"
OneNewest == \A m, n \in removals : m.newest /\ n.newest => m = n

\* A session is held by nobody while a deletion may bring one back or an analysis is
\* about to; an analysis past that holds its own.
HeldAlone ==
    /\ held # 0 => \A m \in removals : ~m.newest
    /\ \A r \in Analyses :
          /\ run[r] \in {"cleaning", "creating"} => held = 0
          /\ run[r] = "creating" => \A m \in removals : ~m.newest
          /\ run[r] \in {"sleeping", "polling"} => held = r

\* An analysis that waits for a deletion waits for the newest one.
WaitsForNewest ==
    \A m \in removals :
        /\ m.newest => \A r \in Analyses : run[r] = "cleaning" => m.for = "run" /\ m.run = r
        /\ m.for = "run" => m.run \in Analyses /\ run[m.run] # "unused" /\ (run[m.run] = "cleaning" => m.newest)

\* A deletion that the server has handled found the session gone, or made it so.
Handled == \A m \in removals : m.state # "sent" => sessions[m.id] \notin Live \cup {"none"}

\* The session that the page shows, or sends, is the one that is held or may come back.
Keeps(id) == id # 0 => held \in {0, id} /\ \A m \in removals : m.newest => m.id = id

ShownIsHeld == Keeps(page.shown.id)
SavingIsHeld ==
    saving.state # "none" =>
        /\ page.open => page.step = "review"
        /\ Keeps(saving.id)
        /\ saving.state = "created" /\ saving.id # 0 => sessions[saving.id] = "confirmed"

RunnerInv ==
    /\ RunnerType /\ OneAtWork /\ OneNewest /\ HeldAlone /\ WaitsForNewest /\ Handled
    /\ ShownIsHeld /\ SavingIsHeld /\ NothingIsLeftBehind

WizardInv == PageType /\ ImportsWhatWasChecked /\ RunnerInv

\* Values that are what they seem.
LEMMA WizardValues ==
    ASSUME CurriculumWizardAssumption
    PROVE  /\ 0 \in Ids /\ Analyses \subseteq Ids /\ 0 \notin Analyses /\ \A i \in Ids : i # 0 => i \in Analyses
           /\ NoText \notin Texts /\ Valid \subseteq Texts /\ NoText \in AnyText /\ Texts \subseteq AnyText
           /\ Nothing.state = "none" /\ NotShown \in [id : Ids, status : SessionStatus] /\ NotShown.id = 0
           /\ NotShown.status = "none" /\ NoMatches \in [of : AnyText, any : BOOLEAN] /\ NoMatches.of = NoText
           /\ Opened \in Pages /\ Opened.open /\ Opened.step = "upload" /\ Opened.shown = NotShown
           /\ Opened.validated = NoText /\ Opened.acknowledged = NoText
           /\ Sound(Opened) /\ Sound(Closed) /\ ~Closed.open /\ Closed.step = "upload" /\ Closed.shown = NotShown
<1>1. /\ 0 \in Ids /\ Analyses \subseteq Ids /\ 0 \notin Analyses /\ \A i \in Ids : i # 0 => i \in Analyses
      /\ NoText \notin Texts /\ Valid \subseteq Texts /\ NoText \in AnyText /\ Texts \subseteq AnyText
  <2>. MaxAnalyses \in Nat
    BY DEF CurriculumWizardAssumption
  <2>1. 0 \in Ids /\ Analyses \subseteq Ids /\ 0 \notin Analyses /\ \A i \in Ids : i # 0 => i \in Analyses
    BY DEF Ids, Analyses
  <2>2. NoText \notin Texts /\ Valid \subseteq Texts
    BY DEF CurriculumWizardAssumption, NoText
  <2>. QED
    BY <2>1, <2>2 DEF AnyText
<1>2. /\ Nothing.state = "none" /\ NotShown \in [id : Ids, status : SessionStatus] /\ NotShown.id = 0
      /\ NotShown.status = "none" /\ NoMatches \in [of : AnyText, any : BOOLEAN] /\ NoMatches.of = NoText
  BY <1>1 DEF Nothing, NotShown, NoMatches, SessionStatus
<1>3. /\ Opened \in Pages /\ Opened.open /\ Opened.step = "upload" /\ Opened.shown = NotShown
      /\ Opened.validated = NoText /\ Opened.acknowledged = NoText
  BY <1>1, <1>2 DEF Opened, Pages
<1>4. /\ Closed \in Pages /\ ~Closed.open /\ Closed.step = "upload" /\ Closed.shown = NotShown
      /\ Closed.validated = NoText /\ Closed.acknowledged = NoText
  BY <1>3 DEF Closed, Pages
<1>. QED
  BY <1>1, <1>2, <1>3, <1>4 DEF Sound

\* An import in flight, and none.
LEMMA SavingIs == ASSUME CurriculumWizardAssumption, PageType PROVE (Saving <=> saving.state # "none") /\ (Saving => saving \in Imports)
  BY WizardValues DEF Saving, PageType, Imports

LEMMA WizardInvInit == ASSUME CurriculumWizardAssumption, WizardInit PROVE WizardInv
<1>1. /\ removals = {} /\ held = 0 /\ lost = {} /\ checks = {} /\ saving = Nothing /\ page = Opened
      /\ sessions = [r \in Analyses |-> "none"] /\ run = [r \in Analyses |-> "unused"]
  BY DEF WizardInit
<1>2. PageType /\ ImportsWhatWasChecked
  BY <1>1, WizardValues DEF PageType, ImportsWhatWasChecked, Saving
<1>3. RunnerType
  BY <1>1, WizardValues DEF RunnerType, SessionStatus
<1>4. OneAtWork /\ OneNewest /\ HeldAlone /\ WaitsForNewest /\ Handled /\ NothingIsLeftBehind
  BY <1>1 DEF OneAtWork, OneNewest, HeldAlone, WaitsForNewest, Handled, NothingIsLeftBehind, Working, Live
<1>5. ShownIsHeld /\ SavingIsHeld
  BY <1>1, WizardValues DEF ShownIsHeld, SavingIsHeld, Keeps
<1>. QED
  BY <1>2, <1>3, <1>4, <1>5 DEF WizardInv, RunnerInv

-----------------------------------------------------------------------------
(* The page. *)

\* A text that is to be checked.
LEMMA Preflighting ==
    ASSUME CurriculumWizardAssumption, NEW p \in Pages,
           p.step \in {"preview", "review"} => p.text \in Texts /\ (p.mode = "ai" => p.origin = p.shown.id)
    PROVE  /\ Sound(Preflight(p))
           /\ Preflight(p).open = p.open /\ Preflight(p).step = p.step /\ Preflight(p).mode = p.mode
           /\ Preflight(p).shown = p.shown
<1>1. Preflight(p) \in Pages
  BY WizardValues DEF Preflight, Pages
<1>2. /\ Preflight(p).open = p.open /\ Preflight(p).step = p.step /\ Preflight(p).mode = p.mode
      /\ Preflight(p).shown = p.shown /\ Preflight(p).text = p.text /\ Preflight(p).origin = p.origin
      /\ Preflight(p).validated = NoText /\ Preflight(p).acknowledged = NoText
  BY DEF Preflight, Pages
<1>. QED
  BY <1>1, <1>2 DEF Sound

LEMMA Superseding == ASSUME PageType PROVE Superseded \subseteq [text : Texts, current : BOOLEAN]
  BY DEF Superseded, PageType

\* A page keeps what it has, but for its step and what it is about to check.
LEMMA PageMoves ==
    ASSUME CurriculumWizardAssumption, NEW p \in Pages, Sound(p)
    PROVE  /\ \A step \in {"upload", "done"} : Sound([p EXCEPT !.step = step, !.due = FALSE])
           /\ p.step = "upload" => \A mode \in {"manual", "ai"} : Sound([p EXCEPT !.mode = mode])
           /\ Sound([p EXCEPT !.due = FALSE]) /\ Sound([p EXCEPT !.checking = FALSE])
           /\ Sound([p EXCEPT !.due = FALSE, !.checking = FALSE])
<1>1. ASSUME NEW step \in {"upload", "done"}
      PROVE  Sound([p EXCEPT !.step = step, !.due = FALSE])
  <2>. DEFINE q == [p EXCEPT !.step = step, !.due = FALSE]
  <2>1. q \in Pages /\ q.step = step /\ q.validated = p.validated /\ q.matches = p.matches
        /\ q.acknowledged = p.acknowledged /\ q.text = p.text
    BY DEF Pages
  <2>. HIDE DEF q
  <2>3. Sound(q)
    BY <2>1 DEF Sound
  <2>. QED
    BY <2>3 DEF q
<1>2. ASSUME p.step = "upload", NEW mode \in {"manual", "ai"}
      PROVE  Sound([p EXCEPT !.mode = mode])
  <2>. DEFINE q == [p EXCEPT !.mode = mode]
  <2>1. q \in Pages /\ q.step = p.step /\ q.validated = p.validated /\ q.matches = p.matches
        /\ q.acknowledged = p.acknowledged /\ q.text = p.text
    BY DEF Pages
  <2>. HIDE DEF q
  <2>3. Sound(q)
    BY <1>2, <2>1 DEF Sound
  <2>. QED
    BY <2>3 DEF q
<1>3. ASSUME NEW due \in BOOLEAN, NEW checking \in BOOLEAN
      PROVE  Sound([p EXCEPT !.due = due, !.checking = checking])
  <2>. DEFINE q == [p EXCEPT !.due = due, !.checking = checking]
  <2>1. q \in Pages /\ q.step = p.step /\ q.validated = p.validated /\ q.matches = p.matches /\ q.mode = p.mode
        /\ q.acknowledged = p.acknowledged /\ q.text = p.text /\ q.origin = p.origin /\ q.shown = p.shown
    BY DEF Pages
  <2>. HIDE DEF q
  <2>3. Sound(q)
    BY <2>1 DEF Sound
  <2>. QED
    BY <2>3 DEF q
<1>4. /\ [p EXCEPT !.due = FALSE] = [p EXCEPT !.due = FALSE, !.checking = p.checking]
      /\ [p EXCEPT !.checking = FALSE] = [p EXCEPT !.due = p.due, !.checking = FALSE]
      /\ p.checking \in BOOLEAN /\ p.due \in BOOLEAN
  BY DEF Pages
<1>5. Sound([p EXCEPT !.due = FALSE]) /\ Sound([p EXCEPT !.checking = FALSE])
  BY <1>3, <1>4
<1>. QED
  BY <1>1, <1>2, <1>3, <1>5

\* A page that shows another session, while it is on its first step.
LEMMA PageShows ==
    ASSUME CurriculumWizardAssumption, NEW p \in Pages, Sound(p), NEW shown \in [id : Ids, status : SessionStatus],
           p.step = "upload" \/ shown.id = p.shown.id
    PROVE  /\ Sound([p EXCEPT !.shown = shown]) /\ [p EXCEPT !.shown = shown].shown = shown
           /\ [p EXCEPT !.shown = shown].open = p.open /\ [p EXCEPT !.shown = shown].step = p.step
           /\ [p EXCEPT !.shown = shown].mode = p.mode
<1>. DEFINE q == [p EXCEPT !.shown = shown]
<1>1. q \in Pages /\ q.step = p.step /\ q.validated = p.validated /\ q.matches = p.matches /\ q.mode = p.mode
      /\ q.acknowledged = p.acknowledged /\ q.text = p.text /\ q.origin = p.origin /\ q.shown = shown /\ q.open = p.open
  BY DEF Pages
<1>2. Sound(q)
  BY <1>1 DEF Sound
<1>. QED
  BY <1>1, <1>2

\* What the answer of a check, of the server or the reader says about the text.
LEMMA PageLearns ==
    ASSUME CurriculumWizardAssumption, NEW p \in Pages, Sound(p), NEW text \in AnyText, NEW any \in BOOLEAN
    PROVE  /\ Sound([p EXCEPT !.checking = FALSE, !.validated = text, !.matches = [of |-> text, any |-> any]])
           /\ Sound([p EXCEPT !.acknowledged = NoText, !.validated = text, !.matches = [of |-> text, any |-> any]])
           /\ Sound([p EXCEPT !.acknowledged = NoText, !.validated = NoText])
           /\ p.validated = p.text /\ p.step \in {"preview", "review"} => Sound([p EXCEPT !.acknowledged = p.matches.of])
<1>. DEFINE matches == [of |-> text, any |-> any]
<1>1. matches \in [of : AnyText, any : BOOLEAN] /\ matches.of = text
  OBVIOUS
<1>. HIDE DEF matches
<1>2. Sound([p EXCEPT !.checking = FALSE, !.validated = text, !.matches = matches])
  <2>. DEFINE q == [p EXCEPT !.checking = FALSE, !.validated = text, !.matches = matches]
  <2>1. q \in Pages /\ q.step = p.step /\ q.validated = text /\ q.matches = matches /\ q.mode = p.mode
        /\ q.acknowledged = p.acknowledged /\ q.text = p.text /\ q.origin = p.origin /\ q.shown = p.shown
    BY <1>1 DEF Pages
  <2>. HIDE DEF q
  <2>3. Sound(q)
    BY <1>1, <2>1 DEF Sound
  <2>. QED
    BY <2>3 DEF q
<1>3. Sound([p EXCEPT !.acknowledged = NoText, !.validated = text, !.matches = matches])
  <2>. DEFINE q == [p EXCEPT !.acknowledged = NoText, !.validated = text, !.matches = matches]
  <2>1. q \in Pages /\ q.step = p.step /\ q.validated = text /\ q.matches = matches /\ q.mode = p.mode
        /\ q.acknowledged = NoText /\ q.text = p.text /\ q.origin = p.origin /\ q.shown = p.shown
    BY <1>1, WizardValues DEF Pages
  <2>. HIDE DEF q
  <2>3. Sound(q)
    BY <1>1, <2>1 DEF Sound
  <2>. QED
    BY <2>3 DEF q
<1>4. Sound([p EXCEPT !.acknowledged = NoText, !.validated = NoText])
  <2>. DEFINE q == [p EXCEPT !.acknowledged = NoText, !.validated = NoText]
  <2>1. q \in Pages /\ q.step = p.step /\ q.validated = NoText /\ q.mode = p.mode
        /\ q.acknowledged = NoText /\ q.text = p.text /\ q.origin = p.origin /\ q.shown = p.shown
    BY WizardValues DEF Pages
  <2>. HIDE DEF q
  <2>3. Sound(q)
    BY <2>1 DEF Sound
  <2>. QED
    BY <2>3 DEF q
<1>5. ASSUME p.validated = p.text, p.step \in {"preview", "review"}
      PROVE  Sound([p EXCEPT !.acknowledged = p.matches.of])
  <2>. DEFINE q == [p EXCEPT !.acknowledged = p.matches.of]
  <2>1. q \in Pages /\ q.step = p.step /\ q.validated = p.validated /\ q.matches = p.matches /\ q.mode = p.mode
        /\ q.acknowledged = p.matches.of /\ q.text = p.text /\ q.origin = p.origin /\ q.shown = p.shown
    BY DEF Pages
  <2>2. p.matches.of = p.text
    BY <1>5, WizardValues DEF Sound
  <2>. HIDE DEF q
  <2>3. Sound(q)
    BY <1>5, <2>1, <2>2 DEF Sound
  <2>. QED
    BY <2>3 DEF q
<1>. QED
  BY <1>2, <1>3, <1>4, <1>5 DEF matches

\* What is left as it is, and an import that changes its state only.
LEMMA PageKept ==
    ASSUME CurriculumWizardAssumption, PageType, ImportsWhatWasChecked,
           Sound(page)', checks' \subseteq [text : Texts, current : BOOLEAN],
           \/ saving' = saving
           \/ saving' = Nothing
           \/ Saving /\ \E state \in {"sent", "created", "matches", "refused"} : saving' = [saving EXCEPT !.state = state]
    PROVE  PageType' /\ ImportsWhatWasChecked'
<1>1. CASE saving' = saving \/ saving' = Nothing
  BY <1>1 DEF PageType, ImportsWhatWasChecked, Saving, Nothing
<1>2. CASE Saving /\ \E state \in {"sent", "created", "matches", "refused"} : saving' = [saving EXCEPT !.state = state]
  <2>1. Saving /\ saving \in Imports
    BY <1>2, SavingIs
  <2>2. /\ saving' \in Imports /\ saving'.text = saving.text /\ saving'.seen = saving.seen
        /\ saving'.acknowledged = saving.acknowledged /\ saving'.id = saving.id /\ saving'.origin = saving.origin
    BY <1>2, <2>1 DEF Imports
  <2>. QED
    BY <2>1, <2>2 DEF PageType, ImportsWhatWasChecked
<1>. QED
  BY <1>1, <1>2

\* Every step that a request, its answer or the server makes.
LEMMA AnsweringKeepsPage ==
    ASSUME CurriculumWizardAssumption, PageType, ImportsWhatWasChecked, RunnerType, OneAtWork, NEW r \in Analyses,
           CreateAnswered(r) \/ PollAnswered(r)
    PROVE  PageType' /\ ImportsWhatWasChecked'
<1>0. page \in Pages /\ Sound(page)
  BY DEF PageType, Sound
<1>1. CASE CreateAnswered(r)
  <2>1. checks' = checks /\ saving' = saving
    BY <1>1 DEF CreateAnswered
  <2>2. CASE Answered(r)
    <3>. DEFINE shown == [id |-> r, status |-> IF sessions[r] = "expired" THEN "expired" ELSE "processing"]
    <3>1. shown \in [id : Ids, status : SessionStatus] /\ page.step = "upload" /\ page' = [page EXCEPT !.shown = shown]
      BY <2>2, WizardValues DEF Answered, SessionStatus, OneAtWork, Working
    <3>. HIDE DEF shown
    <3>2. Sound([page EXCEPT !.shown = shown])
      BY <1>0, <3>1, PageShows
    <3>. QED
      BY <2>1, <3>1, <3>2, PageKept DEF PageType
  <2>3. CASE page' = page
    BY <1>0, <2>1, <2>3, PageKept DEF PageType
  <2>. QED
    BY <1>1, <2>2, <2>3 DEF CreateAnswered
<1>2. CASE PollAnswered(r)
  <2>. DEFINE shown == [id |-> r, status |-> sessions[r]]
              p == [page EXCEPT !.shown = shown]
  <2>1. /\ shown \in [id : Ids, status : SessionStatus] /\ shown.id = r
        /\ page.step = "upload" /\ saving' = saving
    BY <1>2, WizardValues DEF PollAnswered, RunnerType, OneAtWork, Working
  <2>2. p \in Pages /\ Sound(p) /\ p.shown = shown
    BY <1>0, <2>1, PageShows DEF Sound
  <2>3. CASE page' = p /\ UNCHANGED checks
    BY <2>1, <2>2, <2>3, PageKept DEF PageType
  <2>4. ASSUME NEW t \in Valid, page' = Preflight([p EXCEPT !.step = "preview", !.text = t, !.origin = r]), checks' = Superseded
        PROVE  PageType' /\ ImportsWhatWasChecked'
    <3>. DEFINE q == [p EXCEPT !.step = "preview", !.text = t, !.origin = r]
    <3>. HIDE DEF p, shown
    <3>1. q \in Pages /\ q.text \in Texts /\ q.origin = r /\ q.shown = shown
      BY <2>2, WizardValues DEF Pages
    <3>. HIDE DEF q
    <3>2. Sound(Preflight(q))
      BY <2>1, <3>1, Preflighting
    <3>. QED
      BY <2>1, <2>4, <3>2, PageKept, Superseding DEF q
  <2>. QED
    BY <1>2, <2>3, <2>4 DEF PollAnswered
<1>. QED
  BY <1>1, <1>2

\* A text that takes another's place.
LEMMA EditingKeepsPage ==
    ASSUME CurriculumWizardAssumption, PageType, ImportsWhatWasChecked,
           (\E t \in Texts : Preview(t) \/ Edit(t)) \/ LoadExample \/ Continue \/ Back \/ CheckAgain
    PROVE  PageType' /\ ImportsWhatWasChecked'
<1>0. page \in Pages /\ Sound(page) /\ checks' = Superseded /\ saving' = saving
  BY DEF PageType, Sound, Preview, Edit, LoadExample, Continue, Back, CheckAgain
<1>1. ASSUME NEW q \in Pages, page' = Preflight(q),
             q.step \in {"preview", "review"} => q.text \in Texts /\ (q.mode = "ai" => q.origin = q.shown.id)
      PROVE  PageType' /\ ImportsWhatWasChecked'
  BY <1>0, <1>1, Preflighting, Superseding, PageKept
<1>2. ASSUME NEW t \in Texts, Preview(t)
      PROVE  PageType' /\ ImportsWhatWasChecked'
  <2>. DEFINE q == [page EXCEPT !.step = "preview", !.text = t, !.origin = 0]
  <2>1. q \in Pages /\ q.text = t /\ q.mode = "manual"
    BY <1>0, <1>2, WizardValues DEF Preview, Pages
  <2>2. page' = Preflight(q)
    BY <1>2 DEF Preview
  <2>. HIDE DEF q
  <2>. QED
    BY <1>1, <2>1, <2>2
<1>3. ASSUME NEW t \in Texts, Edit(t)
      PROVE  PageType' /\ ImportsWhatWasChecked'
  <2>. DEFINE q == [page EXCEPT !.text = t]
  <2>1. q \in Pages /\ q.text = t /\ q.mode = page.mode /\ q.step = page.step /\ q.origin = page.origin /\ q.shown = page.shown
    BY <1>0, WizardValues DEF Pages
  <2>2. page' = Preflight(q)
    BY <1>3 DEF Edit
  <2>. HIDE DEF q
  <2>3. q.step \in {"preview", "review"} => q.text \in Texts /\ (q.mode = "ai" => q.origin = q.shown.id)
    BY <1>0, <2>1 DEF Sound
  <2>. QED
    BY <1>1, <2>1, <2>2, <2>3
<1>4. ASSUME NEW step \in {"preview", "review"}, page' = Preflight([page EXCEPT !.step = step]), page.step \in {"preview", "review"}
      PROVE  PageType' /\ ImportsWhatWasChecked'
  <2>. DEFINE q == [page EXCEPT !.step = step]
  <2>1. q \in Pages /\ q.text = page.text /\ q.mode = page.mode /\ q.step = step /\ q.origin = page.origin /\ q.shown = page.shown
    BY <1>0 DEF Pages
  <2>2. page' = Preflight(q)
    BY <1>4
  <2>. HIDE DEF q
  <2>3. q.text \in Texts /\ (q.mode = "ai" => q.origin = q.shown.id)
    BY <1>0, <1>4, <2>1 DEF Sound
  <2>. QED
    BY <1>1, <2>1, <2>2, <2>3
<1>5. CASE Continue
  BY <1>4, <1>5 DEF Continue
<1>6. CASE Back
  <2>1. CASE page' = [page EXCEPT !.step = "upload", !.due = FALSE]
    <3>1. Sound(page)'
      BY <1>0, <2>1, PageMoves
    <3>. QED
      BY <1>0, <3>1, Superseding, PageKept
  <2>. QED
    BY <1>4, <1>6, <2>1 DEF Back
<1>7. CASE CheckAgain
  BY <1>0, <1>1, <1>7 DEF CheckAgain, Sound
<1>8. CASE LoadExample
  <2>. DEFINE q == [page EXCEPT !.step = "upload", !.mode = "manual", !.shown = NotShown, !.text = NoText, !.origin = 0,
                                !.validated = NoText, !.acknowledged = NoText, !.due = FALSE]
  <2>1. q \in Pages /\ q.step = "upload" /\ q.validated = NoText /\ q.acknowledged = NoText
    BY <1>0, WizardValues DEF Pages
  <2>2. page' = q
    BY <1>8 DEF LoadExample
  <2>. HIDE DEF q
  <2>3. Sound(page)'
    BY <2>1, <2>2 DEF Sound
  <2>. QED
    BY <1>0, <2>3, Superseding, PageKept
<1>. QED
  BY <1>2, <1>3, <1>5, <1>6, <1>7, <1>8

\* A check is sent or answered, and its matches are acknowledged.
LEMMA CheckingKeepsPage ==
    ASSUME CurriculumWizardAssumption, PageType, ImportsWhatWasChecked,
           SendCheck \/ Acknowledge \/ \E c \in checks : CheckAnswered(c) \/ CheckFails(c)
    PROVE  PageType' /\ ImportsWhatWasChecked'
<1>0. page \in Pages /\ Sound(page) /\ saving' = saving /\ checks \subseteq [text : Texts, current : BOOLEAN]
  BY DEF PageType, Sound, SendCheck, Acknowledge, CheckAnswered, CheckFails
<1>1. CASE SendCheck
  <2>1. Sound(page)'
    BY <1>0, <1>1, PageMoves DEF SendCheck
  <2>2. checks' \subseteq [text : Texts, current : BOOLEAN]
    <3>1. \/ checks' = checks
          \/ page.text \in Texts /\ checks' = checks \cup {[text |-> page.text, current |-> TRUE]}
      BY <1>1, WizardValues DEF SendCheck
    <3>2. page.text \in Texts => [text |-> page.text, current |-> TRUE] \in [text : Texts, current : BOOLEAN]
      OBVIOUS
    <3>. QED
      BY <1>0, <3>1, <3>2, Zenon
  <2>. QED
    BY <1>0, <2>1, <2>2, PageKept
<1>2. CASE Acknowledge
  <2>1. Sound([page EXCEPT !.acknowledged = page.matches.of])
    <3>1. page.validated = page.text /\ page.step \in {"preview", "review"} /\ NoText \in AnyText
      BY <1>2, WizardValues DEF Acknowledge
    <3>. QED
      BY <1>0, <3>1, PageLearns
  <2>. QED
    BY <1>0, <1>2, <2>1, PageKept DEF Acknowledge
<1>3. ASSUME NEW c \in checks, CheckAnswered(c)
      PROVE  PageType' /\ ImportsWhatWasChecked'
  <2>1. c.text \in AnyText
    BY <1>0, WizardValues
  <2>2. \A any \in BOOLEAN :
          Sound([page EXCEPT !.checking = FALSE, !.validated = c.text, !.matches = [of |-> c.text, any |-> any]])
    BY <1>0, <2>1, PageLearns
  <2>3. Sound(page)'
    BY <1>0, <1>3, <2>2 DEF CheckAnswered
  <2>. QED
    BY <1>0, <1>3, <2>3, PageKept DEF CheckAnswered
<1>4. ASSUME NEW c \in checks, CheckFails(c)
      PROVE  PageType' /\ ImportsWhatWasChecked'
  <2>1. [page EXCEPT !.checking = page.checking] = page
    BY <1>0 DEF Pages
  <2>2. page' = [page EXCEPT !.checking = FALSE] \/ page' = page
    BY <1>4, <2>1 DEF CheckFails
  <2>3. Sound(page)'
    BY <1>0, <2>2, PageMoves
  <2>. QED
    BY <1>0, <1>4, <2>3, PageKept DEF CheckFails
<1>. QED
  BY <1>1, <1>2, <1>3, <1>4

\* An import is sent, handled and answered.
LEMMA ImportingKeepsPage ==
    ASSUME CurriculumWizardAssumption, PageType, ImportsWhatWasChecked,
           HandleImport \/ ServerImports \/ ImportAnswered \/ ImportFails
    PROVE  PageType' /\ ImportsWhatWasChecked'
<1>0. page \in Pages /\ Sound(page) /\ checks \subseteq [text : Texts, current : BOOLEAN]
  BY DEF PageType, Sound
<1>1. CASE HandleImport
  <2>. DEFINE sent == [state |-> "sent", text |-> page.text, seen |-> page.matches,
                       acknowledged |-> page.acknowledged, origin |-> page.origin,
                       id |-> IF page.mode = "ai" THEN page.shown.id ELSE 0]
  <2>1. saving' = sent /\ UNCHANGED <<page, checks>>
    BY <1>1 DEF HandleImport
  <2>2. /\ sent \in Imports /\ sent.text = page.text /\ sent.seen = page.matches /\ sent.acknowledged = page.acknowledged
        /\ sent.origin = page.origin /\ (sent.id # 0 => page.mode = "ai" /\ sent.id = page.shown.id)
    BY <1>0, WizardValues DEF Pages, Imports
  <2>. HIDE DEF sent
  <2>3. page.step = "review" /\ page.validated = page.text /\ (page.matches.any => page.acknowledged # NoText)
    BY <1>1 DEF HandleImport
  <2>4. page.matches.of = page.text /\ (page.matches.any => page.acknowledged = page.text)
        /\ (page.mode = "ai" => page.origin = page.shown.id)
    BY <1>0, <2>3, WizardValues DEF Sound
  <2>5. PageType'
    BY <1>0, <2>1, <2>2 DEF PageType
  <2>6. ImportsWhatWasChecked'
    BY <2>1, <2>2, <2>4 DEF ImportsWhatWasChecked
  <2>. QED
    BY <2>5, <2>6
<1>2. CASE ServerImports
  BY <1>0, <1>2, PageKept DEF ServerImports
<1>3. CASE ImportAnswered
  <2>1. saving \in Imports /\ saving.text \in AnyText /\ saving' = Nothing
    BY <1>3, SavingIs DEF ImportAnswered, Imports
  <2>2. Sound(page)'
    <3>1. Sound([page EXCEPT !.step = "done", !.due = FALSE])
      BY <1>0, PageMoves
    <3>2. /\ Sound([page EXCEPT !.acknowledged = NoText, !.validated = saving.text,
                                !.matches = [of |-> saving.text, any |-> TRUE]])
          /\ Sound([page EXCEPT !.acknowledged = NoText, !.validated = NoText])
      BY <1>0, <2>1, PageLearns
    <3>. QED
      BY <1>0, <1>3, <3>1, <3>2 DEF ImportAnswered
  <2>3. checks' \subseteq [text : Texts, current : BOOLEAN]
    BY <1>0, <1>3, Superseding DEF ImportAnswered
  <2>. QED
    BY <2>1, <2>2, <2>3, PageKept
<1>4. CASE ImportFails
  BY <1>0, <1>4, PageKept DEF ImportFails
<1>. QED
  BY <1>1, <1>2, <1>3, <1>4

\* The page is left, or waits for its closing.
LEMMA LeavingKeepsPage ==
    ASSUME CurriculumWizardAssumption, PageType, ImportsWhatWasChecked, RunnerType, OneAtWork,
           \/ \E r \in Analyses : Analyze(r)
           \/ \E m \in removals : RemovalAnswered(m)
           \/ SwitchTab \/ Close \/ Unmount \/ ShowExpiry
    PROVE  PageType' /\ ImportsWhatWasChecked'
<1>0. page \in Pages /\ Sound(page) /\ checks \subseteq [text : Texts, current : BOOLEAN]
  BY DEF PageType, Sound
<1>1. CASE UNCHANGED saving /\ page' = Closed /\ checks' = {}
  BY <1>1, WizardValues, PageKept
<1>2. CASE UNCHANGED <<saving, page, checks>>
  BY <1>0, <1>2, PageKept
<1>3. ASSUME NEW m \in removals, RemovalAnswered(m)
      PROVE  PageType' /\ ImportsWhatWasChecked'
  BY <1>1, <1>2, <1>3 DEF RemovalAnswered, LeavePage
<1>4. CASE Close \/ Unmount
  BY <1>1, <1>2, <1>4 DEF Close, Unmount, LeavePage
<1>5. ASSUME NEW r \in Analyses, Analyze(r)
      PROVE  PageType' /\ ImportsWhatWasChecked'
  <2>1. page.step = "upload" /\ page' = [page EXCEPT !.shown = NotShown] /\ UNCHANGED <<checks, saving>>
    BY <1>5 DEF Analyze
  <2>2. Sound(page)'
    BY <1>0, <2>1, WizardValues, PageShows
  <2>. QED
    BY <1>0, <2>1, <2>2, PageKept
<1>6. CASE SwitchTab
  <2>1. /\ page.step = "upload" /\ UNCHANGED <<checks, saving>>
        /\ \E mode \in {"manual", "ai"} : page' = [page EXCEPT !.mode = mode]
    BY <1>6 DEF SwitchTab
  <2>2. Sound(page)'
    BY <1>0, <2>1, PageMoves
  <2>. QED
    BY <1>0, <2>1, <2>2, PageKept
<1>7. CASE ShowExpiry
  <2>. DEFINE shown == [id |-> page.shown.id, status |-> "expired"]
  <2>1. shown \in [id : Ids, status : SessionStatus] /\ shown.id = page.shown.id
    BY <1>0 DEF Pages, SessionStatus
  <2>2. [page.shown EXCEPT !.status = "expired"] = shown
    BY <1>0 DEF Pages
  <2>3. page' = [page EXCEPT !.shown = shown] /\ UNCHANGED <<checks, saving>>
    BY <1>7, <2>2 DEF ShowExpiry
  <2>. HIDE DEF shown
  <2>4. Sound(page)'
    BY <1>0, <2>1, <2>3, PageShows
  <2>. QED
    BY <1>0, <2>3, <2>4, PageKept
<1>. QED
  BY <1>3, <1>4, <1>5, <1>6, <1>7

\* The rest touches nothing of it.
LEMMA PageNext ==
    ASSUME CurriculumWizardAssumption, PageType, ImportsWhatWasChecked, RunnerType, OneAtWork, [WizardNext]_wizardVars
    PROVE  PageType' /\ ImportsWhatWasChecked'
<1>1. CASE UNCHANGED <<saving, page, checks>>
  BY <1>1, PageKept DEF PageType
<1>2. ASSUME NEW r \in Analyses,
             ServerCreates(r) \/ CreateFails(r) \/ WakeUp(r) \/ PollFails(r) \/ FinishTask(r) \/ Expire(r)
      PROVE  PageType' /\ ImportsWhatWasChecked'
  BY <1>1, <1>2 DEF ServerCreates, CreateFails, WakeUp, PollFails, FinishTask, Expire
<1>3. ASSUME NEW m \in removals, ServerDeletes(m) \/ RemovalFails(m)
      PROVE  PageType' /\ ImportsWhatWasChecked'
  BY <1>1, <1>3 DEF ServerDeletes, RemovalFails
<1>4. CASE UNCHANGED wizardVars
  BY <1>1, <1>4 DEF wizardVars
<1>. QED
  BY <1>2, <1>3, <1>4, AnsweringKeepsPage, EditingKeepsPage, CheckingKeepsPage, ImportingKeepsPage, LeavingKeepsPage
  DEF WizardNext

-----------------------------------------------------------------------------
(* The runner. *)

\* While an analysis is at work, the page is open on its first step and nothing is imported.
LEMMA AtWork ==
    ASSUME CurriculumWizardAssumption, PageType, OneAtWork, SavingIsHeld, NEW r \in Analyses, run[r] \in Working
    PROVE  /\ page.open /\ page.step = "upload" /\ page.mode = "ai" /\ Analyzing
           /\ saving.state = "none" /\ ~Saving
           /\ \A q \in Analyses : run[q] \in Working => q = r
<1>1. page.open /\ page.step = "upload" /\ page.mode = "ai" /\ Analyzing
  BY DEF OneAtWork, Analyzing
<1>2. saving.state = "none"
  BY <1>1 DEF SavingIsHeld
<1>3. ~Saving
  BY <1>2, SavingIs
<1>4. \A q \in Analyses : run[q] \in Working => q = r
  BY DEF OneAtWork
<1>. QED
  BY <1>1, <1>2, <1>3, <1>4

\* A step of the page alone.
LEMMA RunnerStays ==
    ASSUME CurriculumWizardAssumption, RunnerInv, UNCHANGED <<sessions, held, run, removals, saving, lost>>,
           page.shown.id = page'.shown.id,
           \A r \in Analyses : run[r] \in Working => page'.open /\ page'.step = "upload" /\ page'.mode = "ai",
           saving.state # "none" /\ page'.open => page'.step = "review"
    PROVE  RunnerInv'
<1>1. RunnerType' /\ OneNewest' /\ HeldAlone' /\ WaitsForNewest' /\ Handled' /\ NothingIsLeftBehind'
  BY DEF RunnerInv, RunnerType, OneNewest, HeldAlone, WaitsForNewest, Handled, NothingIsLeftBehind
<1>2. OneAtWork'
  BY DEF RunnerInv, OneAtWork
<1>3. ShownIsHeld' /\ SavingIsHeld'
  BY DEF RunnerInv, ShownIsHeld, SavingIsHeld, Keeps
<1>. QED
  BY <1>1, <1>2, <1>3 DEF RunnerInv

\* The page moves between its steps.
LEMMA MovingKeepsRunner ==
    ASSUME CurriculumWizardAssumption, PageType, RunnerInv,
           SwitchTab \/ Continue \/ Back \/ CheckAgain \/ (\E t \in Texts : Preview(t) \/ Edit(t))
    PROVE  RunnerInv'
<1>0. page \in Pages /\ OneAtWork /\ SavingIsHeld /\ UNCHANGED <<sessions, held, run, removals, saving, lost>>
  BY DEF PageType, Sound, RunnerInv, SwitchTab, Continue, Back, CheckAgain, Preview, Edit
<1>1. page.open /\ \A r \in Analyses : run[r] \notin Working
  <2>1. page.open /\ (page.step # "upload" \/ ~Analyzing)
    BY DEF SwitchTab, Continue, Back, CheckAgain, Preview, Edit
  <2>. QED
    BY <1>0, <2>1 DEF OneAtWork, Analyzing
<1>2. page'.shown.id = page.shown.id /\ (saving.state # "none" => page.step = "review" /\ page'.step = "review")
  <2>1. saving.state # "none" => page.step = "review" /\ Saving
    BY <1>0, <1>1, SavingIs DEF SavingIsHeld
  <2>2. CASE SwitchTab
    BY <1>0, <2>1, <2>2 DEF SwitchTab, Pages
  <2>3. CASE Continue
    BY <1>0, <2>1, <2>3 DEF Continue, Preflight, Pages
  <2>4. CASE Back
    BY <1>0, <2>1, <2>4 DEF Back, Preflight, Pages
  <2>5. CASE CheckAgain
    BY <1>0, <2>1, <2>5 DEF CheckAgain, Preflight, Pages
  <2>6. ASSUME NEW t \in Texts, Preview(t)
        PROVE  page'.shown.id = page.shown.id /\ saving.state = "none"
    BY <1>0, <2>1, <2>6 DEF Preview, Preflight, Pages
  <2>7. ASSUME NEW t \in Texts, Edit(t)
        PROVE  page'.shown.id = page.shown.id /\ saving.state = "none"
    BY <1>0, <2>1, <2>7 DEF Edit, Preflight, Pages
  <2>. QED
    BY <2>2, <2>3, <2>4, <2>5, <2>6, <2>7
<1>. QED
  BY <1>0, <1>1, <1>2, RunnerStays

\* The page learns of its checks, and of the time.
LEMMA CheckingKeepsRunner ==
    ASSUME CurriculumWizardAssumption, PageType, RunnerInv,
           SendCheck \/ Acknowledge \/ ShowExpiry \/ \E c \in checks : CheckAnswered(c) \/ CheckFails(c)
    PROVE  RunnerInv'
<1>0. /\ page \in Pages /\ OneAtWork /\ SavingIsHeld /\ UNCHANGED <<sessions, held, run, removals, saving, lost>>
  BY DEF PageType, Sound, RunnerInv, SendCheck, Acknowledge, ShowExpiry, CheckAnswered, CheckFails
<1>1. /\ page'.open = page.open /\ page'.step = page.step /\ page'.mode = page.mode
      /\ page'.shown.id = page.shown.id
  <2>1. CASE SendCheck
    BY <1>0, <2>1 DEF SendCheck, Pages
  <2>2. CASE Acknowledge
    BY <1>0, <2>2 DEF Acknowledge, Pages
  <2>3. CASE ShowExpiry
    BY <1>0, <2>3 DEF ShowExpiry, Pages
  <2>4. ASSUME NEW c \in checks, CheckAnswered(c)
        PROVE  /\ page'.open = page.open /\ page'.step = page.step /\ page'.mode = page.mode
               /\ page'.shown.id = page.shown.id
    BY <1>0, <2>4 DEF CheckAnswered, Pages
  <2>5. ASSUME NEW c \in checks, CheckFails(c)
        PROVE  /\ page'.open = page.open /\ page'.step = page.step /\ page'.mode = page.mode
               /\ page'.shown.id = page.shown.id
    BY <1>0, <2>5 DEF CheckFails, Pages
  <2>. QED
    BY <2>1, <2>2, <2>3, <2>4, <2>5
<1>. QED
  BY <1>0, <1>1, RunnerStays DEF OneAtWork, SavingIsHeld

\* Retired deletions are those that there were.
LEMMA Retiring ==
    ASSUME NEW requests, requests \subseteq Removals
    PROVE  /\ \A n \in {[m EXCEPT !.newest = FALSE] : m \in requests} :
                 /\ n \in Removals /\ ~n.newest
                 /\ \E m \in requests : n.id = m.id /\ n.for = m.for /\ n.run = m.run /\ n.state = m.state
           /\ \A m \in requests : \E n \in {[k EXCEPT !.newest = FALSE] : k \in requests} : n.id = m.id
<1>1. ASSUME NEW m \in requests
      PROVE  /\ [m EXCEPT !.newest = FALSE] \in Removals /\ ~[m EXCEPT !.newest = FALSE].newest
             /\ [m EXCEPT !.newest = FALSE].id = m.id /\ [m EXCEPT !.newest = FALSE].for = m.for
             /\ [m EXCEPT !.newest = FALSE].run = m.run /\ [m EXCEPT !.newest = FALSE].state = m.state
  BY DEF Removals
<1>. QED
  BY <1>1, Zenon

\* A cancel: what is held is deleted, and no other deletion is the newest; of those that
\* there were, the server has handled what does not remain.
Cancels(for, r, requests) ==
    /\ UNCHANGED <<sessions, lost>> /\ held' = 0
    /\ for \in {"run", "close", "quiet"} /\ r \in Ids
    /\ requests \subseteq removals /\ \A m \in removals \ requests : m.state # "sent"
    /\ removals' = {[m EXCEPT !.newest = FALSE] : m \in requests}
         \cup (IF held = 0 THEN {} ELSE {[id |-> held, for |-> for, run |-> r, newest |-> TRUE, state |-> "sent"]})

LEMMA Cancelling ==
    ASSUME CurriculumWizardAssumption, RunnerInv, NEW for, NEW r, NEW requests, Cancels(for, r, requests)
    PROVE  /\ removals' \subseteq Removals /\ OneNewest' /\ Handled'
           /\ \A n \in removals' : n.newest => held # 0 /\ n.id = held /\ n.for = for /\ n.run = r
           /\ \A n \in removals' : n.for = "run" /\ ~n.newest => n.run \in Analyses /\ run[n.run] # "unused"
           /\ \A q \in Analyses : /\ sessions[q] \in Live /\ (held = q \/ \E m \in removals : m.id = q)
                                  => \E n \in removals' : n.id = q
<1>. DEFINE retired == {[m EXCEPT !.newest = FALSE] : m \in requests}
            new     == [id |-> held, for |-> for, run |-> r, newest |-> TRUE, state |-> "sent"]
<1>0. /\ removals \subseteq Removals /\ held \in Ids /\ Handled /\ WaitsForNewest
      /\ requests \subseteq removals /\ UNCHANGED sessions
      /\ for \in {"run", "close", "quiet"} /\ r \in Ids /\ \A m \in removals \ requests : m.state # "sent"
  BY DEF RunnerInv, RunnerType, Cancels
<1>1. /\ \A n \in retired : /\ n \in Removals /\ ~n.newest
                            /\ \E m \in requests : n.id = m.id /\ n.for = m.for /\ n.run = m.run /\ n.state = m.state
      /\ \A m \in requests : \E n \in retired : n.id = m.id
  BY <1>0, Retiring
<1>2. /\ held # 0 => new \in Removals
      /\ new.id = held /\ new.for = for /\ new.run = r /\ new.newest /\ new.state = "sent"
  BY <1>0, WizardValues DEF Removals
<1>3. removals' = retired \cup (IF held = 0 THEN {} ELSE {new})
  BY DEF Cancels
<1>. HIDE DEF retired, new
<1>4. \A n \in removals' : n \in retired \/ (held # 0 /\ n = new)
  BY <1>3
<1>5. removals' \subseteq Removals
  BY <1>1, <1>2, <1>4
<1>6. \A n \in removals' : n.newest => held # 0 /\ n.id = held /\ n.for = for /\ n.run = r
  BY <1>1, <1>2, <1>4
<1>7. OneNewest'
  BY <1>1, <1>4 DEF OneNewest
<1>8. Handled'
  BY <1>0, <1>1, <1>2, <1>4 DEF Handled
<1>9. \A n \in removals' : n.for = "run" /\ ~n.newest => n.run \in Analyses /\ run[n.run] # "unused"
  BY <1>0, <1>1, <1>2, <1>4 DEF WaitsForNewest
<1>10. ASSUME NEW q \in Analyses, sessions[q] \in Live, held = q \/ \E m \in removals : m.id = q
       PROVE  \E n \in removals' : n.id = q
  <2>1. CASE held = q
    BY <1>2, <1>3, <2>1, WizardValues
  <2>2. ASSUME NEW m \in removals, m.id = q PROVE \E n \in removals' : n.id = q
    <3>1. m \in requests
      BY <1>0, <1>10, <2>2 DEF Handled
    <3>. QED
      BY <1>1, <1>3, <2>2, <3>1
  <2>. QED
    BY <1>10, <2>1, <2>2
<1>. QED
  BY <1>5, <1>6, <1>7, <1>8, <1>9, <1>10

\* What runs when everything is stopped.
LEMMA Stopping ==
    ASSUME RunnerType
    PROVE  /\ Stopped \in [Analyses -> Working \cup {"unused", "abandoned", "ended"}]
           /\ \A q \in Analyses : /\ Stopped[q] \notin Working
                                  /\ run[q] # "unused" => Stopped[q] # "unused"
                                  /\ run[q] \in {"creating", "abandoned"} => Stopped[q] = "abandoned"
           /\ ~Analyzing => Stopped = run
<1>1. run \in [Analyses -> Working \cup {"unused", "abandoned", "ended"}]
  BY DEF RunnerType
<1>2. Stopped \in [Analyses -> Working \cup {"unused", "abandoned", "ended"}]
  BY <1>1 DEF Stopped, Working
<1>3. ASSUME NEW q \in Analyses
      PROVE  /\ Stopped[q] \notin Working
             /\ run[q] # "unused" => Stopped[q] # "unused"
             /\ run[q] \in {"creating", "abandoned"} => Stopped[q] = "abandoned"
             /\ run[q] \notin Working => Stopped[q] = run[q]
  BY DEF Stopped, Working
<1>4. ~Analyzing => Stopped = run
  <2>. SUFFICES ASSUME ~Analyzing PROVE Stopped = run
    OBVIOUS
  <2>1. \A q \in Analyses : Stopped[q] = run[q]
    BY <1>3 DEF Analyzing
  <2>. QED
    BY <1>1, <1>2, <2>1
<1>. QED
  BY <1>2, <1>3, <1>4

\* Everything is stopped: the example is loaded, the page is closed or left.
LEMMA StoppingKeepsRunner ==
    ASSUME CurriculumWizardAssumption, PageType, RunnerInv, UNCHANGED saving, run' = Stopped,
           NEW for \in {"close", "quiet"}, NEW requests, Cancels(for, 0, requests),
           page'.shown.id \in {0, page.shown.id},
           ~page'.open \/ saving.state = "none"
    PROVE  RunnerInv'
<1>0. /\ RunnerType /\ ShownIsHeld /\ SavingIsHeld /\ NothingIsLeftBehind /\ 0 \in Ids
      /\ sessions' = sessions /\ lost' = lost /\ held' = 0
  BY WizardValues DEF RunnerInv, Cancels
<1>1. /\ removals' \subseteq Removals /\ OneNewest' /\ Handled'
      /\ \A n \in removals' : n.newest => held # 0 /\ n.id = held /\ n.for = for
      /\ \A n \in removals' : n.for = "run" /\ ~n.newest => n.run \in Analyses /\ run[n.run] # "unused"
      /\ \A q \in Analyses : /\ sessions[q] \in Live /\ (held = q \/ \E m \in removals : m.id = q)
                             => \E n \in removals' : n.id = q
  BY Cancelling
<1>2. /\ run' \in [Analyses -> Working \cup {"unused", "abandoned", "ended"}]
      /\ \A q \in Analyses : /\ run'[q] \notin Working
                             /\ run[q] # "unused" => run'[q] # "unused"
                             /\ run[q] \in {"creating", "abandoned"} => run'[q] = "abandoned"
  BY <1>0, Stopping
<1>3. RunnerType'
  BY <1>0, <1>1, <1>2 DEF RunnerType
<1>4. OneAtWork'
  BY <1>2 DEF OneAtWork
<1>5. HeldAlone'
  BY <1>0, <1>2 DEF HeldAlone, Working
<1>6. WaitsForNewest'
  BY <1>1, <1>2 DEF WaitsForNewest, Working
<1>7. ShownIsHeld'
  BY <1>0, <1>1 DEF ShownIsHeld, Keeps
<1>8. SavingIsHeld'
  BY <1>0, <1>1 DEF SavingIsHeld, Keeps
<1>9. NothingIsLeftBehind'
  BY <1>0, <1>1, <1>2 DEF NothingIsLeftBehind
<1>. QED
  BY <1>1, <1>3, <1>4, <1>5, <1>6, <1>7, <1>8, <1>9 DEF RunnerInv

LEMMA LeavingKeepsRunner ==
    ASSUME CurriculumWizardAssumption, PageType, RunnerInv,
           LoadExample \/ Close \/ Unmount \/ \E m \in removals : m.state = "done" /\ LeavePage("quiet", removals \ {m})
                                                                 /\ UNCHANGED <<sessions, saving, lost>>
    PROVE  RunnerInv'
<1>0. page \in Pages /\ 0 \in Ids /\ Closed.shown.id = 0 /\ ~Closed.open /\ NotShown.id = 0
  BY WizardValues DEF PageType, Sound
<1>1. ASSUME NEW requests, requests \subseteq removals, \A m \in removals \ requests : m.state # "sent",
             LeavePage("quiet", requests), UNCHANGED <<sessions, saving, lost>>
      PROVE  RunnerInv'
  <2>1. Cancels("quiet", 0, requests) /\ UNCHANGED saving /\ run' = Stopped /\ page' = Closed
    BY <1>0, <1>1 DEF LeavePage, Cancels
  <2>. QED
    BY <1>0, <2>1, StoppingKeepsRunner
<1>2. ASSUME NEW for \in {"close", "quiet"}, removals' = Removing(for, 0), held' = 0, UNCHANGED <<sessions, saving, lost>>
      PROVE  Cancels(for, 0, removals) /\ UNCHANGED saving
  BY <1>0, <1>2 DEF Cancels, Removing
<1>3. CASE LoadExample
  <2>1. Cancels("quiet", 0, removals) /\ UNCHANGED saving /\ run' = Stopped /\ ~Saving
    BY <1>2, <1>3 DEF LoadExample
  <2>2. page'.shown.id = 0
    BY <1>0, <1>3 DEF LoadExample, Pages
  <2>3. saving.state = "none"
    BY <2>1, SavingIs
  <2>. QED
    BY <2>1, <2>2, <2>3, StoppingKeepsRunner
<1>4. CASE Close
  <2>1. CASE LeavePage("quiet", removals)
    BY <1>1, <1>4, <2>1 DEF Close
  <2>2. CASE /\ run' = Stopped /\ removals' = Removing("close", 0) /\ held' = 0 /\ UNCHANGED <<page, checks>>
    <3>1. Cancels("close", 0, removals) /\ UNCHANGED saving /\ run' = Stopped /\ ~Saving /\ page' = page
      BY <1>2, <1>4, <2>2 DEF Close
    <3>2. saving.state = "none"
      BY <3>1, SavingIs
    <3>. QED
      BY <3>1, <3>2, StoppingKeepsRunner
  <2>. QED
    BY <1>4, <2>1, <2>2 DEF Close
<1>5. CASE Unmount
  BY <1>1, <1>5 DEF Unmount
<1>6. ASSUME NEW m \in removals, m.state = "done", LeavePage("quiet", removals \ {m}), UNCHANGED <<sessions, saving, lost>>
      PROVE  RunnerInv'
  <2>1. removals \ {m} \subseteq removals /\ \A n \in removals \ (removals \ {m}) : n.state # "sent"
    BY <1>6
  <2>. QED
    BY <1>1, <1>6, <2>1
<1>. QED
  BY <1>3, <1>4, <1>5, <1>6

\* An analysis starts: what was held is deleted first.
LEMMA AnalyzeKeepsRunner ==
    ASSUME CurriculumWizardAssumption, PageType, RunnerInv, NEW r \in Analyses, Analyze(r)
    PROVE  RunnerInv'
<1>0. /\ RunnerType /\ OneAtWork /\ HeldAlone /\ WaitsForNewest /\ SavingIsHeld /\ NothingIsLeftBehind
      /\ page \in Pages /\ r \in Ids /\ held \in Ids /\ lost \subseteq Analyses /\ sessions' = sessions /\ lost' = lost
      /\ page.open /\ page.step = "upload" /\ page.mode = "ai" /\ run[r] = "unused" /\ held' = 0 /\ UNCHANGED saving
      /\ \A q \in Analyses : run[q] \notin Working
  BY WizardValues DEF RunnerInv, RunnerType, Analyze, PageType, Sound, Analyzing
<1>1. /\ run' \in [Analyses -> Working \cup {"unused", "abandoned", "ended"}]
      /\ run'[r] = IF held = 0 THEN "creating" ELSE "cleaning"
      /\ \A q \in Analyses \ {r} : run'[q] = run[q]
  <2>1. run' = [run EXCEPT ![r] = IF held = 0 THEN "creating" ELSE "cleaning"]
    BY <1>0, Stopping DEF Analyze
  <2>. QED
    BY <1>0, <2>1 DEF RunnerType, Working
<1>2. /\ page'.open = page.open /\ page'.step = page.step /\ page'.mode = page.mode /\ page'.shown.id = 0
  BY <1>0, WizardValues DEF Analyze, Pages
<1>3. Cancels("run", r, removals)
  BY <1>0 DEF Analyze, Cancels, Removing
<1>4. /\ removals' \subseteq Removals /\ OneNewest' /\ Handled'
      /\ \A n \in removals' : n.newest => held # 0 /\ n.id = held /\ n.for = "run" /\ n.run = r
      /\ \A n \in removals' : n.for = "run" /\ ~n.newest => n.run \in Analyses /\ run[n.run] # "unused"
      /\ \A q \in Analyses : /\ sessions[q] \in Live /\ (held = q \/ \E m \in removals : m.id = q)
                             => \E n \in removals' : n.id = q
  BY <1>3, Cancelling
<1>5. saving.state = "none"
  BY <1>0 DEF SavingIsHeld
<1>6. RunnerType'
  BY <1>0, <1>1, <1>4, WizardValues DEF RunnerType
<1>7. OneAtWork'
  BY <1>0, <1>1, <1>2 DEF OneAtWork
<1>8. HeldAlone'
  BY <1>0, <1>1, <1>4 DEF HeldAlone, Working
<1>9. WaitsForNewest'
  <2>1. ASSUME NEW n \in removals', n.newest
        PROVE  /\ n.for = "run" /\ n.run = r /\ run'[r] # "unused"
               /\ \A q \in Analyses : run'[q] = "cleaning" => q = r
    BY <1>0, <1>1, <1>4, <2>1 DEF Working
  <2>2. ASSUME NEW n \in removals', ~n.newest, n.for = "run"
        PROVE  n.run \in Analyses /\ run'[n.run] # "unused" /\ run'[n.run] # "cleaning"
    BY <1>0, <1>1, <1>4, <2>2 DEF Working
  <2>. QED
    BY <2>1, <2>2 DEF WaitsForNewest
<1>10. ShownIsHeld'
  BY <1>2 DEF ShownIsHeld, Keeps
<1>11. SavingIsHeld'
  BY <1>0, <1>5 DEF SavingIsHeld
<1>12. NothingIsLeftBehind'
  BY <1>0, <1>1, <1>4 DEF NothingIsLeftBehind
<1>. QED
  BY <1>4, <1>6, <1>7, <1>8, <1>9, <1>10, <1>11, <1>12 DEF RunnerInv

\* A session is created, and time passes for it.
LEMMA SessionsKeepRunner ==
    ASSUME CurriculumWizardAssumption, PageType, RunnerInv, NEW r \in Analyses,
           ServerCreates(r) \/ FinishTask(r) \/ Expire(r)
    PROVE  RunnerInv'
<1>0. /\ UNCHANGED <<held, run, removals, saving, page, lost>>
      /\ \E status \in SessionStatus : sessions' = [sessions EXCEPT ![r] = status]
      /\ sessions[r] \in {"none", "processing", "ready", "failed"} /\ sessions'[r] # "none"
      /\ \/ sessions[r] \in Live
         \/ sessions'[r] \notin Live
         \/ sessions[r] = "none" /\ run[r] \in {"creating", "abandoned"}
  BY DEF RunnerInv, RunnerType, SessionStatus, Live, ServerCreates, FinishTask, Expire
<1>1. sessions \in [Analyses -> SessionStatus] /\ Handled /\ NothingIsLeftBehind /\ SavingIsHeld /\ removals \subseteq Removals
  BY DEF RunnerInv, RunnerType
<1>2. RunnerType'
  BY <1>0, <1>1 DEF RunnerInv, RunnerType
<1>3. \A q \in Analyses : q # r => sessions'[q] = sessions[q]
  BY <1>0, <1>1
<1>4. Handled'
  <2>1. \A m \in removals : m.id \in Analyses
    BY <1>1 DEF Removals
  <2>. QED
    BY <1>0, <1>1, <1>3, <2>1 DEF Handled
<1>5. SavingIsHeld'
  <2>1. saving.state # "none" => saving.id \in Ids
    BY SavingIs DEF Imports
  <2>. QED
    BY <1>0, <1>1, <1>3, <2>1, WizardValues DEF SavingIsHeld, Keeps
<1>6. NothingIsLeftBehind'
  BY <1>0, <1>1, <1>3 DEF NothingIsLeftBehind
<1>7. OneAtWork' /\ OneNewest' /\ HeldAlone' /\ WaitsForNewest' /\ ShownIsHeld'
  BY <1>0 DEF RunnerInv, OneAtWork, OneNewest, HeldAlone, WaitsForNewest, ShownIsHeld, Keeps
<1>. QED
  BY <1>2, <1>4, <1>5, <1>6, <1>7 DEF RunnerInv

\* An analysis goes on, or ends, with the session that it holds.
LEMMA PollingKeepsRunner ==
    ASSUME CurriculumWizardAssumption, PageType, RunnerInv, NEW r \in Analyses,
           WakeUp(r) \/ PollAnswered(r) \/ PollFails(r)
    PROVE  RunnerInv'
<1>0. /\ RunnerType /\ OneAtWork /\ HeldAlone /\ WaitsForNewest /\ SavingIsHeld /\ NothingIsLeftBehind /\ ShownIsHeld
      /\ page \in Pages /\ r \in Ids /\ r # 0 /\ UNCHANGED <<sessions, held, removals, saving, lost>>
      /\ run[r] \in {"sleeping", "polling"} /\ run[r] \in Working
  BY WizardValues DEF RunnerInv, WakeUp, PollAnswered, PollFails, PageType, Sound, Working
<1>1. /\ run' \in [Analyses -> Working \cup {"unused", "abandoned", "ended"}]
      /\ run'[r] \in {"sleeping", "polling", "ended"} /\ \A q \in Analyses \ {r} : run'[q] = run[q]
  <2>1. \E to \in {"sleeping", "polling", "ended"} : run' = [run EXCEPT ![r] = to]
    BY DEF WakeUp, PollAnswered, PollFails
  <2>. QED
    BY <1>0, <2>1 DEF RunnerType, Working
<1>2. held = r /\ (\A m \in removals : ~m.newest) /\ saving.state = "none"
      /\ \A q \in Analyses : run[q] \in Working => q = r
  BY <1>0, AtWork DEF HeldAlone
<1>3. /\ page'.shown.id \in {r, page.shown.id}
      /\ run'[r] \in Working => page'.open /\ page'.step = "upload" /\ page'.mode = "ai"
  <2>0. page.open /\ page.step = "upload" /\ page.mode = "ai"
    BY <1>0, AtWork
  <2>1. CASE WakeUp(r) \/ PollFails(r)
    BY <2>0, <2>1 DEF WakeUp, PollFails
  <2>2. CASE PollAnswered(r)
    <3>. DEFINE shown == [page EXCEPT !.shown = [id |-> r, status |-> sessions[r]]]
    <3>1. /\ shown.shown.id = r /\ shown.open /\ shown.step = "upload" /\ shown.mode = "ai"
          /\ \A t \in Valid : Preflight([shown EXCEPT !.step = "preview", !.text = t, !.origin = r]).shown.id = r
      BY <1>0, <2>0 DEF Preflight, Pages
    <3>. HIDE DEF shown
    <3>2. \/ page' = shown
          \/ /\ sessions[r] = "ready"
             /\ \E t \in Valid : page' = Preflight([shown EXCEPT !.step = "preview", !.text = t, !.origin = r])
      BY <2>2 DEF PollAnswered, shown
    <3>3. sessions[r] = "ready" => run'[r] = "ended"
      BY <1>0, <2>2 DEF PollAnswered, RunnerType
    <3>. QED
      BY <3>1, <3>2, <3>3 DEF Working
  <2>. QED
    BY <2>1, <2>2
<1>4. RunnerType'
  BY <1>0, <1>1 DEF RunnerType
<1>5. OneAtWork'
  BY <1>1, <1>2, <1>3 DEF OneAtWork
<1>6. HeldAlone'
  BY <1>0, <1>1, <1>2 DEF HeldAlone, Working
<1>7. WaitsForNewest'
  BY <1>0, <1>1, <1>2 DEF WaitsForNewest
<1>8. ShownIsHeld'
  BY <1>0, <1>2, <1>3 DEF ShownIsHeld, Keeps
<1>9. SavingIsHeld'
  BY <1>0, <1>2 DEF SavingIsHeld
<1>10. NothingIsLeftBehind'
  BY <1>0, <1>1, <1>2 DEF NothingIsLeftBehind
<1>11. OneNewest' /\ Handled'
  BY <1>0 DEF RunnerInv, OneNewest, Handled
<1>. QED
  BY <1>4, <1>5, <1>6, <1>7, <1>8, <1>9, <1>10, <1>11 DEF RunnerInv

\* The answer to an analysis that goes on gives it its session to hold; that to one given
\* up has the session deleted; and one that fails may have left it behind.
LEMMA CreatingKeepsRunner ==
    ASSUME CurriculumWizardAssumption, PageType, RunnerInv, NEW r \in Analyses, CreateAnswered(r) \/ CreateFails(r)
    PROVE  RunnerInv'
<1>0. /\ RunnerType /\ OneAtWork /\ OneNewest /\ HeldAlone /\ WaitsForNewest /\ Handled
      /\ SavingIsHeld /\ NothingIsLeftBehind /\ ShownIsHeld
      /\ page \in Pages /\ r \in Ids /\ r # 0 /\ UNCHANGED <<sessions, saving>>
  BY WizardValues DEF RunnerInv, CreateAnswered, CreateFails, PageType, Sound
<1>1. ASSUME NEW to \in {"sleeping", "ended"}, run' = [run EXCEPT ![r] = to], run[r] \in {"creating", "abandoned"}
      PROVE  /\ run' \in [Analyses -> Working \cup {"unused", "abandoned", "ended"}]
             /\ run'[r] = to /\ \A q \in Analyses \ {r} : run'[q] = run[q]
  BY <1>0, <1>1 DEF RunnerType, Working
<1>2. CASE Answered(r) /\ UNCHANGED <<removals, lost>>
  <2>1. /\ run[r] = "creating" /\ held' = r /\ page'.shown.id = r
        /\ page'.open = page.open /\ page'.step = page.step /\ page'.mode = page.mode
    BY <1>0, <1>2 DEF Answered, Pages
  <2>2. \E to \in {"sleeping", "ended"} : run' = [run EXCEPT ![r] = to]
    BY <1>2 DEF Answered
  <2>3. /\ run' \in [Analyses -> Working \cup {"unused", "abandoned", "ended"}]
        /\ run'[r] \in {"sleeping", "ended"} /\ \A q \in Analyses \ {r} : run'[q] = run[q]
    BY <1>1, <2>1, <2>2
  <2>4. /\ held = 0 /\ (\A m \in removals : ~m.newest) /\ saving.state = "none"
        /\ page.open /\ page.step = "upload" /\ page.mode = "ai"
        /\ \A q \in Analyses : run[q] \in Working => q = r
    BY <1>0, <2>1, AtWork DEF HeldAlone, Working
  <2>5. RunnerType'
    BY <1>0, <1>2, <2>1, <2>3 DEF RunnerType
  <2>6. OneAtWork'
    BY <2>1, <2>3, <2>4 DEF OneAtWork
  <2>7. HeldAlone'
    BY <1>0, <1>2, <2>1, <2>3, <2>4 DEF HeldAlone, Working
  <2>8. WaitsForNewest'
    BY <1>0, <1>2, <2>3, <2>4 DEF WaitsForNewest
  <2>9. ShownIsHeld' /\ SavingIsHeld'
    BY <1>0, <1>2, <2>1, <2>4 DEF ShownIsHeld, SavingIsHeld, Keeps
  <2>10. NothingIsLeftBehind'
    BY <1>0, <1>2, <2>1, <2>3, <2>4, WizardValues DEF NothingIsLeftBehind
  <2>11. OneNewest' /\ Handled'
    BY <1>0, <1>2 DEF OneNewest, Handled
  <2>. QED
    BY <2>5, <2>6, <2>7, <2>8, <2>9, <2>10, <2>11 DEF RunnerInv
<1>3. CASE /\ run' = [run EXCEPT ![r] = "ended"] /\ run[r] \in {"creating", "abandoned"} /\ UNCHANGED <<held, page>>
           /\ \/ UNCHANGED removals /\ lost' \in {lost, lost \cup {r}} /\ (sessions[r] = "none" \/ r \in lost')
              \/ /\ removals' = removals \cup {[id |-> r, for |-> "orphan", run |-> r, newest |-> FALSE, state |-> "sent"]}
                 /\ UNCHANGED lost
  <2>1. /\ run' \in [Analyses -> Working \cup {"unused", "abandoned", "ended"}]
        /\ run'[r] = "ended" /\ \A q \in Analyses \ {r} : run'[q] = run[q]
    BY <1>1, <1>3
  <2>. DEFINE orphan == [id |-> r, for |-> "orphan", run |-> r, newest |-> FALSE, state |-> "sent"]
  <2>2. /\ orphan \in Removals /\ ~orphan.newest /\ orphan.for # "run" /\ orphan.state = "sent" /\ orphan.id = r
    BY <1>0 DEF Removals
  <2>3. removals' = removals \/ removals' = removals \cup {orphan}
    BY <1>3
  <2>4. /\ UNCHANGED <<held, page>> /\ lost \subseteq lost' /\ lost' \subseteq Analyses /\ removals \subseteq removals'
        /\ sessions[r] = "none" \/ r \in lost' \/ orphan \in removals'
    BY <1>0, <1>3 DEF RunnerType
  <2>. HIDE DEF orphan
  <2>5. RunnerType'
    BY <1>0, <2>1, <2>2, <2>3, <2>4 DEF RunnerType
  <2>6. OneAtWork'
    BY <1>0, <2>1, <2>4 DEF OneAtWork, Working
  <2>7. HeldAlone'
    BY <1>0, <2>1, <2>2, <2>3, <2>4 DEF HeldAlone
  <2>8. WaitsForNewest'
    BY <1>0, <2>1, <2>2, <2>3 DEF WaitsForNewest
  <2>9. ShownIsHeld' /\ SavingIsHeld'
    BY <1>0, <2>2, <2>3, <2>4 DEF ShownIsHeld, SavingIsHeld, Keeps
  <2>10. NothingIsLeftBehind'
    BY <1>0, <2>1, <2>2, <2>4 DEF NothingIsLeftBehind, Live
  <2>11. OneNewest' /\ Handled'
    BY <1>0, <2>2, <2>3 DEF OneNewest, Handled
  <2>. QED
    BY <2>5, <2>6, <2>7, <2>8, <2>9, <2>10, <2>11 DEF RunnerInv
<1>4. CASE CreateAnswered(r)
  <2>1. CASE Answered(r) /\ UNCHANGED removals
    BY <1>2, <1>4, <2>1 DEF CreateAnswered
  <2>2. CASE /\ run[r] = "abandoned" /\ run' = [run EXCEPT ![r] = "ended"]
             /\ removals' = removals \cup {[id |-> r, for |-> "orphan", run |-> r, newest |-> FALSE, state |-> "sent"]}
             /\ UNCHANGED <<held, page>>
    BY <1>3, <1>4, <2>2 DEF CreateAnswered
  <2>. QED
    BY <1>4, <2>1, <2>2 DEF CreateAnswered
<1>5. CASE CreateFails(r)
  BY <1>3, <1>5 DEF CreateFails
<1>. QED
  BY <1>4, <1>5

\* The server handles a deletion.
LEMMA DeletingKeepsRunner ==
    ASSUME CurriculumWizardAssumption, PageType, RunnerInv, NEW m \in removals, ServerDeletes(m)
    PROVE  RunnerInv'
<1>. DEFINE state   == IF sessions[m.id] = "confirmed" THEN "refused" ELSE "done"
            handled == [m EXCEPT !.state = state]
<1>0. /\ sessions \in [Analyses -> SessionStatus] /\ removals \subseteq Removals /\ m \in Removals /\ m.id \in Analyses
      /\ OneNewest /\ HeldAlone /\ WaitsForNewest /\ Handled /\ ShownIsHeld /\ SavingIsHeld /\ NothingIsLeftBehind
      /\ UNCHANGED <<held, run, saving, page, lost>>
  BY DEF RunnerInv, RunnerType, Removals, ServerDeletes
<1>1. /\ handled \in Removals /\ handled.id = m.id /\ handled.for = m.for /\ handled.run = m.run
      /\ handled.newest = m.newest /\ removals' = (removals \ {m}) \cup {handled}
  BY <1>0 DEF ServerDeletes, Removals
<1>. HIDE DEF handled
<1>2. /\ sessions' \in [Analyses -> SessionStatus] /\ \A q \in Analyses \ {m.id} : sessions'[q] = sessions[q]
      /\ sessions'[m.id] \in {"confirmed", "expired", "deleted"}
      /\ sessions[m.id] = "confirmed" => sessions'[m.id] = "confirmed"
  <2>1. \E to \in {"confirmed", "expired", "deleted"} :
           sessions' = [sessions EXCEPT ![m.id] = to] /\ (sessions[m.id] = "confirmed" => to = "confirmed")
    BY DEF ServerDeletes
  <2>. QED
    BY <1>0, <2>1 DEF SessionStatus
<1>3. /\ \A n \in removals' : n = handled \/ (n \in removals /\ n # m)
      /\ \A n \in removals' : n.newest => \E k \in removals : k.newest /\ k.id = n.id /\ k.for = n.for /\ k.run = n.run
  BY <1>1
<1>4. RunnerType'
  BY <1>0, <1>1, <1>2 DEF RunnerInv, RunnerType
<1>5. OneNewest'
  BY <1>0, <1>1, <1>3 DEF OneNewest
<1>6. HeldAlone'
  BY <1>0, <1>3 DEF HeldAlone
<1>7. WaitsForNewest'
  BY <1>0, <1>1, <1>3 DEF WaitsForNewest
<1>8. Handled'
  <2>1. ASSUME NEW n \in removals', n.state # "sent"
        PROVE  sessions'[n.id] \notin Live \cup {"none"}
    <3>1. n.id \in Analyses
      BY <1>4 DEF RunnerType, Removals
    <3>2. CASE n.id = m.id
      BY <1>2, <3>2 DEF Live
    <3>3. CASE n.id # m.id
      BY <1>0, <1>1, <1>2, <1>3, <2>1, <3>1, <3>3 DEF Handled
    <3>. QED
      BY <3>2, <3>3
  <2>. QED
    BY <2>1 DEF Handled
<1>9. ShownIsHeld'
  BY <1>0, <1>3 DEF ShownIsHeld, Keeps
<1>10. SavingIsHeld'
  <2>1. saving.state # "none" => saving.id \in Ids
    BY SavingIs DEF Imports
  <2>. QED
    BY <1>0, <1>2, <1>3, <2>1, WizardValues DEF SavingIsHeld, Keeps
<1>11. NothingIsLeftBehind'
  <2>1. \A q \in Analyses : sessions'[q] \in Live => q # m.id /\ sessions[q] \in Live
    BY <1>2 DEF Live
  <2>. QED
    BY <1>0, <1>1, <2>1 DEF NothingIsLeftBehind
<1>12. OneAtWork'
  BY <1>0 DEF RunnerInv, OneAtWork
<1>. QED
  BY <1>4, <1>5, <1>6, <1>7, <1>8, <1>9, <1>10, <1>11, <1>12 DEF RunnerInv

\* An answered deletion lets the analysis that waited for it go on.
LEMMA AnsweredKeepsRunner ==
    ASSUME CurriculumWizardAssumption, PageType, RunnerInv, NEW m \in removals, RemovalAnswered(m)
    PROVE  RunnerInv'
<1>0. /\ RunnerType /\ OneAtWork /\ OneNewest /\ HeldAlone /\ WaitsForNewest /\ Handled
      /\ ShownIsHeld /\ SavingIsHeld /\ NothingIsLeftBehind
      /\ m.state = "done" /\ sessions[m.id] \notin Live /\ UNCHANGED <<sessions, saving, lost>>
  BY DEF RunnerInv, RemovalAnswered, Handled
<1>1. CASE m.for = "close" /\ page.open /\ LeavePage("quiet", removals \ {m})
  BY <1>0, <1>1, LeavingKeepsRunner
<1>2. CASE /\ removals' = removals \ {m} /\ UNCHANGED <<held, page, checks>>
           /\ \/ m.for = "run" /\ run' = [run EXCEPT ![m.run] = IF @ = "cleaning" THEN "creating" ELSE @]
              \/ m.for # "run" /\ UNCHANGED run
  <2>1. \/ run' = run /\ ~(m.for = "run" /\ run[m.run] = "cleaning")
        \/ /\ m.for = "run" /\ m.run \in Analyses /\ run[m.run] = "cleaning" /\ m.newest
           /\ run' = [run EXCEPT ![m.run] = "creating"]
    BY <1>0, <1>2 DEF RunnerType, WaitsForNewest
  <2>2. /\ run' \in [Analyses -> Working \cup {"unused", "abandoned", "ended"}]
        /\ \A q \in Analyses : \/ run'[q] = run[q]
                               \/ run[q] = "cleaning" /\ run'[q] = "creating" /\ m.newest
        /\ \A q \in Analyses : run'[q] = "cleaning" => run[q] = "cleaning"
    BY <1>0, <2>1 DEF RunnerType, Working
  <2>3. \A n \in removals' : n \in removals /\ (m.newest => ~n.newest)
    BY <1>0, <1>2 DEF OneNewest
  <2>4. RunnerType'
    BY <1>0, <1>2, <2>2 DEF RunnerType
  <2>5. OneAtWork'
    BY <1>0, <1>2, <2>2 DEF OneAtWork, Working
  <2>6. OneNewest' /\ Handled'
    BY <1>0, <1>2, <2>3 DEF OneNewest, Handled
  <2>7. HeldAlone'
    BY <1>0, <1>2, <2>2, <2>3 DEF HeldAlone
  <2>8. WaitsForNewest'
    BY <1>0, <2>2, <2>3 DEF WaitsForNewest
  <2>9. ShownIsHeld' /\ SavingIsHeld'
    BY <1>0, <1>2, <2>3 DEF ShownIsHeld, SavingIsHeld, Keeps
  <2>10. NothingIsLeftBehind'
    BY <1>0, <1>2, <2>2 DEF NothingIsLeftBehind
  <2>. QED
    BY <2>4, <2>5, <2>6, <2>7, <2>8, <2>9, <2>10 DEF RunnerInv
<1>. QED
  BY <1>1, <1>2 DEF RemovalAnswered

\* A deletion that fails gives the session back, if it was the newest, and ends the analysis
\* that waited for it; or the session is lost.
LEMMA FailingKeepsRunner ==
    ASSUME CurriculumWizardAssumption, PageType, RunnerInv, NEW m \in removals, RemovalFails(m)
    PROVE  RunnerInv'
<1>0. /\ RunnerType /\ OneAtWork /\ OneNewest /\ HeldAlone /\ WaitsForNewest /\ Handled
      /\ ShownIsHeld /\ SavingIsHeld /\ NothingIsLeftBehind
      /\ m.id \in Analyses /\ m.id \in Ids /\ m.id # 0 /\ removals' = removals \ {m} /\ UNCHANGED <<sessions, saving, page>>
  BY WizardValues DEF RunnerInv, RunnerType, Removals, RemovalFails
<1>1. \/ run' = run /\ ~(m.for = "run" /\ run[m.run] = "cleaning")
      \/ /\ m.for = "run" /\ m.run \in Analyses /\ run[m.run] = "cleaning"
         /\ run' = [run EXCEPT ![m.run] = "ended"]
  BY <1>0 DEF RemovalFails, WaitsForNewest
<1>2. /\ run' \in [Analyses -> Working \cup {"unused", "abandoned", "ended"}]
      /\ \A q \in Analyses : \/ run'[q] = run[q]
                             \/ run[q] = "cleaning" /\ run'[q] = "ended"
      /\ m.for = "run" => run'[m.run] # "cleaning"
  BY <1>0, <1>1 DEF RunnerType, Working, WaitsForNewest
<1>3. \A n \in removals' : n \in removals /\ (m.newest => ~n.newest)
  BY <1>0 DEF OneNewest
<1>4. \/ m.newest /\ held = 0 /\ held' = m.id /\ lost' = lost
      \/ held' = held /\ lost' = lost \cup {m.id}
  BY DEF RemovalFails
<1>5. RunnerType'
  BY <1>0, <1>2, <1>4 DEF RunnerType
<1>6. OneAtWork'
  BY <1>0, <1>2 DEF OneAtWork, Working
<1>7. OneNewest' /\ Handled'
  BY <1>0, <1>3 DEF OneNewest, Handled
<1>8. HeldAlone'
  <2>1. CASE m.newest /\ held = 0 /\ held' = m.id
    <3>1. \A q \in Analyses : run'[q] \notin {"cleaning", "creating", "sleeping", "polling"}
      <4>1. \A q \in Analyses : run[q] = "cleaning" => m.for = "run" /\ m.run = q
        BY <1>0, <2>1 DEF WaitsForNewest
      <4>2. \A q \in Analyses : run[q] \notin {"creating", "sleeping", "polling"}
        BY <1>0, <2>1, WizardValues DEF HeldAlone
      <4>. QED
        BY <1>2, <4>1, <4>2
    <3>. QED
      BY <1>3, <2>1, <3>1 DEF HeldAlone
  <2>2. CASE held' = held
    BY <1>0, <1>2, <1>3, <2>2 DEF HeldAlone
  <2>. QED
    BY <1>4, <2>1, <2>2
<1>9. WaitsForNewest'
  BY <1>0, <1>2, <1>3 DEF WaitsForNewest
<1>10. ShownIsHeld' /\ SavingIsHeld'
  <2>1. ASSUME NEW i, Keeps(i) PROVE i # 0 => held' \in {0, i} /\ \A n \in removals' : n.newest => n.id = i
    BY <1>3, <1>4, <2>1 DEF Keeps
  <2>2. ShownIsHeld'
    BY <1>0, <2>1 DEF ShownIsHeld, Keeps
  <2>3. SavingIsHeld'
    BY <1>0, <2>1 DEF SavingIsHeld, Keeps
  <2>. QED
    BY <2>2, <2>3
<1>11. NothingIsLeftBehind'
  BY <1>0, <1>2, <1>4, WizardValues DEF NothingIsLeftBehind
<1>. QED
  BY <1>5, <1>6, <1>7, <1>8, <1>9, <1>10, <1>11 DEF RunnerInv

\* What an import sends is what the runner holds; it gives it up when the server has
\* confirmed it.
LEMMA ImportingKeepsRunner ==
    ASSUME CurriculumWizardAssumption, PageType, RunnerInv,
           HandleImport \/ ServerImports \/ ImportAnswered \/ ImportFails
    PROVE  RunnerInv'
<1>0. /\ RunnerType /\ OneAtWork /\ OneNewest /\ HeldAlone /\ WaitsForNewest /\ Handled
      /\ ShownIsHeld /\ SavingIsHeld /\ NothingIsLeftBehind /\ page \in Pages /\ UNCHANGED <<run, removals, lost>>
  BY DEF RunnerInv, PageType, Sound, HandleImport, ServerImports, ImportAnswered, ImportFails
<1>1. OneNewest' /\ WaitsForNewest'
  BY <1>0 DEF OneNewest, WaitsForNewest
<1>2. CASE HandleImport
  <2>1. /\ UNCHANGED <<sessions, held, page>> /\ page.step = "review"
        /\ saving'.id \in {0, page.shown.id} /\ saving'.state = "sent"
    BY <1>2 DEF HandleImport
  <2>2. SavingIsHeld'
    BY <1>0, <2>1 DEF SavingIsHeld, ShownIsHeld, Keeps
  <2>3. RunnerType' /\ OneAtWork' /\ HeldAlone' /\ Handled' /\ ShownIsHeld' /\ NothingIsLeftBehind'
    BY <1>0, <2>1 DEF RunnerType, OneAtWork, HeldAlone, Handled, ShownIsHeld, Keeps, NothingIsLeftBehind
  <2>. QED
    BY <1>1, <2>2, <2>3 DEF RunnerInv
<1>3. CASE ServerImports
  <2>1. saving \in Imports /\ saving.state = "sent" /\ UNCHANGED <<held, page>>
    BY <1>3, SavingIs DEF ServerImports
  <2>2. \/ saving' = [saving EXCEPT !.state = "created"]
        \/ \E answer \in {"matches", "refused"} : saving' = [saving EXCEPT !.state = answer]
    BY <1>3 DEF ServerImports
  <2>3. saving'.id = saving.id /\ (saving'.state = "created" => saving' = [saving EXCEPT !.state = "created"])
    BY <2>1, <2>2 DEF Imports
  <2>4. /\ sessions' \in [Analyses -> SessionStatus]
        /\ \A q \in Analyses : sessions'[q] \in {sessions[q], "confirmed"}
        /\ saving'.state = "created" /\ saving.id # 0 => sessions'[saving.id] = "confirmed"
    <3>1. CASE sessions' = [q \in Analyses |-> IF q = saving.id THEN "confirmed" ELSE sessions[q]]
      <4>1. saving.id # 0 => saving.id \in Analyses
        BY <2>1, WizardValues DEF Imports
      <4>. QED
        BY <1>0, <3>1, <4>1 DEF RunnerType, SessionStatus
    <3>2. CASE sessions' = sessions /\ \E answer \in {"matches", "refused"} : saving' = [saving EXCEPT !.state = answer]
      <4>1. saving'.state # "created"
        BY <2>1, <3>2 DEF Imports
      <4>. QED
        BY <1>0, <3>2, <4>1 DEF RunnerType
    <3>. QED
      BY <1>3, <3>1, <3>2 DEF ServerImports
  <2>5. RunnerType' /\ OneAtWork' /\ HeldAlone' /\ ShownIsHeld'
    BY <1>0, <2>1, <2>4 DEF RunnerType, OneAtWork, HeldAlone, ShownIsHeld, Keeps
  <2>6. Handled'
    <3>1. \A m \in removals : m.id \in Analyses
      BY <1>0 DEF RunnerType, Removals
    <3>. QED
      BY <1>0, <2>4, <3>1 DEF Handled, Live
  <2>7. SavingIsHeld'
    BY <1>0, <2>1, <2>3, <2>4 DEF SavingIsHeld, Keeps
  <2>8. NothingIsLeftBehind'
    <3>1. \A q \in Analyses : sessions'[q] \in Live => sessions[q] \in Live
      BY <2>4 DEF Live
    <3>. QED
      BY <1>0, <2>1, <3>1 DEF NothingIsLeftBehind
  <2>. QED
    BY <1>1, <2>5, <2>6, <2>7, <2>8 DEF RunnerInv
<1>4. CASE ImportAnswered \/ ImportFails
  <2>1. saving' = Nothing /\ saving'.state = "none" /\ saving.state # "none" /\ saving \in Imports /\ UNCHANGED sessions
    BY <1>4, SavingIs, WizardValues DEF ImportAnswered, ImportFails
  <2>2. \A q \in Analyses : run[q] \notin Working
    BY <1>0, <2>1 DEF OneAtWork, SavingIsHeld
  <2>3. page'.shown = page.shown
    <3>1. CASE page' = page
      BY <3>1
    <3>2. CASE page' = [page EXCEPT !.step = "done", !.due = FALSE]
      BY <1>0, <3>2 DEF Pages
    <3>3. CASE page' = [page EXCEPT !.acknowledged = NoText, !.validated = saving.text,
                                    !.matches = [of |-> saving.text, any |-> TRUE]]
      BY <1>0, <3>3 DEF Pages
    <3>4. CASE page' = [page EXCEPT !.acknowledged = NoText, !.validated = NoText]
      BY <1>0, <3>4 DEF Pages
    <3>. QED
      BY <1>4, <3>1, <3>2, <3>3, <3>4 DEF ImportAnswered, ImportFails
  <2>4. held' = held \/ (held' = 0 /\ saving.id # 0 /\ held \in {0, saving.id} /\ sessions[saving.id] = "confirmed")
    BY <1>0, <1>4, <2>1 DEF ImportAnswered, ImportFails, SavingIsHeld, Keeps
  <2>5. RunnerType'
    BY <1>0, <2>1, <2>4, WizardValues DEF RunnerType
  <2>6. OneAtWork'
    BY <1>0, <2>2 DEF OneAtWork
  <2>7. HeldAlone'
    BY <1>0, <2>2, <2>4 DEF HeldAlone, Working
  <2>8. Handled' /\ SavingIsHeld'
    BY <1>0, <2>1 DEF Handled, SavingIsHeld
  <2>9. ShownIsHeld'
    BY <1>0, <2>3, <2>4 DEF ShownIsHeld, Keeps
  <2>10. NothingIsLeftBehind'
    <3>1. \A q \in Analyses : sessions[q] \in Live /\ held = q => held' = q
      BY <2>4, WizardValues DEF Live
    <3>. QED
      BY <1>0, <2>1, <3>1 DEF NothingIsLeftBehind
  <2>. QED
    BY <1>1, <2>5, <2>6, <2>7, <2>8, <2>9, <2>10 DEF RunnerInv
<1>. QED
  BY <1>2, <1>3, <1>4

LEMMA WizardInvNext == ASSUME CurriculumWizardAssumption, WizardInv, [WizardNext]_wizardVars PROVE WizardInv'
<1>0. PageType /\ ImportsWhatWasChecked /\ RunnerInv /\ RunnerType /\ OneAtWork
  BY DEF WizardInv, RunnerInv
<1>1. PageType' /\ ImportsWhatWasChecked'
  BY <1>0, PageNext
<1>2. RunnerInv'
  <2>1. CASE UNCHANGED wizardVars
    <3>1. UNCHANGED <<sessions, held, run, removals, saving, lost, page>>
      BY <2>1 DEF wizardVars
    <3>. QED
      BY <1>0, <3>1, RunnerStays DEF RunnerInv, OneAtWork, SavingIsHeld
  <2>2. ASSUME NEW r \in Analyses,
               \/ Analyze(r) \/ ServerCreates(r) \/ CreateAnswered(r) \/ CreateFails(r)
               \/ WakeUp(r) \/ PollAnswered(r) \/ PollFails(r) \/ FinishTask(r) \/ Expire(r)
        PROVE  RunnerInv'
    BY <1>0, <2>2, AnalyzeKeepsRunner, SessionsKeepRunner, CreatingKeepsRunner, PollingKeepsRunner
  <2>3. ASSUME NEW m \in removals, ServerDeletes(m) \/ RemovalAnswered(m) \/ RemovalFails(m)
        PROVE  RunnerInv'
    BY <1>0, <2>3, DeletingKeepsRunner, AnsweredKeepsRunner, FailingKeepsRunner
  <2>4. CASE SwitchTab \/ Continue \/ Back \/ CheckAgain \/ \E t \in Texts : Preview(t) \/ Edit(t)
    BY <1>0, <2>4, MovingKeepsRunner
  <2>5. CASE SendCheck \/ Acknowledge \/ ShowExpiry \/ \E c \in checks : CheckAnswered(c) \/ CheckFails(c)
    BY <1>0, <2>5, CheckingKeepsRunner
  <2>6. CASE LoadExample \/ Close \/ Unmount
    BY <1>0, <2>6, LeavingKeepsRunner
  <2>7. CASE HandleImport \/ ServerImports \/ ImportAnswered \/ ImportFails
    BY <1>0, <2>7, ImportingKeepsRunner
  <2>. QED
    BY <2>1, <2>2, <2>3, <2>4, <2>5, <2>6, <2>7 DEF WizardNext
<1>. QED
  BY <1>1, <1>2 DEF WizardInv

\* Whatever is given up, closed or left while a request is under way, a live session is held,
\* awaited or being deleted: only a request of its own that failed leaves it to its expiry.
THEOREM NothingStaysBehind ==
    ASSUME CurriculumWizardAssumption
    PROVE  WizardSpec => []NothingIsLeftBehind
<1>1. WizardInv /\ [WizardNext]_wizardVars => WizardInv'
  BY WizardInvNext
<1>2. WizardInv => NothingIsLeftBehind
  BY DEF WizardInv, RunnerInv
<1>. QED
  BY <1>1, <1>2, WizardInvInit, PTL DEF WizardSpec

\* However the checks are answered, a text is imported with the duplicates that were found
\* for it, accepted for it, and to the session that drafted it.
THEOREM ImportsWereChecked ==
    ASSUME CurriculumWizardAssumption
    PROVE  WizardSpec => []ImportsWhatWasChecked
<1>1. WizardInv /\ [WizardNext]_wizardVars => WizardInv'
  BY WizardInvNext
<1>2. WizardInv => ImportsWhatWasChecked
  BY DEF WizardInv
<1>. QED
  BY <1>1, <1>2, WizardInvInit, PTL DEF WizardSpec
=============================================================================
