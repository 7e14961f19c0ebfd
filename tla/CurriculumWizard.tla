-------------------------- MODULE CurriculumWizard --------------------------
(***************************************************************************)
(* The page that imports a curriculum (CurriculumImportWizard.tsx) and its *)
(* runner (curriculumImportSession.ts), against the server's sessions.     *)
(* Every request is in flight until the server has handled it and its      *)
(* answer has come; either may be lost.  While it is, the reader goes on   *)
(* clicking: starts another analysis, loads the example, edits, closes the *)
(* page or leaves it.                                                      *)
(*                                                                         *)
(* Analysis r creates session r.  The page's attempt and the runner's      *)
(* generation are increased together, so an analysis is the current one    *)
(* exactly if it is at one of the steps Working.  The page's effects run   *)
(* with the click that causes them.  What a text says matters only for     *)
(* whether it can be parsed and which curricula the server finds like it.  *)
(***************************************************************************)
EXTENDS Naturals

CONSTANTS
    Texts, Valid,   \* what the editor may hold, and what of it can be parsed
    MaxAnalyses     \* bound: analyses

\* What the constants must satisfy; assumed by the modules that give them values.
CurriculumWizardAssumption == MaxAnalyses \in Nat /\ Valid \subseteq Texts /\ "no text" \notin Texts

VARIABLES
    sessions,   \* analysis -> its session on the server
    held,       \* the session the runner would delete, or 0
    run,        \* analysis -> where the runner is with it
    removals,   \* DELETE requests in flight
    checks,     \* duplicate checks in flight
    saving,     \* the import in flight
    page,       \* what the page holds
    lost        \* history: sessions of which a request got no answer and the page no notice

wizardVars == <<sessions, held, run, removals, checks, saving, page, lost>>

Analyses  == 1..MaxAnalyses
NoText    == "no text"
NoMatches == [of |-> NoText, any |-> FALSE]
Nothing   == [state |-> "none"]
NotShown  == [id |-> 0, status |-> "none"]
Working   == {"cleaning", "creating", "sleeping", "polling"}
Analyzing == \E r \in Analyses : run[r] \in Working
Saving    == saving # Nothing
Live      == {"processing", "ready"}

Opened == [open |-> TRUE, step |-> "upload", mode |-> "manual", shown |-> NotShown, text |-> NoText,
           origin |-> 0, validated |-> NoText, matches |-> NoMatches, acknowledged |-> NoText,
           checking |-> FALSE, due |-> FALSE]
Closed == [Opened EXCEPT !.open = FALSE]

WizardInit ==
    /\ sessions = [r \in Analyses |-> "none"]
    /\ run = [r \in Analyses |-> "unused"]
    /\ held = 0 /\ removals = {} /\ checks = {} /\ saving = Nothing /\ lost = {}
    /\ page = Opened

-----------------------------------------------------------------------------
(* The runner. *)

\* cancel: whatever runs stops, a session not yet answered is left for its answer, and
\* the one that is held is deleted; only the newest cancel gets it back if that fails.
Stopped == [r \in Analyses |-> IF run[r] = "creating" THEN "abandoned"
                               ELSE IF run[r] \in Working THEN "ended" ELSE run[r]]
Removing(for, r) ==
    {[m EXCEPT !.newest = FALSE] : m \in removals}
    \cup (IF held = 0 THEN {} ELSE {[id |-> held, for |-> for, run |-> r, newest |-> TRUE, state |-> "sent"]})

\* The effect that checks for duplicates, when the text or the step has changed.
Preflight(p) == [p EXCEPT !.validated = NoText, !.acknowledged = NoText, !.matches = NoMatches,
                          !.checking = TRUE, !.due = TRUE]
Superseded   == {[c EXCEPT !.current = FALSE] : c \in checks}

Analyze(r) ==
    /\ page.open /\ page.step = "upload" /\ page.mode = "ai" /\ ~Analyzing
    /\ run[r] = "unused" /\ \A q \in 1..r - 1 : run[q] # "unused"
    /\ run' = [Stopped EXCEPT ![r] = IF held = 0 THEN "creating" ELSE "cleaning"]
    /\ removals' = Removing("run", r) /\ held' = 0
    /\ page' = [page EXCEPT !.shown = NotShown]
    /\ UNCHANGED <<sessions, checks, saving, lost>>

ServerCreates(r) ==
    /\ run[r] \in {"creating", "abandoned"} /\ sessions[r] = "none"
    /\ sessions' = [sessions EXCEPT ![r] = "processing"]
    /\ UNCHANGED <<held, run, removals, checks, saving, page, lost>>

Answered(r) ==
    LET status == IF sessions[r] = "expired" THEN "expired" ELSE "processing" IN
    /\ run[r] = "creating" /\ held' = r
    /\ run' = [run EXCEPT ![r] = IF status = "processing" THEN "sleeping" ELSE "ended"]
    /\ page' = [page EXCEPT !.shown = [id |-> r, status |-> status]]

\* Mutant: an analysis that was given up returns without deleting what it created.
CreateAnsweredLate(r) ==
    /\ sessions[r] # "none"
    /\ \/ Answered(r)
       \/ /\ run[r] = "abandoned" /\ run' = [run EXCEPT ![r] = "ended"]
          /\ UNCHANGED <<held, page>>
    /\ UNCHANGED <<sessions, removals, checks, saving, lost>>

CreateAnswered(r) ==
    /\ sessions[r] # "none"
    /\ \/ Answered(r) /\ UNCHANGED removals
       \/ /\ run[r] = "abandoned" /\ run' = [run EXCEPT ![r] = "ended"]
          /\ removals' = removals \cup {[id |-> r, for |-> "orphan", run |-> r, newest |-> FALSE, state |-> "sent"]}
          /\ UNCHANGED <<held, page>>
    /\ UNCHANGED <<sessions, checks, saving, lost>>

CreateFails(r) ==
    /\ run[r] \in {"creating", "abandoned"}
    /\ run' = [run EXCEPT ![r] = "ended"]
    /\ lost' = IF sessions[r] = "none" THEN lost ELSE lost \cup {r}
    /\ UNCHANGED <<sessions, held, removals, checks, saving, page>>

WakeUp(r) ==
    /\ run[r] = "sleeping" /\ run' = [run EXCEPT ![r] = "polling"]
    /\ UNCHANGED <<sessions, held, removals, checks, saving, page, lost>>

\* A draft goes to the editor; anything else but processing ends the analysis with a
\* message.
PollAnswered(r) ==
    LET shown == [page EXCEPT !.shown = [id |-> r, status |-> sessions[r]]] IN
    /\ run[r] = "polling"
    /\ run' = [run EXCEPT ![r] = IF sessions[r] = "processing" THEN "sleeping" ELSE "ended"]
    /\ \/ /\ sessions[r] # "ready" /\ page' = shown /\ UNCHANGED checks
       \/ /\ sessions[r] = "ready"
          /\ \E t \in Valid : page' = Preflight([shown EXCEPT !.step = "preview", !.text = t, !.origin = r])
          /\ checks' = Superseded
    /\ UNCHANGED <<sessions, held, removals, saving, lost>>

PollFails(r) ==
    /\ run[r] = "polling" /\ run' = [run EXCEPT ![r] = "ended"]
    /\ UNCHANGED <<sessions, held, removals, checks, saving, page, lost>>

-----------------------------------------------------------------------------
(* Deletions: of a session that the server has confirmed they are refused. *)

ServerDeletes(m) ==
    LET s == sessions[m.id] IN
    /\ m \in removals /\ m.state = "sent"
    /\ removals' = (removals \ {m}) \cup {[m EXCEPT !.state = IF s = "confirmed" THEN "refused" ELSE "done"]}
    /\ sessions' = [sessions EXCEPT ![m.id] = IF s \in {"confirmed", "expired"} THEN s ELSE "deleted"]
    /\ UNCHANGED <<held, run, checks, saving, page, lost>>

\* Leaving the page cancels too.
LeavePage(for, requests) ==
    /\ page' = Closed /\ checks' = {}
    /\ run' = Stopped /\ held' = 0
    /\ removals' = {[m EXCEPT !.newest = FALSE] : m \in requests}
         \cup (IF held = 0 THEN {} ELSE {[id |-> held, for |-> for, run |-> 0, newest |-> TRUE, state |-> "sent"]})

\* The analysis that waited for it goes on, the page that waited for it closes.
RemovalAnswered(m) ==
    /\ m \in removals /\ m.state = "done"
    /\ \/ /\ m.for = "run"
          /\ run' = [run EXCEPT ![m.run] = IF @ = "cleaning" THEN "creating" ELSE @]
          /\ removals' = removals \ {m} /\ UNCHANGED <<held, page, checks>>
       \/ m.for = "close" /\ page.open /\ LeavePage("quiet", removals \ {m})
       \/ /\ m.for \in {"quiet", "orphan"} \/ (m.for = "close" /\ ~page.open)
          /\ removals' = removals \ {m} /\ UNCHANGED <<held, run, page, checks>>
    /\ UNCHANGED <<sessions, saving, lost>>

\* It was refused, or its answer or itself is lost.
RemovalFails(m) ==
    /\ m \in removals /\ m.state \in {"sent", "done", "refused"}
    /\ removals' = removals \ {m}
    /\ run' = IF m.for = "run" /\ run[m.run] = "cleaning" THEN [run EXCEPT ![m.run] = "ended"] ELSE run
    /\ \/ m.newest /\ held = 0 /\ held' = m.id /\ lost' = lost
       \/ ~(m.newest /\ held = 0) /\ held' = held /\ lost' = lost \cup {m.id}
    /\ UNCHANGED <<sessions, checks, saving, page>>

-----------------------------------------------------------------------------
(* The page. *)

SwitchTab ==
    /\ page.open /\ page.step = "upload" /\ ~Analyzing
    /\ page' = [page EXCEPT !.mode = IF @ = "ai" THEN "manual" ELSE "ai"]
    /\ UNCHANGED <<sessions, held, run, removals, checks, saving, lost>>

LoadExample ==
    /\ page.open /\ ~Saving
    /\ run' = Stopped /\ removals' = Removing("quiet", 0) /\ held' = 0
    /\ page' = [page EXCEPT !.step = "upload", !.mode = "manual", !.shown = NotShown, !.text = NoText, !.origin = 0,
                            !.validated = NoText, !.acknowledged = NoText, !.due = FALSE]
    /\ checks' = Superseded
    /\ UNCHANGED <<sessions, saving, lost>>

Preview(t) ==
    /\ page.open /\ page.step = "upload" /\ page.mode = "manual" /\ ~Analyzing /\ t \in Valid
    /\ page' = Preflight([page EXCEPT !.step = "preview", !.text = t, !.origin = 0])
    /\ checks' = Superseded
    /\ UNCHANGED <<sessions, held, run, removals, saving, lost>>

Edit(t) ==
    /\ page.open /\ page.step = "preview" /\ t \in Texts \ {page.text}
    /\ page' = Preflight([page EXCEPT !.text = t])
    /\ checks' = Superseded
    /\ UNCHANGED <<sessions, held, run, removals, saving, lost>>

Continue ==
    /\ page.open /\ page.step = "preview" /\ page.text \in Valid
    /\ page' = Preflight([page EXCEPT !.step = "review"]) /\ checks' = Superseded
    /\ UNCHANGED <<sessions, held, run, removals, saving, lost>>

Back ==
    /\ page.open
    /\ \/ page.step = "review" /\ ~Saving /\ page' = Preflight([page EXCEPT !.step = "preview"])
       \/ page.step = "preview" /\ page' = [page EXCEPT !.step = "upload", !.due = FALSE]
    /\ checks' = Superseded
    /\ UNCHANGED <<sessions, held, run, removals, saving, lost>>

CheckAgain ==
    /\ page.open /\ page.step \in {"preview", "review"} /\ ~page.checking /\ page.validated # page.text
    /\ page' = Preflight(page) /\ checks' = Superseded
    /\ UNCHANGED <<sessions, held, run, removals, saving, lost>>

\* The timer of the check ends: what cannot be parsed is not sent.
SendCheck ==
    /\ page.open /\ page.due
    /\ \/ /\ page.text \in Valid
          /\ checks' = checks \cup {[text |-> page.text, current |-> TRUE]}
          /\ page' = [page EXCEPT !.due = FALSE]
       \/ /\ page.text \notin Valid
          /\ checks' = checks /\ page' = [page EXCEPT !.due = FALSE, !.checking = FALSE]
    /\ UNCHANGED <<sessions, held, run, removals, saving, lost>>

\* Mutant: any answer is taken for one about the text in the editor.
CheckAnsweredLate(c) ==
    /\ c \in checks /\ checks' = checks \ {c}
    /\ \E any \in BOOLEAN :
          page' = [page EXCEPT !.checking = FALSE, !.validated = page.text, !.matches = [of |-> c.text, any |-> any]]
    /\ UNCHANGED <<sessions, held, run, removals, saving, lost>>

\* Only the check of the text as it is now is used.
CheckAnswered(c) ==
    /\ c \in checks /\ checks' = checks \ {c}
    /\ \/ /\ c.current
          /\ \E any \in BOOLEAN :
                page' = [page EXCEPT !.checking = FALSE, !.validated = c.text, !.matches = [of |-> c.text, any |-> any]]
       \/ ~c.current /\ page' = page
    /\ UNCHANGED <<sessions, held, run, removals, saving, lost>>

CheckFails(c) ==
    /\ c \in checks /\ checks' = checks \ {c}
    /\ page' = [page EXCEPT !.checking = IF c.current THEN FALSE ELSE @]
    /\ UNCHANGED <<sessions, held, run, removals, saving, lost>>

Acknowledge ==
    /\ page.open /\ page.step \in {"preview", "review"} /\ ~Saving
    /\ page.validated = page.text /\ page.matches.any
    /\ page' = [page EXCEPT !.acknowledged = page.matches.of]
    /\ UNCHANGED <<sessions, held, run, removals, checks, saving, lost>>

HandleImport ==
    /\ page.open /\ page.step = "review" /\ ~Saving
    /\ page.validated = page.text /\ ~page.checking
    /\ page.matches.any => page.acknowledged # NoText
    /\ page.mode = "ai" => page.shown.status = "ready" /\ sessions[page.shown.id] # "expired"
    /\ saving' = [state |-> "sent", text |-> page.text, seen |-> page.matches,
                  acknowledged |-> page.acknowledged, origin |-> page.origin,
                  id |-> IF page.mode = "ai" THEN page.shown.id ELSE 0]
    /\ UNCHANGED <<sessions, held, run, removals, checks, page, lost>>

\* A session that is not ready is refused, and so are duplicates that were not acknowledged.
ServerImports ==
    /\ Saving /\ saving.state = "sent"
    /\ \/ /\ saving.id # 0 => sessions[saving.id] = "ready"
          /\ saving' = [saving EXCEPT !.state = "created"]
          /\ sessions' = [r \in Analyses |-> IF r = saving.id THEN "confirmed" ELSE sessions[r]]
       \/ /\ \E answer \in {"matches", "refused"} : saving' = [saving EXCEPT !.state = answer]
          /\ UNCHANGED sessions
    /\ UNCHANGED <<held, run, removals, checks, page, lost>>

ImportAnswered ==
    /\ Saving /\ saving' = Nothing
    /\ \/ /\ saving.state = "created"
          /\ held' = IF saving.id # 0 THEN 0 ELSE held
          /\ page' = IF page.open THEN [page EXCEPT !.step = "done", !.due = FALSE] ELSE page
          /\ checks' = Superseded
       \/ /\ saving.state = "matches"
          /\ page' = IF page.open THEN [page EXCEPT !.acknowledged = NoText, !.validated = saving.text,
                                                    !.matches = [of |-> saving.text, any |-> TRUE]]
                     ELSE page
          /\ UNCHANGED <<held, checks>>
       \/ /\ saving.state = "refused"
          /\ page' = IF page.open THEN [page EXCEPT !.acknowledged = NoText, !.validated = NoText] ELSE page
          /\ UNCHANGED <<held, checks>>
    /\ UNCHANGED <<sessions, run, removals, lost>>

ImportFails ==
    /\ Saving /\ saving' = Nothing
    /\ UNCHANGED <<sessions, held, run, removals, checks, page, lost>>

Close ==
    /\ page.open /\ ~Saving
    /\ \/ held = 0 /\ LeavePage("quiet", removals)
       \/ /\ held # 0
          /\ run' = Stopped /\ removals' = Removing("close", 0) /\ held' = 0
          /\ UNCHANGED <<page, checks>>
    /\ UNCHANGED <<sessions, saving, lost>>

Unmount ==
    /\ page.open /\ LeavePage("quiet", removals)
    /\ UNCHANGED <<sessions, saving, lost>>

-----------------------------------------------------------------------------
(* The server's task, and time. *)

FinishTask(r) ==
    /\ sessions[r] = "processing"
    /\ \E status \in {"ready", "failed"} : sessions' = [sessions EXCEPT ![r] = status]
    /\ UNCHANGED <<held, run, removals, checks, saving, page, lost>>

Expire(r) ==
    /\ sessions[r] \in {"processing", "ready", "failed"}
    /\ sessions' = [sessions EXCEPT ![r] = "expired"]
    /\ UNCHANGED <<held, run, removals, checks, saving, page, lost>>

\* The page's own timer.
ShowExpiry ==
    /\ page.open /\ page.shown.status = "ready" /\ sessions[page.shown.id] = "expired"
    /\ page' = [page EXCEPT !.shown.status = "expired"]
    /\ UNCHANGED <<sessions, held, run, removals, checks, saving, lost>>

WizardNext ==
    \/ \E r \in Analyses :
          \/ Analyze(r) \/ ServerCreates(r) \/ CreateAnswered(r) \/ CreateFails(r)
          \/ WakeUp(r) \/ PollAnswered(r) \/ PollFails(r) \/ FinishTask(r) \/ Expire(r)
    \/ \E m \in removals : ServerDeletes(m) \/ RemovalAnswered(m) \/ RemovalFails(m)
    \/ \E c \in checks : CheckAnswered(c) \/ CheckFails(c)
    \/ \E t \in Texts : Preview(t) \/ Edit(t)
    \/ SwitchTab \/ LoadExample \/ Continue \/ Back \/ CheckAgain \/ SendCheck \/ Acknowledge
    \/ HandleImport \/ ServerImports \/ ImportAnswered \/ ImportFails
    \/ Close \/ Unmount \/ ShowExpiry

WizardSpec == WizardInit /\ [][WizardNext]_wizardVars

-----------------------------------------------------------------------------
\* No session is left behind (curriculumImportSession.ts): one that is live is held by the
\* runner, on its way to it or being deleted, whatever was given up, closed or left in the
\* meantime.  Only a request of its own that failed loses it to its expiry.
NothingIsLeftBehind ==
    \A r \in Analyses : sessions[r] \in Live =>
        \/ held = r
        \/ run[r] \in {"creating", "abandoned"}
        \/ \E m \in removals : m.id = r
        \/ r \in lost

\* What is imported is what was checked (handleImport): the duplicates that the reader saw,
\* and accepted, are those of the text that is sent, however the checks were answered; and a
\* draft is sent to the session it came from.
ImportsWhatWasChecked ==
    Saving => /\ saving.seen.of = saving.text
              /\ saving.seen.any => saving.acknowledged = saving.text
              /\ saving.id # 0 => saving.origin = saving.id
=============================================================================
