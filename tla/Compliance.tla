----------------------------- MODULE Compliance -----------------------------
(***************************************************************************)
(* Compliance checks and notifications (backend/services/compliance.py,    *)
(* backend/services/notifications.py).  Reading the compliance page of a   *)
(* student checks every rule of a school year, saves the results as rows   *)
(* that are unique per year and rule, and reminds of the rules that are    *)
(* not met, all in one transaction.  The worker's maintenance and the      *)
(* graders notify too, in transactions of their own.  Before it writes a   *)
(* notification a transaction looks for one of the same title within the   *)
(* title's window.  One student and one of the family's users are          *)
(* modelled; a transaction sees what was committed and what it has written.*)
(***************************************************************************)
EXTENDS Integers, Sequences, FiniteSets

CONSTANTS
    Years,       \* the school years
    Rules,       \* a sequence of rules [type, required], in the order they are reported
    Progress,    \* year -> the percentage of it that has passed, at each time 0..CheckTime
    Window,      \* title -> how long a notification of it suppresses the next
    Senders,     \* transactions that may be open
    MaxFacts,    \* bound: what is recorded towards a rule
    CheckTime,   \* bound: ticks
    MaxSent      \* bound: notifications

Titles == {"Compliance warning", "Compliance non compliant", "Due soon", "Grading complete"}

\* What the constants must satisfy; assumed by the modules that give them values.
ComplianceAssumption ==
    /\ {MaxFacts, CheckTime, MaxSent} \subseteq Nat
    /\ Rules \in Seq([type : {"attendance", "subjects", "evidence"}, required : Nat])
    /\ Progress \in [Years -> [0..CheckTime -> 0..100]]
    /\ Window \in [Titles -> Nat]
    /\ IsFiniteSet(Senders)

VARIABLES
    clock,    \* the time
    saved,    \* the years that have status rows
    sent,     \* the committed notifications
    sender    \* the open transactions

complianceVars == <<clock, saved, sent, sender>>

Closed ==
    [kind |-> "closed", of |-> "closed", step |-> "closed", unmet |-> << >>, found |-> FALSE,
     began |-> 0, wrote |-> {}, alone |-> FALSE]

ComplianceInit ==
    /\ clock = 0
    /\ saved = {}
    /\ sent = {}
    /\ sender = [t \in Senders |-> Closed]

Open(t) == sender[t] # Closed

-----------------------------------------------------------------------------
(* What a check computes. *)

\* _derive_status.  Progress and the expectation are percentages.
Derived(rule, current, progress) ==
    CASE current >= rule.required -> "compliant"
      [] progress >= 100 -> "non compliant"
      [] rule.type = "subjects" -> "warning"
      [] rule.type = "evidence" -> IF progress >= 80 THEN "warning" ELSE "compliant"
      [] OTHER -> IF progress >= 25 /\ 1000 * current < 9 * rule.required * progress
                  THEN "warning" ELSE "compliant"

\* The rules that a check of a year finds unmet, with their states.
Unmet(y, current) ==
    LET State(r) == Derived(Rules[r], current[r], Progress[y][clock])
    IN  [r \in {q \in 1..Len(Rules) : State(q) # "compliant"} |-> State(r)]

-----------------------------------------------------------------------------
(* Notifications. *)

\* A transaction that begins overlaps those that are open, and they it.
Begun(t, kind, of, step, unmet) ==
    LET others == {u \in Senders : Open(u)} IN
    [u \in Senders |->
        IF u = t THEN [kind |-> kind, of |-> of, step |-> step, unmet |-> unmet, found |-> FALSE,
                       began |-> clock, wrote |-> {}, alone |-> others = {}]
        ELSE IF Open(u) THEN [sender[u] EXCEPT !.alone = FALSE] ELSE Closed]

Visible(t) == sent \cup sender[t].wrote

Written == sent \cup UNION {sender[t].wrote : t \in {u \in Senders : Open(u)}}

\* Mutant: a notification that was read suppresses nothing.
EarlierUnread(t, title) ==
    {n \in Visible(t) : n.title = title /\ n.created >= clock - Window[title] /\ ~n.read}

\* The notifications _notification_exists finds.  It asks for one row or none:
\* two raise an error, and the transaction is rolled back.
Earlier(t, title) ==
    {n \in Visible(t) : n.title = title /\ n.created >= clock - Window[title]}

\* create_notification writes for a user who, at that time, takes them in the
\* app; created_at is the time the transaction began.
Notice(t, title) ==
    [title |-> title, kind |-> sender[t].kind, of |-> sender[t].of, created |-> sender[t].began,
     at |-> clock, read |-> FALSE, alone |-> FALSE, id |-> CHOOSE i \in 1..MaxSent : \A n \in Written : n.id # i]

Wrote(t, title, inApp) ==
    IF Earlier(t, title) = {} /\ inApp THEN sender[t].wrote \cup {Notice(t, title)} ELSE sender[t].wrote

\* What a transaction has written, as it is kept: with whether another overlapped it.
Committed(t) == {[n EXCEPT !.alone = sender[t].alone] : n \in sender[t].wrote}

HasRoom == Cardinality(Written) < MaxSent

Fails(t, title) == Cardinality(Earlier(t, title)) > 1

RollBack(t) ==
    /\ sender' = [sender EXCEPT ![t] = Closed]
    /\ UNCHANGED <<clock, saved, sent>>

\* mark_notification_read, mark_all_notifications_read.
MarkRead(some) ==
    /\ some # {}
    /\ sent' = {n \in sent : n \notin some} \cup {[n EXCEPT !.read = TRUE] : n \in some}
    /\ UNCHANGED <<clock, saved, sender>>

-----------------------------------------------------------------------------
(* A check. *)

\* compute_student_statuses counts what is recorded towards each rule; between
\* two checks that may have become more or less.
BeginCheck(t, y, current) ==
    /\ ~Open(t)
    /\ sender' = Begun(t, "check", y, "computed", Unmet(y, current))
    /\ UNCHANGED <<clock, saved, sent>>

\* _upsert_statuses looks for the rows.
FindRows(t) ==
    /\ Open(t) /\ sender[t].kind = "check" /\ sender[t].step = "computed"
    /\ sender' = [sender EXCEPT ![t].step = "found", ![t].found = sender[t].of \in saved]
    /\ UNCHANGED <<clock, saved, sent>>

\* A transaction that has flushed its rows holds them, new or not, to its end.
Held(y) == \E u \in Senders : Open(u) /\ sender[u].kind = "check" /\ sender[u].of = y /\ sender[u].step = "reminding"

\* The flush waits for the rows.  The inserts of the first check of a year break
\* the unique constraint if another has been first meanwhile.
Flush(t) ==
    /\ Open(t) /\ sender[t].kind = "check" /\ sender[t].step = "found"
    /\ ~Held(sender[t].of)
    /\ sender' = IF ~sender[t].found /\ sender[t].of \in saved
                 THEN [sender EXCEPT ![t] = Closed]
                 ELSE [sender EXCEPT ![t].step = "reminding", ![t].found = TRUE]
    /\ UNCHANGED <<clock, saved, sent>>

Title(state) == IF state = "warning" THEN "Compliance warning" ELSE "Compliance non compliant"

\* _emit_compliance_notifications, one status after the other.
Remind(t) ==
    /\ Open(t) /\ sender[t].kind = "check" /\ sender[t].step = "reminding"
    /\ \E r \in DOMAIN sender[t].unmet :
        /\ \A q \in DOMAIN sender[t].unmet : r <= q
        /\ LET title == Title(sender[t].unmet[r]) IN
            \/ Fails(t, title) /\ RollBack(t)
            \/ /\ ~Fails(t, title) /\ HasRoom
               /\ \E inApp \in BOOLEAN :
                    sender' = [sender EXCEPT ![t].unmet = [q \in DOMAIN @ \ {r} |-> @[q]],
                                             ![t].wrote = Wrote(t, title, inApp)]
               /\ UNCHANGED <<clock, saved, sent>>

CommitCheck(t) ==
    /\ Open(t) /\ sender[t].kind = "check" /\ sender[t].step = "reminding" /\ DOMAIN sender[t].unmet = {}
    /\ saved' = saved \cup {sender[t].of}
    /\ sent' = sent \cup Committed(t)
    /\ sender' = [sender EXCEPT ![t] = Closed]
    /\ UNCHANGED <<clock>>

-----------------------------------------------------------------------------
(* The maintenance and the graders: one title each, no row that is held. *)

TitleOf(kind) == IF kind = "maintenance" THEN "Due soon" ELSE "Grading complete"

BeginNotify(t, kind) ==
    /\ ~Open(t)
    /\ kind = "maintenance" => \A u \in Senders : Open(u) => sender[u].kind # "maintenance"
    /\ sender' = Begun(t, kind, kind, "notifying", << >>)
    /\ UNCHANGED <<clock, saved, sent>>

Notify(t) ==
    /\ Open(t) /\ sender[t].step = "notifying"
    /\ \/ /\ Fails(t, TitleOf(sender[t].kind))
          /\ RollBack(t)
       \/ /\ ~Fails(t, TitleOf(sender[t].kind)) /\ HasRoom
          /\ \E inApp \in BOOLEAN :
                sender' = [sender EXCEPT ![t].step = "notified", ![t].wrote = Wrote(t, TitleOf(sender[t].kind), inApp)]
          /\ UNCHANGED <<clock, saved, sent>>

CommitNotify(t) ==
    /\ Open(t) /\ sender[t].step = "notified"
    /\ sent' = sent \cup Committed(t)
    /\ sender' = [sender EXCEPT ![t] = Closed]
    /\ UNCHANGED <<clock, saved>>

TimePasses ==
    /\ clock < CheckTime
    /\ clock' = clock + 1
    /\ UNCHANGED <<saved, sent, sender>>

ComplianceNext ==
    \/ \E t \in Senders :
        \/ \E y \in Years, current \in [1..Len(Rules) -> 0..MaxFacts] : BeginCheck(t, y, current)
        \/ FindRows(t) \/ Flush(t) \/ Remind(t) \/ CommitCheck(t)
        \/ \E kind \in {"maintenance", "grading"} : BeginNotify(t, kind)
        \/ Notify(t) \/ CommitNotify(t)
    \/ \E some \in SUBSET {n \in sent : ~n.read} : MarkRead(some)
    \/ TimePasses

ComplianceSpec == ComplianceInit /\ [][ComplianceNext]_complianceVars

-----------------------------------------------------------------------------

\* A user gets a notification of a title once in its window, whatever he has
\* read meanwhile.  Two of a title come only from transactions that overlapped,
\* and even then neither from two checks of one school year, whose status rows
\* keep them apart, nor from two rounds of the maintenance.
NoticeOnce ==
    \A m, n \in sent :
        m.title = n.title /\ m.id # n.id /\ m.created <= n.created /\ m.at <= n.at
            /\ m.created >= n.at - Window[n.title] =>
            /\ ~m.alone /\ ~n.alone
            /\ m.kind # "maintenance"
            /\ m.kind = "check" => m.of # n.of
=============================================================================
