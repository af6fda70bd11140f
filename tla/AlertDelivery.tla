---------------------------- MODULE AlertDelivery ----------------------------
(***************************************************************************)
(* The alerts table and its one way out: create_alerts                     *)
(* (backend/app/execution/alert_service.py), the readers' mark_read and    *)
(* mark_all_read, and the delivery pass over Telegram                      *)
(* (backend/app/delivery/service.py, sender.py).                           *)
(*                                                                         *)
(* Writers are requests to /alerts/ingest and alert ticks; passes are      *)
(* delivery jobs.  The cron starts one a minute and lets it run for two,   *)
(* so passes may overlap.  A pass writes nothing before its only commit,   *)
(* while the messages it sends leave at once.  Time counts hours.          *)
(***************************************************************************)
EXTENDS Integers, FiniteSets

CONSTANTS
    Alerts,         \* dedupe keys
    Severity,       \* the severity of each
    Writers,        \* calls of create_alerts that may be under way at once
    Passes,         \* delivery jobs that may be under way at once
    MaxAttempts,    \* _MAX_DELIVERY_ATTEMPTS
    Tries,          \* _MAX_ATTEMPTS of send_telegram
    Lookback,       \* _LOOKBACK
    DayLength,      \* hours of a day
    QuietStart,     \* QUIET_HOURS_START
    QuietEnd,       \* QUIET_HOURS_END
    MaxTime,        \* bound: the last hour
    Asked,          \* bound: the states the writers' candidates name
    FaultKinds,     \* bound: the faults there are, of "send" and "kill"
    MaxFaults       \* bound: rejected or lost sends, and killed passes

Severities == {"critical", "warning", "info"}

DeliveryState == {"pending", "sent", "suppressed", "failed"}

\* What the column holds: /alerts/ingest stores any text it is given, "other"
\* standing for those the delivery pass has no name for.
RowState == DeliveryState \cup {"other"}

ASSUME AlertAssumption ==
    /\ Severity \in [Alerts -> Severities]
    /\ MaxAttempts \in Nat \ {0}
    /\ Tries \in Nat \ {0}
    /\ Lookback \in Nat \ {0}
    /\ DayLength \in Nat \ {0}
    /\ QuietStart \in 0 .. DayLength - 1
    /\ QuietEnd \in 0 .. DayLength - 1
    /\ MaxTime \in Nat
    /\ Asked \subseteq RowState
    /\ IsFiniteSet(Passes)
    /\ MaxFaults \in Nat

VARIABLES
    now,        \* the hour
    alerts,     \* the table: {} or {row} for each dedupe key
    batch,      \* the state each writer's candidates ask for, {} for no candidate
    existing,   \* the keys its SELECT found
    wpc,        \* where each writer is
    listed,     \* the rows each pass has still to send, as it read them
    quiet,      \* whether the pass started in quiet hours
    written,    \* the rows it has changed and not committed
    ppc,        \* where each pass is
    received,   \* history: messages of each alert that reached the chat
    overlaps,   \* history: times a pass listed an alert that another one held
    tried,      \* history: passes that could not send it and said so
    faults

vars == <<now, alerts, batch, existing, wpc, listed, quiet, written, ppc,
          received, overlaps, tried, faults>>
writerVars == <<batch, existing, wpc>>
passVars == <<listed, quiet, written, ppc>>

-----------------------------------------------------------------------------
\* `delivered' says whether delivered_at is set; `born' is history, the state the
\* row was created in.
Alert == [state : RowState, born : RowState, attempts : Nat, created : Nat,
          read : BOOLEAN, delivered : BOOLEAN]

Table == [Alerts -> SUBSET Alert]

\* The keys a table of options holds something for.
Held(table) == {k \in Alerts : table[k] # {}}

Stored == Held(alerts)

\* The row of a stored alert.
Row(k) == CHOOSE row \in alerts[k] : TRUE

Nothing == [k \in Alerts |-> {}]

\* A new row, in the state its candidate names.
NewAlert(state, time) ==
    [state |-> state, born |-> state, attempts |-> 0, created |-> time,
     read |-> FALSE, delivered |-> FALSE]

\* _in_quiet_hours; the window may cross midnight, and is empty when both ends
\* are the same.
InQuietHours(hour) ==
    IF QuietStart <= QuietEnd THEN QuietStart <= hour /\ hour < QuietEnd
                              ELSE QuietStart <= hour \/ hour < QuietEnd

Rank(k) == CASE Severity[k] = "critical" -> 0 [] Severity[k] = "warning" -> 1 [] OTHER -> 2

-----------------------------------------------------------------------------
Init ==
    /\ now = 0
    /\ alerts = Nothing
    /\ batch = [w \in Writers |-> Nothing]
    /\ existing = [w \in Writers |-> {}]
    /\ wpc = [w \in Writers |-> "idle"]
    /\ listed = [p \in Passes |-> Nothing]
    /\ quiet = [p \in Passes |-> FALSE]
    /\ written = [p \in Passes |-> Nothing]
    /\ ppc = [p \in Passes |-> "idle"]
    /\ received = [k \in Alerts |-> 0]
    /\ overlaps = [k \in Alerts |-> 0]
    /\ tried = [k \in Alerts |-> 0]
    /\ faults = 0

Tick ==
    /\ now < MaxTime
    /\ now' = now + 1
    /\ UNCHANGED <<alerts, writerVars, passVars, received, overlaps, tried, faults>>

-----------------------------------------------------------------------------
(* create_alerts: a SELECT of the keys that exist, then one INSERT of the   *)
(* others.                                                                 *)

SelectExisting(w) ==
    /\ wpc[w] = "idle"
    /\ \E candidates \in [Alerts -> {{}} \cup {{state} : state \in Asked}] :
          /\ Held(candidates) # {}
          /\ batch' = [batch EXCEPT ![w] = candidates]
          /\ existing' = [existing EXCEPT ![w] = Held(candidates) \cap Stored]
    /\ wpc' = [wpc EXCEPT ![w] = "insert"]
    /\ UNCHANGED <<now, alerts, passVars, received, overlaps, tried, faults>>

NewKeys(w) == Held(batch[w]) \ existing[w]

WriterDone(w) ==
    /\ batch' = [batch EXCEPT ![w] = Nothing]
    /\ existing' = [existing EXCEPT ![w] = {}]
    /\ wpc' = [wpc EXCEPT ![w] = "idle"]

InsertAlerts(w) ==
    /\ wpc[w] = "insert"
    /\ NewKeys(w) \cap Stored = {}
    /\ alerts' = [k \in Alerts |->
           IF k \in NewKeys(w) THEN {NewAlert(state, now) : state \in batch[w][k]}
                               ELSE alerts[k]]
    /\ WriterDone(w)
    /\ UNCHANGED <<now, passVars, received, overlaps, tried, faults>>

\* alerts_dedupe_key_key: a key stored since the SELECT fails the whole batch.
InsertConflicts(w) ==
    /\ wpc[w] = "insert"
    /\ NewKeys(w) \cap Stored # {}
    /\ WriterDone(w)
    /\ UNCHANGED <<now, alerts, passVars, received, overlaps, tried, faults>>

-----------------------------------------------------------------------------
(* The readers.                                                            *)

ReadRow(row) == [row EXCEPT !.read = TRUE, !.delivered = TRUE]

MarkRead ==
    /\ \E k \in Stored : alerts' = [alerts EXCEPT ![k] = {ReadRow(Row(k))}]
    /\ UNCHANGED <<now, writerVars, passVars, received, overlaps, tried, faults>>

\* Every unread row (of the one user the model keeps).
MarkAllRead ==
    /\ alerts' = [k \in Alerts |->
           {IF row.read THEN row ELSE ReadRow(row) : row \in alerts[k]}]
    /\ UNCHANGED <<now, writerVars, passVars, received, overlaps, tried, faults>>

-----------------------------------------------------------------------------
(* run_delivery_pass.                                                      *)

\* Mutated form: every row that was not sent yet.
Deliverable_AnyState(row) == row.state # "sent" /\ row.created > now - Lookback

Deliverable(row) == row.state = "pending" /\ row.created > now - Lookback

\* A pass has the row of k listed, or a change of it to commit.
Holds(p, k) == listed[p][k] # {} \/ written[p][k] # {}

ListPending(p) ==
    /\ ppc[p] = "idle"
    /\ listed' = [listed EXCEPT ![p] =
           [k \in Alerts |-> {row \in alerts[k] : Deliverable(row)}]]
    /\ quiet' = [quiet EXCEPT ![p] = InQuietHours(now % DayLength)]
    /\ ppc' = [ppc EXCEPT ![p] = "send"]
    /\ overlaps' = [k \in Alerts |->
           IF listed'[p][k] # {} /\ \E q \in Passes : Holds(q, k)
           THEN overlaps[k] + 1 ELSE overlaps[k]]
    /\ UNCHANGED <<now, alerts, writerVars, written, received, tried, faults>>

\* `row', listed for k, is next in order of severity, then age.
NextUp(p, k, row) ==
    /\ row \in listed[p][k]
    /\ \A j \in Alerts : \A other \in listed[p][j] :
          \/ Rank(k) < Rank(j)
          \/ Rank(k) = Rank(j) /\ row.created <= other.created

\* Mutated form: quiet hours hold everything back.
HoldBack_Everything(p, k) == quiet[p]

\* Quiet hours hold back information only.
HoldBack(p, k) == quiet[p] /\ Severity[k] = "info"

SkipInfo(p) ==
    /\ ppc[p] = "send"
    /\ \E k \in Alerts : \E row \in listed[p][k] :
          /\ NextUp(p, k, row)
          /\ HoldBack(p, k)
          /\ listed' = [listed EXCEPT ![p][k] = {}]
    /\ UNCHANGED <<now, alerts, writerVars, quiet, written, ppc, received, overlaps, tried, faults>>

\* Mutated form: a message that got through leaves its row pending.
SentRow_StillPending(row) == [row EXCEPT !.delivered = TRUE]

SentRow(row) == [row EXCEPT !.state = "sent", !.delivered = TRUE]

\* Mutated form: the tries within one send are counted.
UnsentRow_CountsTries(row) ==
    [row EXCEPT !.attempts = @ + Tries,
                !.state = IF row.attempts + Tries >= MaxAttempts THEN "failed" ELSE @]

UnsentRow(row) ==
    [row EXCEPT !.attempts = @ + 1,
                !.state = IF row.attempts + 1 >= MaxAttempts THEN "failed" ELSE @]

\* send_telegram: answered ok, after up to Tries - 1 tries whose answer was
\* lost; some of those may have reached the chat all the same.
SendSucceeds(p) ==
    /\ ppc[p] = "send"
    /\ \E k \in Alerts, lost \in 0 .. Tries - 1 : \E row \in listed[p][k] :
          /\ NextUp(p, k, row)
          /\ ~ HoldBack(p, k)
          /\ faults + lost <= MaxFaults /\ (lost > 0 => "send" \in FaultKinds)
          /\ faults' = faults + lost
          /\ \E arrived \in 0 .. lost :
                 received' = [received EXCEPT ![k] = @ + 1 + arrived]
          /\ listed' = [listed EXCEPT ![p][k] = {}]
          /\ written' = [written EXCEPT ![p][k] = {SentRow(row)}]
    /\ UNCHANGED <<now, alerts, writerVars, quiet, ppc, overlaps, tried>>

\* Refused at once, or every try without an answer.
SendFails(p) ==
    /\ ppc[p] = "send"
    /\ "send" \in FaultKinds /\ faults < MaxFaults
    /\ faults' = faults + 1
    /\ \E k \in Alerts, arrived \in 0 .. Tries : \E row \in listed[p][k] :
          /\ NextUp(p, k, row)
          /\ ~ HoldBack(p, k)
          /\ received' = [received EXCEPT ![k] = @ + arrived]
          /\ listed' = [listed EXCEPT ![p][k] = {}]
          /\ written' = [written EXCEPT ![p][k] = {UnsentRow(row)}]
    /\ UNCHANGED <<now, alerts, writerVars, quiet, ppc, overlaps, tried>>

PassDone(p) ==
    /\ listed' = [listed EXCEPT ![p] = Nothing]
    /\ quiet' = [quiet EXCEPT ![p] = FALSE]
    /\ written' = [written EXCEPT ![p] = Nothing]
    /\ ppc' = [ppc EXCEPT ![p] = "idle"]

\* Mutated form: the whole row, as the pass had read and changed it.
Flushed_WholeRow(row, change) == [change EXCEPT !.read = row.read]

\* The columns the pass changed, written over the row as it is now: the state
\* and delivery time of a message that got through, else the attempts and, on
\* the last of them, the state.
Flushed(row, change) ==
    IF change.state = "sent" THEN SentRow(row)
    ELSE [row EXCEPT !.attempts = change.attempts,
                     !.state = IF change.state = "failed" THEN "failed" ELSE @]

CommitPass(p) ==
    /\ ppc[p] = "send"
    /\ listed[p] = Nothing
    /\ alerts' = [k \in Alerts |->
           IF written[p][k] = {} THEN alerts[k]
           ELSE {Flushed(row, change) : row \in alerts[k], change \in written[p][k]}]
    /\ tried' = [k \in Alerts |->
           IF \E change \in written[p][k] : change.state # "sent"
           THEN tried[k] + 1 ELSE tried[k]]
    /\ PassDone(p)
    /\ UNCHANGED <<now, writerVars, received, overlaps, faults>>

\* The process dies, or arq cancels the job at its timeout: nothing is written.
KillPass(p) ==
    /\ ppc[p] = "send"
    /\ "kill" \in FaultKinds /\ faults < MaxFaults
    /\ faults' = faults + 1
    /\ PassDone(p)
    /\ UNCHANGED <<now, alerts, writerVars, received, overlaps, tried>>

-----------------------------------------------------------------------------
WriterStep(w) == SelectExisting(w) \/ InsertAlerts(w) \/ InsertConflicts(w)

PassStep(p) ==
    ListPending(p) \/ SkipInfo(p) \/ SendSucceeds(p) \/ SendFails(p) \/ CommitPass(p)

Next ==
    \/ Tick \/ MarkRead \/ MarkAllRead
    \/ \E w \in Writers : WriterStep(w)
    \/ \E p \in Passes : PassStep(p) \/ KillPass(p)

Spec == Init /\ [][Next]_vars

(* The cron starts a pass every minute and a pass that is not killed runs   *)
(* on; time goes on.                                                       *)
Fairness ==
    /\ WF_vars(Tick)
    /\ \A p \in Passes : WF_vars(PassStep(p))

FairSpec == Spec /\ Fairness
-----------------------------------------------------------------------------
AtMostOne(table) == \A k \in Alerts : \A x, y \in table[k] : x = y

\* Every variable keeps its shape, and no key has two rows.
TypeOK ==
    /\ now \in Nat
    /\ alerts \in Table /\ AtMostOne(alerts)
    /\ batch \in [Writers -> [Alerts -> SUBSET RowState]]
    /\ \A w \in Writers : AtMostOne(batch[w])
    /\ existing \in [Writers -> SUBSET Alerts]
    /\ wpc \in [Writers -> {"idle", "insert"}]
    /\ listed \in [Passes -> Table]
    /\ \A p \in Passes : AtMostOne(listed[p])
    /\ quiet \in [Passes -> BOOLEAN]
    /\ written \in [Passes -> Table]
    /\ \A p \in Passes : AtMostOne(written[p])
    /\ ppc \in [Passes -> {"idle", "send"}]
    /\ received \in [Alerts -> Nat]
    /\ overlaps \in [Alerts -> Nat]
    /\ tried \in [Alerts -> Nat]
    /\ faults \in Nat

\* What the table says of a row created "pending" is what happened, whatever
\* passes overlap, die or lose answers: it is "sent" only if its message reached
\* the chat.  A row created in any other state, which the ingest endpoint does not
\* restrict, keeps it, and no message of it leaves: the shadow side of a dual run
\* stays silent (run_delivery_pass, ingest_alert).
StateTellsReceived ==
    \A k \in Stored :
        IF Row(k).born = "pending" THEN Row(k).state = "sent" => received[k] > 0
                                   ELSE Row(k).state = Row(k).born /\ received[k] = 0

\* A pending alert is given up only after MaxAttempts passes failed to send it,
\* not after so many tries within a send; overlapping passes may count too few but
\* never too many (delivery_attempts).
FailedWasTried ==
    \A k \in Stored :
        Row(k).born = "pending" /\ Row(k).state = "failed" => tried[k] >= MaxAttempts

\* Every message of an alert beyond its first has a cause of its own: a pass that
\* listed the alert while another one held it, or a fault, a lost send being worth
\* up to Tries messages.  Writers that race on the key and readers cause none, and
\* no pass sends again what an earlier one committed (create_alerts,
\* run_delivery_pass).
RepeatsHaveCause ==
    \A k \in Alerts : received[k] <= 1 + overlaps[k] + Tries * faults

\* A decided alert never waits for a pass again, although a pass that holds it
\* from before writes its columns without a condition on the state: what it may
\* still do is turn "sent" into "failed" or back (run_delivery_pass).
DecidedStays ==
    [][\A k \in Stored :
          Row(k).state # "pending" =>
              \/ Row(k)'.state = Row(k).state
              \/ {Row(k).state, Row(k)'.state} = {"sent", "failed"}]_vars

\* A critical or warning alert, in quiet hours too, is decided before it is too
\* old to be listed, unless time runs past it (run_delivery_pass).
Awaited(k) == k \in Stored /\ Deliverable(Row(k))

UrgentDecided ==
    \A k \in Alerts : Severity[k] # "info" => (Awaited(k) ~> ~ Awaited(k))

=============================================================================
