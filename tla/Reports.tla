------------------------------- MODULE Reports -------------------------------
(***************************************************************************)
(* Reports (service/report_service.go, repository/report_repository.go,    *)
(* api/report.go): a lookup and an insert, two statements, with no unique  *)
(* index on the table.  A case is a reporter with a target that exists;    *)
(* the others are refused with 404 and change nothing.                     *)
(***************************************************************************)
EXTENDS Idempotency

CONSTANTS
  Case,        \* pairs of a reporter and a target
  NoCase,      \* "no case"
  MaxReports   \* bound on the rows of a case

ASSUME CaseAssumption == NoCase \notin Case /\ MaxReports \in Nat

VARIABLES
  reports,     \* table reports: the number of rows of a case
  case,        \* the case of a call
  rows,        \* history: rows inserted under a key since it is known
  blind        \* history: known keys with a lookup that failed

rep == <<reports, case, rows, blind>>

RepTypeOK ==
  /\ reports \in [Case -> 0..MaxReports]
  /\ case \in [Call -> Case \cup {NoCase}]
  /\ rows \in [Key -> Nat]
  /\ blind \subseteq Key

RepInit ==
  /\ reports = [x \in Case |-> 0]
  /\ case = [c \in Call |-> NoCase]
  /\ rows = [k \in Key |-> 0]
  /\ blind = {}

\* checkTargetExists, with the target there.
CheckTarget(c, x) ==
  /\ case' = [case EXCEPT ![c] = x]
  /\ Continue(c, "find")
  /\ UNCHANGED <<reports, rows, blind>>

\* The call's variables are gone.
Close(c) == case' = [case EXCEPT ![c] = NoCase]

\* The record of a key ends, and with it its history.
Forget(k) ==
  /\ rows' = [rows EXCEPT ![k] = 0]
  /\ blind' = blind \ {k}
  /\ UNCHANGED <<reports, case>>

\* Mutant of FindExisting: its result is not used.
FindNothing(c) ==
  /\ at[c] = "find"
  /\ Continue(c, "create")
  /\ UNCHANGED rep

\* FindExisting: a report that is there is the answer.  When the lookup fails
\* the error is dropped and the report is inserted.
FindExisting(c) ==
  /\ at[c] = "find"
  /\ \/ /\ reports[case[c]] > 0
        /\ Close(c)
        /\ Handled(c, TRUE)
        /\ UNCHANGED blind
     \/ /\ reports[case[c]] = 0
        /\ Continue(c, "create")
        /\ UNCHANGED <<case, blind>>
     \/ /\ blind' = blind \cup {key[c]}
        /\ Continue(c, "create")
        /\ UNCHANGED case
  /\ UNCHANGED <<reports, rows>>

\* Create: a plain INSERT.  Its row may be there although its answer was lost and
\* the caller gets 500.
CreateReport(c) ==
  /\ at[c] = "create"
  /\ reports[case[c]] < MaxReports
  /\ reports' = [reports EXCEPT ![case[c]] = @ + 1]
  /\ rows' = [rows EXCEPT ![key[c]] = @ + 1]
  /\ Close(c)
  /\ \E good \in BOOLEAN : Handled(c, good)
  /\ UNCHANGED blind

-----------------------------------------------------------------------------
\* A report that is sent again under its key is stored once, however its calls
\* overlap, end and fail, also when the row was inserted and the caller told that
\* it was not: the key keeps the calls apart, and the lookup of the next finds
\* the row, unless that lookup fails.
RetryStoresOneReport == \A k \in Key \ blind : rows[k] <= 1

\* Claimed by report_service.go:59-60: a target reported again by its reporter
\* gets no second row.  It does: two calls with different keys may overlap, and
\* a lookup may fail.
OneReportPerCase == \A x \in Case : reports[x] <= 1
=============================================================================
