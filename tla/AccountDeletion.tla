------------------------- MODULE AccountDeletion -------------------------
(***************************************************************************)
(* DataRequestService: a user's requests to export or delete their data.   *)
(* The app files a request, or schedules a deletion it may cancel during a *)
(* grace period; the console processes any request; a daily cron purges    *)
(* the deletions that are due. The API is one process whose routes run to  *)
(* completion, so one job runs at a time and the app's calls to the API    *)
(* wait for it; what the app writes to the database and the bucket does    *)
(* not. A deletion is a series of requests, any of which may fail before   *)
(* or after taking effect: it then ends there, for the next purge to begin *)
(* again, except that the bucket and the account may refuse.               *)
(***************************************************************************)
EXTENDS Naturals, Sequences, FiniteSets

CONSTANTS
  Users,
  Attached,      \* those whose ticket has an attachment to begin with
  LastTable,     \* _ALL_DELETION_TABLES, numbered in the order they are emptied
  Tickets,       \* support_tickets, which the attachments are found through
  Limit,         \* rows a purge lists
  MaxRequests,   \* bound: requests filed
  MaxWrites,     \* bound: rows and files the app adds
  MaxFaults,     \* bound: requests to Supabase that fail
  MaxCrashes     \* bound: jobs the process dies in

Tables == 1..LastTable
Buckets == {"images", "exports"}    \* users/<id>/ and data-exports/<id>/
Types == {"export", "deletion"}
Statuses == {"open", "scheduled", "completed", "cancelled"}

ASSUME AccountDeletionAssumption ==
  /\ Attached \subseteq Users
  /\ LastTable \in Nat \ {0} /\ Tickets \in Tables
  /\ Limit \in Nat \ {0}
  /\ MaxRequests \in Nat /\ MaxWrites \in Nat /\ MaxFaults \in Nat /\ MaxCrashes \in Nat

VARIABLES
  requests,     \* data_requests, in the order of requested_at
  rows,         \* tables that hold rows of the user
  files,        \* prefixes that hold files of the user
  attachment,   \* the file attached to the user's ticket
  account,      \* users of Supabase Auth
  pc,           \* the job the API serves: the request to Supabase it makes next
  actor,        \* who asked for it
  row,          \* the data request it works on
  todo,         \* those its purge listed and has not reached
  table,        \* the next table to empty
  listed,       \* what it will delete from the bucket
  saved,        \* tables the app wrote since it began the row (history)
  disturbed,    \* users whose data it could not handle undisturbed (history)
  writes,
  faults,
  crashes

jobVars == <<pc, actor, row, todo, table, listed, saved>>
dataVars == <<rows, files, attachment, account>>
bounds == <<writes, faults, crashes>>
vars == <<requests, dataVars, jobVars, disturbed, bounds>>

NoRow == 0
Request == [user : Users, type : Types, status : Statuses, due : BOOLEAN]
Pcs == {"idle", "list", "tables", "storage", "account", "upload", "record", "audit"}

(* unlinked: uploaded, its row never written; orphaned: its row is gone.    *)
Attachments == {"none", "unlinked", "linked", "orphaned"}

(* Nobody has asked for anything yet; the app has been in use.              *)
Init ==
  /\ requests = <<>>
  /\ rows = [u \in Users |-> Tables]
  /\ files = [u \in Users |-> {"images"}]
  /\ attachment = [u \in Users |-> IF u \in Attached THEN "linked" ELSE "none"]
  /\ account = Users
  /\ pc = "idle" /\ actor = "cron" /\ row = NoRow /\ todo = {}
  /\ table = 1 /\ listed = {} /\ saved = {}
  /\ disturbed = {}
  /\ writes = 0 /\ faults = 0 /\ crashes = 0

Filed == DOMAIN requests
Owner == requests[row].user
ScheduledOf(u) ==
  {r \in Filed : requests[r].user = u /\ requests[r].type = "deletion"
                   /\ requests[r].status = "scheduled"}

\* Mutant: a cancelled deletion is still due.
DueOnceScheduled == {r \in Filed : requests[r].type = "deletion" /\ requests[r].due
                                     /\ requests[r].status # "completed"}

Due == {r \in Filed : requests[r].type = "deletion" /\ requests[r].due
                        /\ requests[r].status = "scheduled"}

-----------------------------------------------------------------------------
(* What the app asks of the API, each a single job.                         *)

File(u, type, status) ==
  /\ Len(requests) < MaxRequests
  /\ requests' = Append(requests, [user |-> u, type |-> type, status |-> status, due |-> FALSE])
  /\ UNCHANGED <<dataVars, jobVars, disturbed, bounds>>

CreateRequest(u, type) ==
  /\ pc = "idle" /\ u \in account
  /\ ~\E r \in Filed : requests[r].user = u /\ requests[r].type = type
                         /\ requests[r].status = "open"
  /\ File(u, type, "open")

ScheduleDeletion(u) ==
  /\ pc = "idle" /\ u \in account
  /\ ScheduledOf(u) = {}
  /\ File(u, "deletion", "scheduled")

(* Only the newest scheduled deletion is cancelled.                         *)
CancelDeletion(u) ==
  /\ pc = "idle" /\ u \in account
  /\ \E r \in ScheduledOf(u) :
       /\ \A q \in ScheduledOf(u) : q <= r
       /\ requests' = [requests EXCEPT ![r].status = "cancelled"]
  /\ UNCHANGED <<dataVars, jobVars, disturbed, bounds>>

(* scheduled_for passes.                                                    *)
GraceElapses(r) ==
  /\ requests[r].status = "scheduled" /\ ~requests[r].due
  /\ requests' = [requests EXCEPT ![r].due = TRUE]
  /\ UNCHANGED <<dataVars, jobVars, disturbed, bounds>>

Write == writes < MaxWrites /\ writes' = writes + 1

OpenTicket(u) ==
  /\ Write
  /\ pc = "idle" /\ u \in account /\ Tickets \notin rows[u]
  /\ rows' = [rows EXCEPT ![u] = @ \cup {Tickets}]
  /\ UNCHANGED <<requests, files, attachment, account, jobVars, disturbed, faults, crashes>>

(* The file first, then the row that names it.                              *)
AddAttachment(u) ==
  /\ Write
  /\ pc = "idle" /\ u \in account /\ Tickets \in rows[u] /\ attachment[u] = "none"
  /\ \/ /\ attachment' = [attachment EXCEPT ![u] = "linked"]
        /\ UNCHANGED <<disturbed, faults>>
     \/ /\ faults < MaxFaults /\ faults' = faults + 1
        /\ attachment' = [attachment EXCEPT ![u] = "unlinked"]
        /\ disturbed' = disturbed \cup {u}
  /\ UNCHANGED <<requests, rows, files, account, jobVars, crashes>>

-----------------------------------------------------------------------------
(* What the app writes past the API, at any time.                           *)

DeletionRuns(u) == pc # "idle" /\ Owner = u /\ requests[row].type = "deletion"
Noticed(u) == IF DeletionRuns(u) THEN disturbed \cup {u} ELSE disturbed

AppSaves(u, t) ==
  /\ Write
  /\ u \in account /\ t \in Tables \ ({Tickets} \cup rows[u])
  /\ rows' = [rows EXCEPT ![u] = @ \cup {t}]
  /\ saved' = IF DeletionRuns(u) THEN saved \cup {t} ELSE saved
  /\ disturbed' = Noticed(u)
  /\ UNCHANGED <<requests, files, attachment, account,
                 pc, actor, row, todo, table, listed, faults, crashes>>

AppUploads(u) ==
  /\ Write
  /\ u \in account /\ "images" \notin files[u]
  /\ files' = [files EXCEPT ![u] = @ \cup {"images"}]
  /\ disturbed' = Noticed(u)
  /\ UNCHANGED <<requests, rows, attachment, account, jobVars, faults, crashes>>

-----------------------------------------------------------------------------
(* Jobs. Begin works on row r next; a purge goes on to its next row, oldest *)
(* first, whether or not the last one failed.                               *)

Begin(r, rest) ==
  /\ pc' = IF requests[r].type = "export" THEN "upload" ELSE "list"
  /\ row' = r /\ todo' = rest
  /\ table' = 1 /\ listed' = {} /\ saved' = {}

Finish ==
  /\ pc' = "idle" /\ row' = NoRow /\ todo' = {}
  /\ table' = 1 /\ listed' = {} /\ saved' = {}

BeginOldest(S) == \E r \in S : (\A q \in S : r <= q) /\ Begin(r, S \ {r})

NextRow ==
  /\ IF todo = {} THEN Finish ELSE BeginOldest(todo)
  /\ UNCHANGED actor

Goes(to) == pc' = to /\ UNCHANGED <<actor, row, todo, table, listed, saved>>

(* purge_due, up to the rows it lists.                                      *)
PurgeDue ==
  /\ pc = "idle" /\ Due # {}
  /\ actor' = "cron"
  /\ BeginOldest({r \in Due : Cardinality({q \in Due : q < r}) < Limit})
  /\ UNCHANGED <<requests, dataVars, disturbed, bounds>>

(* process_request, whatever the status of the row.                         *)
ProcessRequest(r) ==
  /\ pc = "idle"
  /\ actor' = "admin" /\ Begin(r, {})
  /\ UNCHANGED <<requests, dataVars, disturbed, bounds>>

\* Mutant: the attachments are not looked for.
FilesOfPrefixes(u) == files[u]

FilesOf(u) == files[u] \cup (IF attachment[u] = "linked" THEN {"attachment"} ELSE {})

(* The paths, collected before anything is deleted.                         *)
ListFiles ==
  /\ pc = "list"
  /\ listed' = FilesOf(Owner) /\ pc' = "tables"
  /\ UNCHANGED <<requests, dataVars, actor, row, todo, table, saved, disturbed, bounds>>

(* The rows of the attachments go with the tickets.                         *)
EmptyTable ==
  /\ rows' = [rows EXCEPT ![Owner] = @ \ {table}]
  /\ attachment' = [attachment EXCEPT ![Owner] =
                      IF table = Tickets /\ @ = "linked" THEN "orphaned" ELSE @]
  /\ UNCHANGED <<files, account>>

\* Mutant: one table too many.
AfterTableOffByOne == IF table > LastTable THEN "storage" ELSE "tables"

AfterTable == IF table = LastTable THEN "storage" ELSE "tables"

\* Mutant: a table that refuses is passed over, as the bucket is.
DeleteTableLeniently ==
  /\ pc = "tables"
  /\ \/ EmptyTable /\ UNCHANGED <<disturbed, faults>>
     \/ /\ faults < MaxFaults /\ faults' = faults + 1
        /\ disturbed' = disturbed \cup {Owner}
        /\ UNCHANGED dataVars
  /\ table' = table + 1 /\ pc' = AfterTable
  /\ UNCHANGED <<requests, actor, row, todo, listed, saved, writes, crashes>>

DeleteTable ==
  /\ pc = "tables"
  /\ EmptyTable
  /\ table' = table + 1 /\ pc' = AfterTable
  /\ UNCHANGED <<requests, actor, row, todo, listed, saved, disturbed, bounds>>

RemoveFiles(gone) ==
  /\ files' = [files EXCEPT ![Owner] = @ \ gone]
  /\ attachment' = [attachment EXCEPT ![Owner] = IF "attachment" \in gone THEN "none" ELSE @]

(* Failures of the bucket are counted and passed over.                      *)
DeleteFiles ==
  /\ pc = "storage"
  /\ \/ RemoveFiles(listed) /\ UNCHANGED <<disturbed, faults>>
     \/ /\ faults < MaxFaults /\ faults' = faults + 1
        /\ disturbed' = disturbed \cup {Owner}
        /\ \E gone \in SUBSET listed : RemoveFiles(gone)
  /\ Goes("account")
  /\ UNCHANGED <<requests, rows, account, writes, crashes>>

(* So is that of the account.                                               *)
DeleteAccount ==
  /\ pc = "account"
  /\ \/ account' = account \ {Owner} /\ UNCHANGED <<disturbed, faults>>
     \/ /\ faults < MaxFaults /\ faults' = faults + 1
        /\ disturbed' = disturbed \cup {Owner}
        /\ account' \in {account, account \ {Owner}}
  /\ Goes("record")
  /\ UNCHANGED <<requests, rows, files, attachment, writes, crashes>>

(* An export of a user who is gone leaves a bundle nothing will delete.     *)
StoreBundle ==
  /\ files' = [files EXCEPT ![Owner] = @ \cup {"exports"}]
  /\ UNCHANGED <<rows, attachment, account>>

UploadExport ==
  /\ pc = "upload"
  /\ StoreBundle
  /\ disturbed' = IF Owner \in account THEN disturbed ELSE disturbed \cup {Owner}
  /\ Goes("record")
  /\ UNCHANGED <<requests, bounds>>

Complete == requests' = [requests EXCEPT ![row].status = "completed"]

RecordCompleted ==
  /\ pc = "record"
  /\ Complete
  /\ Goes("audit")
  /\ UNCHANGED <<dataVars, disturbed, bounds>>

RecordAudit ==
  /\ pc = "audit"
  /\ NextRow
  /\ UNCHANGED <<requests, dataVars, disturbed, bounds>>

\* Mutant: a deletion that fails is put back in the console's queue.
RowReopened == requests' = [requests EXCEPT ![row].status = "open"]

RowStays == UNCHANGED requests

(* DataRequestError: the row stays as it is, and the purge goes on.         *)
RequestFails ==
  /\ faults < MaxFaults /\ faults' = faults + 1
  /\ \/ pc \in {"list", "tables", "upload", "record"} /\ RowStays /\ UNCHANGED dataVars
     \/ pc = "tables" /\ EmptyTable /\ RowStays
     \/ pc = "upload" /\ StoreBundle /\ RowStays
     \/ pc = "record" /\ Complete /\ UNCHANGED dataVars
  /\ disturbed' = disturbed \cup {Owner}
  /\ NextRow
  /\ UNCHANGED <<writes, crashes>>

(* AdminAuditError, which the purge does not catch: the job ends.           *)
AuditFails ==
  /\ pc = "audit" /\ faults < MaxFaults /\ faults' = faults + 1
  /\ Finish
  /\ UNCHANGED <<requests, dataVars, actor, disturbed, writes, crashes>>

Crash ==
  /\ pc # "idle" /\ crashes < MaxCrashes /\ crashes' = crashes + 1
  /\ disturbed' = disturbed \cup {Owner}
  /\ Finish
  /\ UNCHANGED <<requests, dataVars, actor, writes, faults>>

JobStep ==
  \/ ListFiles \/ DeleteTable \/ DeleteFiles \/ DeleteAccount
  \/ UploadExport \/ RecordCompleted \/ RecordAudit

Next ==
  \/ \E u \in Users :
       \/ \E type \in Types : CreateRequest(u, type)
       \/ ScheduleDeletion(u) \/ CancelDeletion(u)
       \/ OpenTicket(u) \/ AddAttachment(u) \/ AppUploads(u)
       \/ \E t \in Tables : AppSaves(u, t)
  \/ \E r \in Filed : GraceElapses(r) \/ ProcessRequest(r)
  \/ PurgeDue \/ JobStep
  \/ RequestFails \/ AuditFails \/ Crash

Spec == Init /\ [][Next]_vars

(* The process serves a job to its end, and the cron's call among the       *)
(* others it is sent: every day, and in the order of arrival.               *)
FairSpec == Spec /\ WF_vars(JobStep) /\ SF_vars(PurgeDue)

-----------------------------------------------------------------------------

(* The types of the variables; an idle API has no row and nothing to do.    *)
TypeOK ==
  /\ requests \in Seq(Request)
  /\ rows \in [Users -> SUBSET Tables]
  /\ files \in [Users -> SUBSET Buckets]
  /\ attachment \in [Users -> Attachments]
  /\ account \subseteq Users
  /\ pc \in Pcs /\ actor \in {"cron", "admin"}
  /\ row \in IF pc = "idle" THEN {NoRow} ELSE Filed
  /\ todo \subseteq Filed /\ (pc = "idle" => todo = {})
  /\ table \in 1..LastTable + 1 /\ (pc \in {"list", "tables"} => table \in Tables)
  /\ listed \subseteq Buckets \cup {"attachment"}
  /\ saved \subseteq Tables
  /\ disturbed \subseteq Users
  /\ writes \in 0..MaxWrites /\ faults \in 0..MaxFaults /\ crashes \in 0..MaxCrashes

(* A user never has two deletions scheduled at once, however often the app  *)
(* schedules and cancels around purges that fail: cancelling the newest one *)
(* (_scheduled_deletion_row) cancels all there is.                          *)
OneScheduled == \A u \in Users : Cardinality(ScheduledOf(u)) <= 1

(* What is taken from a user in this step.                                  *)
Loses(u) ==
  \/ ~(rows[u] \subseteq rows'[u]) \/ ~(files[u] \subseteq files'[u])
  \/ attachment[u] # "none" /\ attachment'[u] = "none"
  \/ u \in account /\ u \notin account'

(* A purge acts on rows it listed at its start, several accounts ago: it    *)
(* never takes anything from a user who does not, at that very moment, have *)
(* a scheduled deletion whose grace period is over.                         *)
LossesAreDue ==
  \A u \in Users : Loses(u) =>
    actor = "admin" \/ \E r \in ScheduledOf(u) : requests[r].due

PurgeKeepsGrace == [][LossesAreDue]_vars

(* A deletion is recorded as completed, at the first attempt or at a retry  *)
(* of one that was cut short, only when no table holds a row of the user    *)
(* but those the app wrote while it ran.                                    *)
CompletesEmptied ==
  \A r \in Filed :
    requests[r].type = "deletion" /\ requests[r].status # "completed"
      /\ requests'[r].status = "completed"
    => rows[requests[r].user] \subseteq saved

CompletedIsEmptied == [][CompletesEmptied]_vars

(* A completed deletion leaves no row, no file and no account, unless a     *)
(* request about that user failed or a job died, the app wrote while the    *)
(* deletion ran, or an older export request was processed after it.         *)
LeavesNothing ==
  \A r \in Filed :
    requests[r].type = "deletion" /\ requests[r].status = "completed" =>
      LET u == requests[r].user IN
      \/ u \in disturbed
      \/ rows[u] = {} /\ files[u] = {} /\ attachment[u] = "none" /\ u \notin account

(* A deletion whose grace period is over is carried out or cancelled in the *)
(* end, whatever requests fail: no failure takes it off the purge's list,   *)
(* and no other row keeps it off for good (purge_due).                      *)
DueDeletionsSettle ==
  \A r \in 1..MaxRequests :
    (r \in Due) ~> (r \in Filed /\ requests[r].status \in {"completed", "cancelled"})
=============================================================================
