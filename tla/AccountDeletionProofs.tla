---------------------- MODULE AccountDeletionProofs ----------------------
(***************************************************************************)
(* Proofs about DataRequestService, for any users, tables, limit and       *)
(* number of failures. What a step may do to the list of requests is       *)
(* stated once (RequestsKept); the invariants of the jobs rest on it.      *)
(***************************************************************************)
EXTENDS AccountDeletion, FiniteSetTheorems, TLAPS

(* A row with another status.                                               *)
LEMMA Restated ==
  ASSUME NEW s \in Seq(Request), NEW r \in DOMAIN s, NEW st \in Statuses, NEW t,
         t = [s EXCEPT ![r].status = st]
  PROVE  /\ t \in Seq(Request) /\ DOMAIN t = DOMAIN s
         /\ \A q \in DOMAIN s :
              /\ t[q].user = s[q].user /\ t[q].type = s[q].type /\ t[q].due = s[q].due
              /\ t[q].status = IF q = r THEN st ELSE s[q].status
<1>1. \A q \in DOMAIN s : s[q] \in Request
  OBVIOUS
<1>2. DOMAIN t = DOMAIN s /\ \A q \in DOMAIN s : t[q] = IF q = r THEN [s[q] EXCEPT !.status = st] ELSE s[q]
  OBVIOUS
<1>3. \A q \in DOMAIN s :
         /\ t[q].user = s[q].user /\ t[q].type = s[q].type /\ t[q].due = s[q].due
         /\ t[q].status = IF q = r THEN st ELSE s[q].status
         /\ t[q] \in Request
  BY <1>1, <1>2 DEF Request
<1>4. t \in Seq(Request)
  BY <1>2, <1>3
<1>5. QED
  BY <1>2, <1>3, <1>4

(* A row whose grace period is over.                                        *)
LEMMA MadeDue ==
  ASSUME NEW s \in Seq(Request), NEW r \in DOMAIN s, NEW t, t = [s EXCEPT ![r].due = TRUE]
  PROVE  /\ t \in Seq(Request) /\ DOMAIN t = DOMAIN s
         /\ \A q \in DOMAIN s :
              /\ t[q].user = s[q].user /\ t[q].type = s[q].type /\ t[q].status = s[q].status
              /\ s[q].due => t[q].due
<1>1. \A q \in DOMAIN s : s[q] \in Request
  OBVIOUS
<1>2. DOMAIN t = DOMAIN s /\ \A q \in DOMAIN s : t[q] = IF q = r THEN [s[q] EXCEPT !.due = TRUE] ELSE s[q]
  OBVIOUS
<1>3. \A q \in DOMAIN s :
         /\ t[q].user = s[q].user /\ t[q].type = s[q].type /\ t[q].status = s[q].status
         /\ s[q].due => t[q].due
         /\ t[q] \in Request
  BY <1>1, <1>2 DEF Request
<1>4. t \in Seq(Request)
  BY <1>2, <1>3
<1>5. QED
  BY <1>2, <1>3, <1>4

(* A row filed after the others.                                            *)
LEMMA FiledLast ==
  ASSUME NEW s \in Seq(Request), NEW e \in Request, NEW t, t = Append(s, e)
  PROVE  /\ t \in Seq(Request) /\ DOMAIN t = DOMAIN s \cup {Len(s) + 1}
         /\ Len(s) + 1 \notin DOMAIN s /\ t[Len(s) + 1] = e
         /\ \A q \in DOMAIN s : t[q] = s[q]
OBVIOUS

(* The user whose request is worked on.                                     *)
LEMMA OwnerIsUser ==
  ASSUME TypeOK
  PROVE  /\ \A r \in Filed : requests[r] \in Request
         /\ pc # "idle" => row \in Filed /\ Owner \in Users
<1>1. \A r \in Filed : requests[r] \in Request
  BY DEF TypeOK, Filed
<1>2. pc # "idle" => row \in Filed
  BY DEF TypeOK
<1>3. QED
  BY <1>1, <1>2 DEF Owner, Request

(* The two ways a job changes hands.                                        *)
LEMMA BeginTypes ==
  ASSUME TypeOK, UNCHANGED requests, NEW S \in SUBSET Filed, BeginOldest(S)
  PROVE  /\ pc' \in {"list", "upload"} /\ row' \in S /\ row' \in Filed' /\ todo' = S \ {row'}
         /\ pc' = IF requests[row'].type = "export" THEN "upload" ELSE "list"
         /\ todo' \subseteq Filed' /\ table' = 1 /\ listed' = {} /\ saved' = {}
BY DEF BeginOldest, Begin, Filed

(* Every action keeps the types.                                            *)
LEMMA TypeStep == TypeOK /\ [Next]_vars => TypeOK'
<1> SUFFICES ASSUME TypeOK, [Next]_vars PROVE TypeOK'
  OBVIOUS
<1> USE AccountDeletionAssumption
<1>1. ASSUME NEW u \in Users, NEW type \in Types, NEW status \in Statuses, File(u, type, status)
      PROVE  TypeOK'
  <2>1. [user |-> u, type |-> type, status |-> status, due |-> FALSE] \in Request
    BY <1>1 DEF Request
  <2>2. requests' \in Seq(Request) /\ Filed \subseteq Filed'
    BY <1>1, <2>1, FiledLast DEF File, TypeOK, Filed
  <2>3. QED
    BY <1>1, <2>2 DEF File, TypeOK, dataVars, jobVars, bounds
<1>2. ASSUME NEW u \in Users, CancelDeletion(u) PROVE TypeOK'
  <2>1. PICK r \in Filed : requests' = [requests EXCEPT ![r].status = "cancelled"]
    BY <1>2 DEF CancelDeletion, ScheduledOf
  <2>2. requests' \in Seq(Request) /\ Filed' = Filed
    <3>1. "cancelled" \in Statuses
      BY DEF Statuses
    <3>2. QED
      BY <2>1, <3>1, Restated DEF TypeOK, Filed
  <2>3. QED
    BY <1>2, <2>2 DEF CancelDeletion, TypeOK, dataVars, jobVars, bounds
<1>3. ASSUME NEW r \in Filed, GraceElapses(r) PROVE TypeOK'
  <2>1. requests' \in Seq(Request) /\ Filed' = Filed
    BY <1>3, MadeDue DEF GraceElapses, TypeOK, Filed
  <2>2. QED
    BY <1>3, <2>1 DEF GraceElapses, TypeOK, dataVars, jobVars, bounds
<1>4. ASSUME NEW u \in Users, OpenTicket(u) PROVE TypeOK'
  BY <1>4 DEF OpenTicket, Write, TypeOK, Filed, jobVars, bounds
<1>5. ASSUME NEW u \in Users, AddAttachment(u) PROVE TypeOK'
  BY <1>5 DEF AddAttachment, Write, TypeOK, Filed, Attachments, jobVars, bounds
<1>6. ASSUME NEW u \in Users, NEW t \in Tables, AppSaves(u, t) PROVE TypeOK'
  BY <1>6 DEF AppSaves, Noticed, Write, TypeOK, Filed, jobVars, bounds
<1>7. ASSUME NEW u \in Users, AppUploads(u) PROVE TypeOK'
  BY <1>7 DEF AppUploads, Noticed, Write, TypeOK, Filed, Buckets, jobVars, bounds
<1>8. ASSUME PurgeDue PROVE TypeOK'
  <2>1. PICK S \in SUBSET Filed : BeginOldest(S)
    BY <1>8 DEF PurgeDue, Due
  <2>2. QED
    BY <1>8, <2>1, BeginTypes DEF PurgeDue, TypeOK, Pcs, Tables, dataVars, bounds
<1>9. ASSUME NEW r \in Filed, ProcessRequest(r) PROVE TypeOK'
  BY <1>9 DEF ProcessRequest, Begin, TypeOK, Filed, Pcs, Tables, dataVars, bounds
<1>10. ASSUME ListFiles PROVE TypeOK'
  <2>1. FilesOf(Owner) \subseteq Buckets \cup {"attachment"}
    BY <1>10, OwnerIsUser DEF ListFiles, FilesOf, TypeOK
  <2>2. QED
    BY <1>10, <2>1 DEF ListFiles, TypeOK, Filed, Pcs, Tables, dataVars, bounds
<1>11. ASSUME DeleteTable PROVE TypeOK'
  BY <1>11, OwnerIsUser DEF DeleteTable, EmptyTable, AfterTable, TypeOK, Filed, Pcs, Tables, Attachments, bounds
<1>12. ASSUME DeleteFiles PROVE TypeOK'
  BY <1>12, OwnerIsUser DEF DeleteFiles, RemoveFiles, Goes, TypeOK, Filed, Pcs, Attachments, bounds
<1>13. ASSUME DeleteAccount PROVE TypeOK'
  BY <1>13, OwnerIsUser DEF DeleteAccount, Goes, TypeOK, Filed, Pcs
<1>14. ASSUME UploadExport PROVE TypeOK'
  BY <1>14, OwnerIsUser DEF UploadExport, StoreBundle, Goes, TypeOK, Filed, Pcs, Buckets, bounds
<1>15. ASSUME Complete, row \in Filed PROVE requests' \in Seq(Request) /\ Filed' = Filed
  <2>1. "completed" \in Statuses
    BY DEF Statuses
  <2>2. QED
    BY <1>15, <2>1, Restated DEF Complete, TypeOK, Filed
<1>16. ASSUME RecordCompleted PROVE TypeOK'
  BY <1>15, <1>16, OwnerIsUser DEF RecordCompleted, Goes, TypeOK, Pcs, dataVars, bounds
<1>17. ASSUME NextRow, requests' \in Seq(Request), Filed' = Filed
      PROVE  /\ pc' \in Pcs /\ actor' \in {"cron", "admin"}
             /\ row' \in IF pc' = "idle" THEN {NoRow} ELSE Filed'
             /\ todo' \subseteq Filed' /\ (pc' = "idle" => todo' = {})
             /\ table' \in Tables /\ listed' = {} /\ saved' = {}
  <2>1. CASE todo = {}
    BY <1>17, <2>1 DEF NextRow, Finish, TypeOK, Pcs, Tables
  <2>2. CASE todo # {}
    <3>1. PICK r \in todo : Begin(r, todo \ {r})
      BY <1>17, <2>2 DEF NextRow, BeginOldest
    <3>2. QED
      BY <1>17, <3>1 DEF NextRow, Begin, TypeOK, Pcs, Tables
  <2>3. QED
    BY <2>1, <2>2
<1>18. ASSUME RecordAudit PROVE TypeOK'
  <2>1. requests' \in Seq(Request) /\ Filed' = Filed
    BY <1>18 DEF RecordAudit, TypeOK, Filed
  <2>2. QED
    BY <1>17, <1>18, <2>1 DEF RecordAudit, TypeOK, Tables, dataVars, bounds
<1>19. ASSUME RequestFails PROVE TypeOK'
  <2>1. pc # "idle" /\ row \in Filed /\ Owner \in Users
    BY <1>19, OwnerIsUser DEF RequestFails
  <2>2. requests' \in Seq(Request) /\ Filed' = Filed
    BY <1>15, <1>19, <2>1 DEF RequestFails, RowStays, TypeOK, Filed
  <2>3. /\ rows' \in [Users -> SUBSET Tables] /\ files' \in [Users -> SUBSET Buckets]
        /\ attachment' \in [Users -> Attachments] /\ account' \subseteq Users
    BY <1>19, <2>1 DEF RequestFails, EmptyTable, StoreBundle, TypeOK, Attachments, Buckets, dataVars
  <2>4. disturbed' \subseteq Users /\ writes' \in 0..MaxWrites /\ faults' \in 0..MaxFaults
          /\ crashes' \in 0..MaxCrashes
    BY <1>19, <2>1 DEF RequestFails, TypeOK
  <2>5. NextRow
    BY <1>19 DEF RequestFails
  <2>6. QED
    BY <1>17, <2>2, <2>3, <2>4, <2>5 DEF TypeOK, Tables
<1>20. ASSUME AuditFails PROVE TypeOK'
  BY <1>20 DEF AuditFails, Finish, TypeOK, Filed, Pcs, Tables, dataVars
<1>21. ASSUME Crash PROVE TypeOK'
  BY <1>21, OwnerIsUser DEF Crash, Finish, TypeOK, Filed, Pcs, Tables, dataVars
<1>22. ASSUME UNCHANGED vars PROVE TypeOK'
  BY <1>22 DEF vars, TypeOK, Filed, dataVars, jobVars, bounds
<1>23. ASSUME NEW u \in Users, NEW type \in Types, CreateRequest(u, type) PROVE TypeOK'
  <2>1. "open" \in Statuses
    BY DEF Statuses
  <2>2. QED
    BY <1>1, <1>23, <2>1 DEF CreateRequest
<1>24. ASSUME NEW u \in Users, ScheduleDeletion(u) PROVE TypeOK'
  <2>1. "deletion" \in Types /\ "scheduled" \in Statuses
    BY DEF Types, Statuses
  <2>2. QED
    BY <1>1, <1>24, <2>1 DEF ScheduleDeletion
<1>25. QED
  BY <1>2, <1>3, <1>4, <1>5, <1>6, <1>7, <1>8, <1>9, <1>10, <1>11, <1>12, <1>13, <1>14,
     <1>16, <1>18, <1>19, <1>20, <1>21, <1>22, <1>23, <1>24 DEF Next, JobStep

-----------------------------------------------------------------------------

(* What a step may do to a request that is filed: a user cancels while no   *)
(* job runs, and the job completes the row it works on; nothing else.       *)
RequestsKept ==
  /\ Filed \subseteq Filed' /\ (pc # "idle" => Filed' = Filed)
  /\ \A r \in Filed :
       /\ requests'[r].user = requests[r].user /\ requests'[r].type = requests[r].type
       /\ requests[r].due => requests'[r].due
       /\ \/ requests'[r].status = requests[r].status
          \/ pc = "idle" /\ requests'[r].status = "cancelled"
          \/ pc = "record" /\ r = row /\ requests'[r].status = "completed"
  /\ \A r \in Filed' \ Filed :
       \/ requests'[r].status = "open"
       \/ requests'[r].status = "scheduled" /\ \E u \in Users : ScheduleDeletion(u)

LEMMA RequestsStep == TypeOK /\ [Next]_vars => RequestsKept
<1> SUFFICES ASSUME TypeOK, [Next]_vars PROVE RequestsKept
  OBVIOUS
<1>1. ASSUME UNCHANGED requests PROVE RequestsKept
  BY <1>1 DEF RequestsKept, Filed
<1>2. ASSUME NEW u \in Users, NEW type \in Types, NEW status \in {"open", "scheduled"},
             File(u, type, status), pc = "idle",
             status = "open" \/ ScheduleDeletion(u)
      PROVE  RequestsKept
  <2> DEFINE e == [user |-> u, type |-> type, status |-> status, due |-> FALSE]
  <2>1. e \in Request
    BY DEF Request, Statuses
  <2>2. requests' = Append(requests, e) /\ requests \in Seq(Request)
    BY <1>2 DEF File, TypeOK
  <2> HIDE DEF e
  <2>3. /\ Filed' = Filed \cup {Len(requests) + 1} /\ requests'[Len(requests) + 1] = e
        /\ \A q \in Filed : requests'[q] = requests[q]
    BY <2>1, <2>2, FiledLast DEF Filed
  <2>4. e.status = status
    BY DEF e
  <2>5. status = "open" \/ status = "scheduled"
    BY <1>2
  <2>6. QED
    BY <1>2, <2>3, <2>4, <2>5 DEF RequestsKept
<1>3. ASSUME NEW u \in Users, CancelDeletion(u) PROVE RequestsKept
  <2>1. PICK r \in Filed : requests' = [requests EXCEPT ![r].status = "cancelled"]
    BY <1>3 DEF CancelDeletion, ScheduledOf
  <2>2. "cancelled" \in Statuses
    BY DEF Statuses
  <2>3. QED
    BY <1>3, <2>1, <2>2, Restated DEF CancelDeletion, RequestsKept, TypeOK, Filed
<1>4. ASSUME NEW r \in Filed, GraceElapses(r) PROVE RequestsKept
  BY <1>4, MadeDue DEF GraceElapses, RequestsKept, TypeOK, Filed
<1>5. ASSUME Complete, pc = "record" PROVE RequestsKept
  <2>1. "completed" \in Statuses /\ row \in Filed
    BY <1>5 DEF Statuses, TypeOK
  <2>2. QED
    BY <1>5, <2>1, Restated DEF Complete, RequestsKept, TypeOK, Filed
<1>6. ASSUME NEW u \in Users, NEW type \in Types, CreateRequest(u, type) PROVE RequestsKept
  BY <1>2, <1>6 DEF CreateRequest
<1>7. ASSUME NEW u \in Users, ScheduleDeletion(u) PROVE RequestsKept
  <2>1. "deletion" \in Types
    BY DEF Types
  <2>2. pc = "idle" /\ File(u, "deletion", "scheduled")
    BY <1>7 DEF ScheduleDeletion
  <2>3. QED
    BY <1>2, <1>7, <2>1, <2>2
<1>8. CASE JobStep
  BY <1>1, <1>5, <1>8 DEF JobStep, ListFiles, DeleteTable, DeleteFiles, DeleteAccount,
     UploadExport, RecordCompleted, RecordAudit
<1>9. CASE RequestFails \/ AuditFails \/ Crash \/ PurgeDue
  BY <1>1, <1>5, <1>9 DEF RequestFails, RowStays, AuditFails, Crash, PurgeDue
<1>10. ASSUME NEW u \in Users, OpenTicket(u) \/ AddAttachment(u) \/ AppUploads(u)
                                 \/ \E t \in Tables : AppSaves(u, t)
       PROVE  RequestsKept
  BY <1>1, <1>10 DEF OpenTicket, AddAttachment, AppUploads, AppSaves
<1>11. ASSUME NEW r \in Filed, ProcessRequest(r) PROVE RequestsKept
  BY <1>1, <1>11 DEF ProcessRequest
<1>12. CASE UNCHANGED vars
  BY <1>1, <1>12 DEF vars
<1>13. QED
  BY <1>3, <1>4, <1>6, <1>7, <1>8, <1>9, <1>10, <1>11, <1>12 DEF Next

(* No two deletions of one user are scheduled: only ScheduleDeletion makes  *)
(* one, and it looks first.                                                 *)
Pending(r) == requests[r].type = "deletion" /\ requests[r].status = "scheduled"

UniqueScheduled ==
  \A q, r \in Filed :
    Pending(q) /\ Pending(r) /\ requests[q].user = requests[r].user => q = r

LEMMA UniqueStep == TypeOK /\ UniqueScheduled /\ [Next]_vars => UniqueScheduled'
<1> SUFFICES ASSUME TypeOK, UniqueScheduled, [Next]_vars,
                    NEW q \in Filed', NEW r \in Filed', Pending(q)', Pending(r)',
                    requests'[q].user = requests'[r].user
             PROVE  q = r
  BY DEF UniqueScheduled
<1>1. RequestsKept
  BY RequestsStep
<1>2. \A p \in Filed : Pending(p)' => Pending(p)
  BY <1>1 DEF RequestsKept, Pending
<1>3. CASE \E u \in Users : ScheduleDeletion(u)
  <2>1. PICK u \in Users : ScheduleDeletion(u)
    BY <1>3
  <2> DEFINE e == [user |-> u, type |-> "deletion", status |-> "scheduled", due |-> FALSE]
  <2>2. e \in Request
    BY DEF Request, Types, Statuses
  <2>3. requests' = Append(requests, e) /\ requests \in Seq(Request)
    BY <2>1 DEF ScheduleDeletion, File, TypeOK
  <2>4. e.user = u
    OBVIOUS
  <2> HIDE DEF e
  <2>5. /\ Filed' = Filed \cup {Len(requests) + 1} /\ requests'[Len(requests) + 1] = e
        /\ \A p \in Filed : requests'[p] = requests[p]
    BY <2>2, <2>3, FiledLast DEF Filed
  <2>6. \A p \in Filed : Pending(p) => requests[p].user # u
    BY <2>1 DEF ScheduleDeletion, ScheduledOf, Pending
  <2>7. QED
    BY <1>2, <2>4, <2>5, <2>6 DEF UniqueScheduled
<1>4. CASE \A u \in Users : ~ScheduleDeletion(u)
  <2>1. q \in Filed /\ r \in Filed
    BY <1>1, <1>4 DEF RequestsKept, Pending
  <2>2. QED
    BY <1>1, <1>2, <2>1 DEF RequestsKept, UniqueScheduled
<1>5. QED
  BY <1>3, <1>4

(* The types hold in every state of the service (TypeOK).                   *)
THEOREM TypeCorrect == Spec => []TypeOK
<1>1. Init => TypeOK
  BY AccountDeletionAssumption
     DEF Init, TypeOK, Filed, Tables, Buckets, Attachments, Pcs
<1>2. QED
  BY <1>1, TypeStep, PTL DEF Spec

(* However the app schedules and cancels and whatever fails, a user has at  *)
(* most one scheduled deletion (schedule_deletion, cancel_deletion).        *)
THEOREM ScheduledOnce == Spec => []OneScheduled
<1>1. Init => UniqueScheduled
  BY DEF Init, UniqueScheduled, Filed
<1>2. UniqueScheduled => OneScheduled
  <2> SUFFICES ASSUME UniqueScheduled, NEW u \in Users PROVE Cardinality(ScheduledOf(u)) <= 1
    BY DEF OneScheduled
  <2>1. CASE ScheduledOf(u) = {}
    BY <2>1, FS_EmptySet
  <2>2. CASE ScheduledOf(u) # {}
    <3>1. PICK r \in ScheduledOf(u) : TRUE
      BY <2>2
    <3>2. ScheduledOf(u) = {r}
      BY <3>1 DEF ScheduledOf, UniqueScheduled, Pending
    <3>3. QED
      BY <3>2, FS_Singleton
  <2>3. QED
    BY <2>1, <2>2
<1>3. QED
  BY <1>1, <1>2, TypeCorrect, UniqueStep, PTL DEF Spec

-----------------------------------------------------------------------------

(* A purge works on rows that are due: the one it is at until it completes  *)
(* it, and every one it has yet to reach. Its job keeps the app's calls     *)
(* out, so nobody cancels them in between.                                  *)
InTime(r) == Pending(r) /\ requests[r].due

KindInv ==
  /\ pc \in {"list", "tables", "storage", "account"} => requests[row].type = "deletion"
  /\ pc = "upload" => requests[row].type = "export"
  /\ pc = "list" => table = 1

GraceInv ==
  pc # "idle" /\ actor = "cron" =>
    /\ row \notin todo
    /\ \A r \in todo : InTime(r)
    /\ pc # "audit" => InTime(row)

(* The steps that are not of a job leave it where it is, and the statuses   *)
(* as they are while it runs.                                               *)
OutsideJob ==
  \/ \E u \in Users :
       \/ \E type \in Types : CreateRequest(u, type)
       \/ ScheduleDeletion(u) \/ CancelDeletion(u)
       \/ OpenTicket(u) \/ AddAttachment(u) \/ AppUploads(u)
       \/ \E t \in Tables : AppSaves(u, t)
  \/ \E r \in Filed : GraceElapses(r)
  \/ UNCHANGED vars

LEMMA OutsideStep ==
  ASSUME TypeOK, OutsideJob
  PROVE  /\ UNCHANGED <<pc, actor, row, todo, table, listed>>
         /\ pc # "idle" => \A r \in Filed : requests'[r].status = requests[r].status
<1>1. UNCHANGED <<pc, actor, row, todo, table, listed>>
  BY DEF OutsideJob, CreateRequest, ScheduleDeletion, File, CancelDeletion, OpenTicket,
     AddAttachment, AppUploads, AppSaves, GraceElapses, jobVars, vars
<1>2. ASSUME NEW r \in Filed, GraceElapses(r)
      PROVE  \A q \in Filed : requests'[q].status = requests[q].status
  BY <1>2, MadeDue DEF GraceElapses, TypeOK, Filed
<1>3. pc # "idle" => \/ UNCHANGED requests
                     \/ \E r \in Filed : GraceElapses(r)
  BY DEF OutsideJob, CreateRequest, ScheduleDeletion, CancelDeletion, OpenTicket,
     AddAttachment, AppUploads, AppSaves, vars
<1>4. QED
  BY <1>1, <1>2, <1>3

(* How a job may end the row it works on.                                   *)
LEMMA NextRowStep ==
  ASSUME TypeOK, RequestsKept, NextRow, pc # "idle"
  PROVE  \/ pc' = "idle"
         \/ /\ row' \in todo /\ todo' = todo \ {row'} /\ actor' = actor
            /\ pc' = IF requests[row'].type = "export" THEN "upload" ELSE "list"
            /\ table' = 1 /\ saved' = {} /\ listed' = {}
BY DEF NextRow, Finish, BeginOldest, Begin

LEMMA KindStep == TypeOK /\ KindInv /\ [Next]_vars => KindInv'
<1> SUFFICES ASSUME TypeOK, KindInv, [Next]_vars PROVE KindInv'
  OBVIOUS
<1>1. RequestsKept
  BY RequestsStep
<1>2. \A r \in Filed : requests[r].type = "export" \/ requests[r].type = "deletion"
  BY OwnerIsUser DEF Request, Types
<1>3. \A r \in Filed : requests'[r].type = requests[r].type
  BY <1>1 DEF RequestsKept
<1>4. pc # "idle" => row \in Filed
  BY DEF TypeOK
<1>5. CASE OutsideJob
  BY <1>3, <1>4, <1>5, OutsideStep DEF KindInv
<1>6. CASE PurgeDue
  BY <1>2, <1>3, <1>6 DEF PurgeDue, Due, BeginOldest, Begin, KindInv
<1>7. ASSUME NEW r \in Filed, ProcessRequest(r) PROVE KindInv'
  BY <1>2, <1>3, <1>7 DEF ProcessRequest, Begin, KindInv
<1>8. CASE ListFiles \/ DeleteTable \/ DeleteFiles \/ DeleteAccount \/ UploadExport \/ RecordCompleted
  BY <1>3, <1>4, <1>8 DEF ListFiles, DeleteTable, AfterTable, DeleteFiles, DeleteAccount,
     UploadExport, RecordCompleted, Goes, KindInv
<1>9. CASE RecordAudit \/ RequestFails
  <2>1. NextRow /\ pc # "idle"
    BY <1>9 DEF RecordAudit, RequestFails
  <2>2. todo \subseteq Filed
    BY DEF TypeOK
  <2>3. QED
    BY <1>1, <1>2, <1>3, <2>1, <2>2, NextRowStep DEF KindInv
<1>10. CASE AuditFails \/ Crash
  BY <1>10 DEF AuditFails, Crash, Finish, KindInv
<1>11. QED
  BY <1>5, <1>6, <1>7, <1>8, <1>9, <1>10 DEF Next, JobStep, OutsideJob

LEMMA GraceStep == TypeOK /\ KindInv /\ GraceInv /\ [Next]_vars => GraceInv'
<1> SUFFICES ASSUME TypeOK, KindInv, GraceInv, [Next]_vars PROVE GraceInv'
  OBVIOUS
<1>1. RequestsKept
  BY RequestsStep
<1>2. \A r \in Filed : InTime(r) /\ requests'[r].status = requests[r].status => InTime(r)'
  BY <1>1 DEF RequestsKept, InTime, Pending
<1>3. (pc # "idle" => row \in Filed) /\ todo \subseteq Filed
  BY DEF TypeOK
<1>4. CASE OutsideJob
  BY <1>2, <1>3, <1>4, OutsideStep DEF GraceInv
<1>5. CASE PurgeDue
  <2>1. UNCHANGED requests
    BY <1>5 DEF PurgeDue
  <2>2. \A r \in Due : InTime(r) /\ r \in Filed
    BY DEF Due, InTime, Pending
  <2>3. PICK S \in SUBSET Due : BeginOldest(S)
    BY <1>5 DEF PurgeDue
  <2>4. row' \in S /\ todo' = S \ {row'}
    BY <2>3 DEF BeginOldest, Begin
  <2>5. QED
    BY <1>2, <2>1, <2>2, <2>3, <2>4 DEF GraceInv
<1>6. ASSUME NEW r \in Filed, ProcessRequest(r) PROVE GraceInv'
  BY <1>6 DEF ProcessRequest, GraceInv
<1>7. CASE ListFiles \/ DeleteTable \/ DeleteFiles \/ DeleteAccount \/ UploadExport
  BY <1>2, <1>3, <1>7 DEF ListFiles, DeleteTable, AfterTable, DeleteFiles, DeleteAccount,
     UploadExport, Goes, GraceInv
<1>8. pc # "idle" => \A r \in Filed : r # row => requests'[r].status = requests[r].status
  BY <1>1 DEF RequestsKept
<1>9. CASE RecordCompleted
  BY <1>2, <1>3, <1>8, <1>9 DEF RecordCompleted, Goes, GraceInv
<1>10. CASE RecordAudit \/ RequestFails
  <2>1. NextRow /\ pc # "idle"
    BY <1>10 DEF RecordAudit, RequestFails
  <2>2. CASE pc' = "idle"
    BY <2>2 DEF GraceInv
  <2>3. CASE row' \in todo /\ todo' = todo \ {row'} /\ actor' = actor
    BY <1>2, <1>3, <1>8, <2>1, <2>3 DEF GraceInv
  <2>4. QED
    BY <1>1, <2>1, <2>2, <2>3, NextRowStep
<1>11. CASE AuditFails \/ Crash
  BY <1>11 DEF AuditFails, Crash, Finish, GraceInv
<1>12. QED
  BY <1>4, <1>5, <1>6, <1>7, <1>9, <1>10, <1>11 DEF Next, JobStep, OutsideJob

(* Only three steps of a deletion take anything, and from its owner.        *)
LEMMA LosesToDeletion ==
  ASSUME TypeOK, [Next]_vars, NEW u \in Users, Loses(u)
  PROVE  pc \in {"tables", "storage", "account"} /\ u = Owner
<1>1. pc # "idle" => Owner \in Users
  BY OwnerIsUser
<1>2. CASE DeleteTable \/ DeleteFiles \/ DeleteAccount
  BY <1>1, <1>2 DEF DeleteTable, EmptyTable, DeleteFiles, RemoveFiles, DeleteAccount, Loses, TypeOK
<1>3. CASE RequestFails
  BY <1>1, <1>3 DEF RequestFails, EmptyTable, StoreBundle, dataVars, Loses, TypeOK
<1>4. CASE UploadExport
  BY <1>1, <1>4 DEF UploadExport, StoreBundle, Loses, TypeOK
<1>5. ASSUME UNCHANGED dataVars PROVE FALSE
  BY <1>5 DEF dataVars, Loses
<1>6. CASE \/ ListFiles \/ RecordCompleted \/ RecordAudit \/ AuditFails \/ Crash \/ PurgeDue
           \/ UNCHANGED vars
  BY <1>5, <1>6 DEF ListFiles, RecordCompleted, RecordAudit, AuditFails, Crash, PurgeDue, vars
<1>7. ASSUME NEW r \in Filed, GraceElapses(r) \/ ProcessRequest(r) PROVE FALSE
  BY <1>5, <1>7 DEF GraceElapses, ProcessRequest
<1>8. ASSUME NEW v \in Users,
             (\E type \in Types : CreateRequest(v, type)) \/ ScheduleDeletion(v) \/ CancelDeletion(v)
      PROVE  FALSE
  BY <1>5, <1>8 DEF CreateRequest, ScheduleDeletion, CancelDeletion, File
<1>9. ASSUME NEW v \in Users,
             OpenTicket(v) \/ AddAttachment(v) \/ AppUploads(v) \/ \E t \in Tables : AppSaves(v, t)
      PROVE  FALSE
  BY <1>9 DEF OpenTicket, AddAttachment, AppUploads, AppSaves, Loses, TypeOK
<1>10. QED
  BY <1>2, <1>3, <1>4, <1>6, <1>7, <1>8, <1>9 DEF Next, JobStep

(* Whatever fails and however long a purge takes, it takes nothing from a   *)
(* user without a scheduled deletion whose grace period is over (purge_due).*)
THEOREM GraceKept == Spec => PurgeKeepsGrace
<1>1. Init => KindInv /\ GraceInv
  BY DEF Init, KindInv, GraceInv
<1>2. ASSUME TypeOK, KindInv, GraceInv, [Next]_vars, NEW u \in Users, Loses(u), actor # "admin"
      PROVE  \E r \in ScheduledOf(u) : requests[r].due
  <2>1. pc \in {"tables", "storage", "account"} /\ u = Owner
    BY <1>2, LosesToDeletion
  <2>2. actor = "cron" /\ row \in Filed
    BY <1>2, <2>1 DEF TypeOK
  <2>3. InTime(row)
    BY <1>2, <2>1, <2>2 DEF GraceInv
  <2>4. QED
    BY <2>1, <2>2, <2>3 DEF InTime, Pending, ScheduledOf, Owner
<1>3. TypeOK /\ KindInv /\ GraceInv /\ [Next]_vars => [LossesAreDue]_vars
  BY <1>2 DEF LossesAreDue
<1>4. QED
  BY <1>1, <1>3, TypeCorrect, KindStep, GraceStep, PTL DEF Spec, PurgeKeepsGrace

-----------------------------------------------------------------------------

(* What a deletion knows to be gone: the tables before the one it is at,    *)
(* then all of them, but for those the app wrote since it began.            *)
EmptiedInv ==
  /\ pc = "tables" => \A t \in rows[Owner] : t < table => t \in saved
  /\ pc \in {"storage", "account"} => rows[Owner] \subseteq saved
  /\ pc = "record" /\ requests[row].type = "deletion" => rows[Owner] \subseteq saved

LEMMA EmptiedStep == TypeOK /\ KindInv /\ EmptiedInv /\ [Next]_vars => EmptiedInv'
<1> SUFFICES ASSUME TypeOK, KindInv, EmptiedInv, [Next]_vars PROVE EmptiedInv'
  OBVIOUS
<1>1. RequestsKept
  BY RequestsStep
<1>2. pc # "idle" => row \in Filed /\ Owner \in Users
  BY OwnerIsUser
<1>3. pc # "idle" /\ row' = row => Owner' = Owner /\ requests'[row].type = requests[row].type
  BY <1>1, <1>2 DEF RequestsKept, Owner
<1>4. ASSUME UNCHANGED <<rows, pc, row, table, saved>> PROVE EmptiedInv'
  BY <1>3, <1>4 DEF EmptiedInv
<1>5. ASSUME pc' \in {"idle", "list", "upload", "audit"} PROVE EmptiedInv'
  BY <1>5 DEF EmptiedInv
<1>6. ASSUME NEW u \in Users, NEW t \in Tables, AppSaves(u, t) PROVE EmptiedInv'
  <2>1. UNCHANGED <<requests, pc, row, table>>
    BY <1>6 DEF AppSaves
  <2>2. CASE DeletionRuns(u)
    <3>1. rows'[Owner] = rows[Owner] \cup {t} /\ saved' = saved \cup {t}
      BY <1>2, <1>6, <2>2 DEF AppSaves, DeletionRuns, TypeOK
    <3>2. QED
      BY <1>2, <1>3, <2>1, <3>1 DEF EmptiedInv
  <2>3. CASE ~DeletionRuns(u)
    <3>1. saved' = saved
      BY <1>6, <2>3 DEF AppSaves
    <3>2. pc # "idle" /\ requests[row].type = "deletion" => rows'[Owner] = rows[Owner]
      BY <1>2, <1>6, <2>3 DEF AppSaves, DeletionRuns, TypeOK
    <3>3. QED
      BY <1>3, <2>1, <3>1, <3>2 DEF EmptiedInv, KindInv
  <2>4. QED
    BY <2>2, <2>3
<1>7. ASSUME NEW u \in Users, OpenTicket(u) PROVE EmptiedInv'
  BY <1>5, <1>7 DEF OpenTicket, jobVars
<1>8. CASE ListFiles
  <2>1. pc' = "tables" /\ UNCHANGED <<rows, row, table>>
    BY <1>8 DEF ListFiles, dataVars
  <2>2. table = 1 /\ rows[Owner] \subseteq 1..LastTable
    BY <1>2, <1>8 DEF ListFiles, KindInv, TypeOK, Tables
  <2>3. Owner' = Owner
    BY <1>3, <1>8, <2>1 DEF ListFiles
  <2>4. \A t \in 1..LastTable : ~(t < 1)
    OBVIOUS
  <2>5. QED
    BY <2>1, <2>2, <2>3, <2>4 DEF EmptiedInv
<1>9. CASE DeleteTable
  <2>1. rows'[Owner] = rows[Owner] \ {table} /\ Owner' = Owner
    BY <1>2, <1>3, <1>9 DEF DeleteTable, EmptyTable, TypeOK
  <2>2. rows[Owner] \subseteq Tables
    BY <1>2, <1>9 DEF DeleteTable, TypeOK
  <2>3. table \in Tables
    BY <1>9 DEF DeleteTable, TypeOK
  <2>4. \A t \in rows'[Owner] : t < table + 1 => t \in saved
    BY <1>9, <2>1, <2>2, <2>3, AccountDeletionAssumption DEF DeleteTable, EmptiedInv, Tables
  <2>5. table = LastTable => rows'[Owner] \subseteq saved
    BY <2>1, <2>2, <2>4, AccountDeletionAssumption DEF Tables
  <2>6. pc' = (IF table = LastTable THEN "storage" ELSE "tables")
          /\ table' = table + 1 /\ saved' = saved
    BY <1>9 DEF DeleteTable, AfterTable
  <2>7. QED
    BY <2>1, <2>4, <2>5, <2>6 DEF EmptiedInv
<1>10. CASE DeleteFiles \/ DeleteAccount
  BY <1>3, <1>10 DEF DeleteFiles, DeleteAccount, Goes, EmptiedInv
<1>11. CASE UploadExport
  BY <1>3, <1>11 DEF UploadExport, Goes, KindInv, EmptiedInv
<1>12. CASE RecordCompleted
  BY <1>5, <1>12 DEF RecordCompleted, Goes
<1>13. CASE RecordAudit \/ RequestFails
  <2>1. NextRow /\ pc # "idle"
    BY <1>13 DEF RecordAudit, RequestFails
  <2>2. QED
    BY <1>1, <1>5, <2>1, NextRowStep
<1>14. CASE AuditFails \/ Crash
  BY <1>5, <1>14 DEF AuditFails, Crash, Finish
<1>15. CASE PurgeDue
  BY <1>5, <1>15 DEF PurgeDue, BeginOldest, Begin
<1>16. ASSUME NEW r \in Filed, ProcessRequest(r) PROVE EmptiedInv'
  BY <1>5, <1>16 DEF ProcessRequest, Begin
<1>17. ASSUME NEW u \in Users,
              \/ \E type \in Types : CreateRequest(u, type)
              \/ ScheduleDeletion(u) \/ CancelDeletion(u) \/ AddAttachment(u) \/ AppUploads(u)
       PROVE  EmptiedInv'
  BY <1>4, <1>17 DEF CreateRequest, ScheduleDeletion, File, CancelDeletion, AddAttachment,
     AppUploads, dataVars, jobVars
<1>18. ASSUME NEW r \in Filed, GraceElapses(r) PROVE EmptiedInv'
  BY <1>4, <1>18 DEF GraceElapses, dataVars, jobVars
<1>19. CASE UNCHANGED vars
  BY <1>4, <1>19 DEF vars, dataVars, jobVars
<1>20. QED
  BY <1>6, <1>7, <1>8, <1>9, <1>10, <1>11, <1>12, <1>13, <1>14, <1>15, <1>16, <1>17, <1>18, <1>19
     DEF Next, JobStep

(* A deletion is recorded only over empty tables, at the first attempt or a *)
(* later one, except for what the app wrote while it ran                    *)
(* (_process_deletion empties every table again each time).                 *)
THEOREM CompletedEmptied == Spec => CompletedIsEmptied
<1>1. Init => KindInv /\ EmptiedInv
  BY DEF Init, KindInv, EmptiedInv
<1>2. TypeOK /\ EmptiedInv /\ [Next]_vars => [CompletesEmptied]_vars
  BY RequestsStep DEF RequestsKept, CompletesEmptied, EmptiedInv, Owner
<1>3. QED
  BY <1>1, <1>2, TypeCorrect, KindStep, EmptiedStep, PTL DEF Spec, CompletedIsEmptied

-----------------------------------------------------------------------------

(* A user nothing has disturbed: the attachment is known by its row until a *)
(* deletion that has it on its list takes the row; a deletion has on its    *)
(* list what is left of the files, and each stage is done when it says so;  *)
(* and once one is recorded nothing is left.                                *)
Clean(u) == rows[u] = {} /\ files[u] = {} /\ attachment[u] = "none" /\ u \notin account

KnownFile(u) ==
  \/ attachment[u] \in {"none", "linked"}
  \/ attachment[u] = "orphaned" /\ DeletionRuns(u) /\ pc \in {"tables", "storage"}

Progress(u) ==
  DeletionRuns(u) =>
    /\ pc \in {"tables", "storage"} =>
         files[u] \subseteq listed /\ (attachment[u] = "none" \/ "attachment" \in listed)
    /\ pc = "tables" => \A t \in rows[u] : ~(t < table)
    /\ pc \in {"storage", "account", "record"} => rows[u] = {}
    /\ pc \in {"account", "record"} => files[u] = {} /\ attachment[u] = "none"
    /\ pc = "record" => u \notin account

Settled(u) ==
  \A r \in Filed :
    requests[r].user = u /\ requests[r].type = "deletion" /\ requests[r].status = "completed"
    => Clean(u)

LeftInv == \A u \in Users \ disturbed : KnownFile(u) /\ Progress(u) /\ Settled(u)

LEMMA CleanStays ==
  ASSUME TypeOK, [Next]_vars, NEW u \in Users, u \notin disturbed', Clean(u)
  PROVE  Clean(u)'
<1>1. pc # "idle" => Owner \in Users
  BY OwnerIsUser
<1>2. CASE DeleteTable \/ DeleteFiles \/ DeleteAccount
  BY <1>1, <1>2 DEF DeleteTable, EmptyTable, DeleteFiles, RemoveFiles, DeleteAccount, Clean, TypeOK
<1>3. CASE UploadExport \/ RequestFails
  BY <1>1, <1>3 DEF UploadExport, RequestFails, EmptyTable, StoreBundle, dataVars, Clean, TypeOK
<1>4. ASSUME UNCHANGED dataVars PROVE Clean(u)'
  BY <1>4 DEF dataVars, Clean
<1>5. CASE \/ ListFiles \/ RecordCompleted \/ RecordAudit \/ AuditFails \/ Crash \/ PurgeDue
           \/ UNCHANGED vars
  BY <1>4, <1>5 DEF ListFiles, RecordCompleted, RecordAudit, AuditFails, Crash, PurgeDue, vars
<1>6. ASSUME NEW r \in Filed, GraceElapses(r) \/ ProcessRequest(r) PROVE Clean(u)'
  BY <1>4, <1>6 DEF GraceElapses, ProcessRequest
<1>7. ASSUME NEW v \in Users,
             (\E type \in Types : CreateRequest(v, type)) \/ ScheduleDeletion(v) \/ CancelDeletion(v)
      PROVE  Clean(u)'
  BY <1>4, <1>7 DEF CreateRequest, ScheduleDeletion, CancelDeletion, File
<1>8. ASSUME NEW v \in Users,
             OpenTicket(v) \/ AddAttachment(v) \/ AppUploads(v) \/ \E t \in Tables : AppSaves(v, t)
      PROVE  Clean(u)'
  BY <1>8 DEF OpenTicket, AddAttachment, AppUploads, AppSaves, Clean, TypeOK
<1>9. QED
  BY <1>2, <1>3, <1>5, <1>6, <1>7, <1>8 DEF Next, JobStep

LEMMA DisturbedGrows == [Next]_vars => disturbed \subseteq disturbed'
BY DEF Next, vars, CreateRequest, ScheduleDeletion, File, CancelDeletion, OpenTicket, AddAttachment,
   AppUploads, AppSaves, Noticed, GraceElapses, ProcessRequest, PurgeDue, JobStep, ListFiles,
   DeleteTable, DeleteFiles, DeleteAccount, UploadExport, RecordCompleted, RecordAudit,
   RequestFails, AuditFails, Crash

LEMMA SettledStep ==
  ASSUME TypeOK, [Next]_vars, NEW u \in Users, u \notin disturbed', Progress(u), Settled(u)
  PROVE  Settled(u)'
<1>1. RequestsKept
  BY RequestsStep
<1>2. SUFFICES ASSUME NEW r \in Filed', requests'[r].user = u, requests'[r].type = "deletion",
                      requests'[r].status = "completed"
               PROVE  Clean(u)
  BY CleanStays DEF Settled
<1>3. r \in Filed
  BY <1>1, <1>2 DEF RequestsKept
<1>4. requests[r].user = u /\ requests[r].type = "deletion"
  BY <1>1, <1>2, <1>3 DEF RequestsKept
<1>5. CASE requests[r].status = "completed"
  BY <1>3, <1>4, <1>5 DEF Settled
<1>6. CASE pc = "record" /\ r = row
  BY <1>4, <1>6 DEF Progress, DeletionRuns, Owner, Clean
<1>7. QED
  BY <1>1, <1>2, <1>3, <1>5, <1>6 DEF RequestsKept

(* What a step outside the job, or a step of another user's job, leaves.    *)
LEMMA Untouched ==
  ASSUME TypeOK, RequestsKept, NEW u \in Users, KnownFile(u), Progress(u),
         rows'[u] = rows[u], files'[u] = files[u], attachment'[u] = attachment[u],
         u \in account' => u \in account,
         \/ UNCHANGED <<pc, row, table, listed>>
         \/ ~DeletionRuns(u) /\ row' = row /\ pc' # "idle" /\ pc # "idle"
  PROVE  KnownFile(u)' /\ Progress(u)'
<1>1. pc # "idle" => row \in Filed
  BY DEF TypeOK
<1>2. pc # "idle" /\ row' = row =>
        requests'[row].user = requests[row].user /\ requests'[row].type = requests[row].type
  BY <1>1 DEF RequestsKept
<1>3. row' = row /\ pc # "idle" /\ pc' # "idle" => (DeletionRuns(u)' <=> DeletionRuns(u))
  BY <1>2 DEF DeletionRuns, Owner
<1>4. CASE ~DeletionRuns(u) /\ row' = row /\ pc' # "idle" /\ pc # "idle"
  BY <1>3, <1>4 DEF KnownFile, Progress
<1>5. CASE UNCHANGED <<pc, row, table, listed>> /\ pc # "idle"
  BY <1>3, <1>5 DEF KnownFile, Progress
<1>6. CASE UNCHANGED <<pc, row, table, listed>> /\ pc = "idle"
  BY <1>6 DEF KnownFile, Progress, DeletionRuns
<1>7. QED
  BY <1>4, <1>5, <1>6

(* A job that begins or ends with no attachment under way.                  *)
LEMMA BetweenRows ==
  ASSUME NEW u \in Users, KnownFile(u), ~(DeletionRuns(u) /\ pc \in {"tables", "storage"}),
         attachment'[u] = attachment[u], pc' \in {"idle", "list", "upload", "audit"}
  PROVE  KnownFile(u)' /\ Progress(u)'
BY DEF KnownFile, Progress

LEMMA LeftStep == TypeOK /\ KindInv /\ LeftInv /\ [Next]_vars => LeftInv'
<1> SUFFICES ASSUME TypeOK, KindInv, LeftInv, [Next]_vars, NEW u \in Users, u \notin disturbed'
             PROVE  KnownFile(u)' /\ Progress(u)' /\ Settled(u)'
  BY DEF LeftInv
<1>1. KnownFile(u) /\ Progress(u) /\ Settled(u) /\ u \notin disturbed
  BY DisturbedGrows DEF LeftInv
<1>2. Settled(u)'
  BY <1>1, SettledStep
<1>3. SUFFICES KnownFile(u)' /\ Progress(u)'
  BY <1>2
<1>4. RequestsKept
  BY RequestsStep
<1>5. pc # "idle" => row \in Filed /\ Owner \in Users
  BY OwnerIsUser
<1>6. ASSUME UNCHANGED <<dataVars, jobVars>> PROVE KnownFile(u)' /\ Progress(u)'
  BY <1>1, <1>4, <1>6, Untouched DEF dataVars, jobVars
<1>7. ASSUME NEW v \in Users,
             (\E type \in Types : CreateRequest(v, type)) \/ ScheduleDeletion(v) \/ CancelDeletion(v)
      PROVE  KnownFile(u)' /\ Progress(u)'
  BY <1>6, <1>7 DEF CreateRequest, ScheduleDeletion, CancelDeletion, File
<1>8. CASE UNCHANGED vars \/ \E r \in Filed : GraceElapses(r)
  BY <1>6, <1>8 DEF GraceElapses, vars
<1>9. ASSUME NEW v \in Users, OpenTicket(v) \/ AddAttachment(v) PROVE KnownFile(u)' /\ Progress(u)'
  BY <1>1, <1>9 DEF OpenTicket, AddAttachment, jobVars, KnownFile, Progress, DeletionRuns, TypeOK
<1>10. ASSUME NEW v \in Users, AppUploads(v) \/ \E t \in Tables : AppSaves(v, t)
       PROVE  KnownFile(u)' /\ Progress(u)'
  <2>1. UNCHANGED <<requests, attachment, account, pc, row, table, listed>>
    BY <1>10 DEF AppUploads, AppSaves, jobVars
  <2>2. CASE u = v
    <3>1. ~DeletionRuns(u)
      BY <1>10, <2>2 DEF AppUploads, AppSaves, Noticed
    <3>2. DeletionRuns(u)' <=> DeletionRuns(u)
      BY <2>1 DEF DeletionRuns, Owner
    <3>3. QED
      BY <1>1, <2>1, <3>1, <3>2 DEF KnownFile, Progress
  <2>3. CASE u # v
    <3>1. rows'[u] = rows[u] /\ files'[u] = files[u]
      BY <1>10, <2>3 DEF AppUploads, AppSaves, TypeOK
    <3>2. QED
      BY <1>1, <1>4, <2>1, <3>1, Untouched
  <2>4. QED
    BY <2>2, <2>3
<1>11. ASSUME ListFiles, u = Owner PROVE KnownFile(u)' /\ Progress(u)'
  <2>1. attachment[u] \in {"none", "linked"}
    BY <1>1, <1>11 DEF ListFiles, KnownFile
  <2>2. files[u] \subseteq listed' /\ (attachment[u] = "none" \/ "attachment" \in listed')
    BY <1>11, <2>1 DEF ListFiles, FilesOf
  <2>3. table = 1 /\ rows[u] \subseteq 1..LastTable
    BY <1>11 DEF ListFiles, KindInv, TypeOK, Tables
  <2>4. \A t \in 1..LastTable : ~(t < 1)
    OBVIOUS
  <2>5. pc' = "tables" /\ UNCHANGED <<rows, files, attachment, table>>
    BY <1>11 DEF ListFiles, dataVars
  <2>6. QED
    BY <2>1, <2>2, <2>3, <2>4, <2>5 DEF KnownFile, Progress
<1>12. ASSUME DeleteTable, u = Owner PROVE KnownFile(u)' /\ Progress(u)'
  <2>1. /\ rows'[u] = rows[u] \ {table} /\ UNCHANGED <<requests, row, files, listed>>
        /\ attachment'[u] = IF table = Tickets /\ attachment[u] = "linked" THEN "orphaned"
                            ELSE attachment[u]
    BY <1>12 DEF DeleteTable, EmptyTable, TypeOK
  <2>2. pc = "tables" /\ pc' = (IF table = LastTable THEN "storage" ELSE "tables") /\ table' = table + 1
    BY <1>12 DEF DeleteTable, AfterTable
  <2>3. DeletionRuns(u) /\ DeletionRuns(u)'
    BY <1>12, <2>1, <2>2 DEF DeletionRuns, Owner, KindInv
  <2>4. rows[u] \subseteq Tables /\ table \in Tables
    BY <2>2 DEF TypeOK
  <2>5. \A t \in rows'[u] : ~(t < table + 1)
    BY <1>1, <2>1, <2>2, <2>3, <2>4, AccountDeletionAssumption DEF Progress, Tables
  <2>6. table = LastTable => rows'[u] = {}
    BY <2>1, <2>4, <2>5, AccountDeletionAssumption DEF Tables
  <2>7. files'[u] \subseteq listed' /\ (attachment'[u] = "none" \/ "attachment" \in listed')
    BY <1>1, <2>1, <2>2, <2>3 DEF Progress
  <2>8. Progress(u)'
    BY <2>2, <2>5, <2>6, <2>7 DEF Progress
  <2>9. KnownFile(u)'
    BY <1>1, <2>1, <2>2, <2>3 DEF KnownFile
  <2>10. QED
    BY <2>8, <2>9
<1>13. ASSUME DeleteFiles, u = Owner PROVE KnownFile(u)' /\ Progress(u)'
  <2>1. pc = "storage" /\ pc' = "account" /\ UNCHANGED <<requests, row, rows>> /\ DeletionRuns(u)
    BY <1>13 DEF DeleteFiles, Goes, DeletionRuns, KindInv
  <2>2. /\ files'[u] = files[u] \ listed
        /\ attachment'[u] = IF "attachment" \in listed THEN "none" ELSE attachment[u]
    BY <1>13 DEF DeleteFiles, RemoveFiles, TypeOK
  <2>3. files'[u] = {} /\ attachment'[u] = "none" /\ rows'[u] = {}
    BY <1>1, <2>1, <2>2 DEF Progress
  <2>4. QED
    BY <2>1, <2>3 DEF KnownFile, Progress
<1>14. ASSUME DeleteAccount, u = Owner PROVE KnownFile(u)' /\ Progress(u)'
  <2>1. pc = "account" /\ pc' = "record" /\ UNCHANGED <<requests, row, rows, files, attachment>>
          /\ DeletionRuns(u)
    BY <1>14 DEF DeleteAccount, Goes, DeletionRuns, KindInv
  <2>2. u \notin account'
    BY <1>14 DEF DeleteAccount
  <2>3. QED
    BY <1>1, <2>1, <2>2 DEF KnownFile, Progress
<1>15. ASSUME UploadExport, u = Owner PROVE KnownFile(u)' /\ Progress(u)'
  <2>1. pc = "upload" /\ pc' = "record" /\ UNCHANGED <<requests, row, attachment>>
          /\ ~DeletionRuns(u)
    BY <1>15 DEF UploadExport, StoreBundle, Goes, DeletionRuns, KindInv
  <2>2. ~DeletionRuns(u)'
    BY <1>15, <2>1 DEF DeletionRuns, Owner
  <2>3. QED
    BY <1>1, <2>1, <2>2 DEF KnownFile, Progress
<1>16. ASSUME ListFiles \/ DeleteTable \/ DeleteFiles \/ DeleteAccount \/ UploadExport, u # Owner
       PROVE  KnownFile(u)' /\ Progress(u)'
  <2>1. ~DeletionRuns(u)
    BY <1>16 DEF DeletionRuns
  <2>2. row' = row /\ pc' # "idle" /\ pc # "idle"
    BY <1>16 DEF ListFiles, DeleteTable, AfterTable, DeleteFiles, DeleteAccount, UploadExport, Goes
  <2>3. rows'[u] = rows[u] /\ files'[u] = files[u] /\ attachment'[u] = attachment[u]
    BY <1>5, <1>16, <2>2 DEF ListFiles, DeleteTable, EmptyTable, DeleteFiles, RemoveFiles, DeleteAccount,
       UploadExport, StoreBundle, dataVars, TypeOK
  <2>4. u \in account' => u \in account
    BY <1>16 DEF ListFiles, DeleteTable, EmptyTable, DeleteFiles, DeleteAccount, UploadExport,
       StoreBundle, dataVars
  <2>5. QED
    BY <1>1, <1>4, <2>1, <2>2, <2>3, <2>4, Untouched
<1>17. CASE RecordCompleted \/ RecordAudit \/ AuditFails \/ PurgeDue
  <2>1. pc \in {"idle", "record", "audit"} /\ UNCHANGED dataVars
    BY <1>17 DEF RecordCompleted, RecordAudit, AuditFails, PurgeDue
  <2>2. pc' \in {"idle", "list", "upload", "audit"}
    BY <1>17 DEF RecordCompleted, Goes, RecordAudit, NextRow, AuditFails, Finish, PurgeDue,
       BeginOldest, Begin
  <2>3. QED
    BY <1>1, <2>1, <2>2, BetweenRows DEF dataVars
<1>18. CASE RequestFails \/ Crash
  <2>1. pc # "idle" /\ u # Owner
    BY <1>18 DEF RequestFails, Crash
  <2>2. attachment'[u] = attachment[u]
    BY <1>5, <1>18, <2>1 DEF RequestFails, EmptyTable, StoreBundle, Crash, dataVars, TypeOK
  <2>3. pc' \in {"idle", "list", "upload", "audit"}
    BY <1>18 DEF RequestFails, NextRow, Crash, Finish, BeginOldest, Begin
  <2>4. QED
    BY <1>1, <2>1, <2>2, <2>3, BetweenRows DEF DeletionRuns
<1>19. ASSUME NEW r \in Filed, ProcessRequest(r) PROVE KnownFile(u)' /\ Progress(u)'
  <2>1. pc = "idle" /\ UNCHANGED attachment /\ pc' \in {"list", "upload"}
    BY <1>19 DEF ProcessRequest, Begin, dataVars
  <2>2. QED
    BY <1>1, <2>1, BetweenRows
<1>20. QED
  BY <1>7, <1>8, <1>9, <1>10, <1>11, <1>12, <1>13, <1>14, <1>15, <1>16, <1>17, <1>18, <1>19
     DEF Next, JobStep

(* A completed deletion has left no row, no file and no account of a user   *)
(* nothing disturbed, for any number of tables and files: what is collected *)
(* first is all there is to delete second (_process_deletion).              *)
THEOREM NothingLeft == Spec => []LeavesNothing
<1>1. Init => KindInv /\ LeftInv
  BY DEF Init, KindInv, LeftInv, KnownFile, Progress, Settled, DeletionRuns, Filed
<1>2. TypeOK /\ LeftInv => LeavesNothing
  BY OwnerIsUser DEF LeftInv, Settled, Clean, LeavesNothing, Request
<1>3. QED
  BY <1>1, <1>2, TypeCorrect, KindStep, LeftStep, PTL DEF Spec

=============================================================================
