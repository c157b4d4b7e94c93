------------------------- MODULE SetRegistryProofs -------------------------
(***************************************************************************)
(* Proofs about the two jobs that walk the registry of sets. BackfillRun:  *)
(* the run lock keeps runs apart while their leases last, whatever else of *)
(* the run goes wrong. Tier3Rotation, further down: a run stamps only what *)
(* it has a file for or has found out to be dead, and an outage costs a    *)
(* healthy set no more than a strike for each run.                         *)
(***************************************************************************)
EXTENDS BackfillRun, FiniteSetTheorems, TLAPS

AtWork == {"select", "claim", "search", "pages", "failure", "release"}

(* What the proofs need to know of a run's record: which fields it has.     *)
Record(j) == j = [pc |-> j.pc, rows |-> j.rows, part |-> j.part, overran |-> j.overran]

RecordsOK == run = [r \in Runs |-> run[r]] /\ \A r \in Runs : Record(run[r])

(* A run at work within its lease has the lock. OneRunPerLease follows, and *)
(* it needs this: only the lock tells that no other run is at work when a   *)
(* run begins.                                                              *)
LockInv == \A r \in Runs : Working(r) /\ ~run[r].overran => lock = r

IInv == RecordsOK /\ LockInv

-----------------------------------------------------------------------------
(* Updates of a record keep its fields.                                     *)

LEMMA PcUpdated ==
  ASSUME NEW j, NEW pc, Record(j)
  PROVE  LET k == [j EXCEPT !.pc = pc]
         IN Record(k) /\ k.pc = pc /\ k.rows = j.rows /\ k.part = j.part /\ k.overran = j.overran
BY DEF Record

LEMMA RowsUpdated ==
  ASSUME NEW j, NEW rows, Record(j)
  PROVE  LET k == [j EXCEPT !.rows = rows]
         IN Record(k) /\ k.pc = j.pc /\ k.rows = rows /\ k.part = j.part /\ k.overran = j.overran
BY DEF Record

LEMMA PartUpdated ==
  ASSUME NEW j, NEW part, Record(j)
  PROVE  LET k == [j EXCEPT !.part = part]
         IN Record(k) /\ k.pc = j.pc /\ k.rows = j.rows /\ k.part = part /\ k.overran = j.overran
BY DEF Record

LEMMA OverranUpdated ==
  ASSUME NEW j, NEW overran, Record(j)
  PROVE  LET k == [j EXCEPT !.overran = overran]
         IN Record(k) /\ k.pc = j.pc /\ k.rows = j.rows /\ k.part = j.part /\ k.overran = overran
BY DEF Record

LEMMA MovedUpdated ==
  ASSUME IInv, NEW r \in Runs, NEW batch, NEW part
  PROVE  Record(Moved(r, batch, part)) /\ Moved(r, batch, part).pc = run[r].pc
         /\ Moved(r, batch, part).overran = run[r].overran
<1>1. Record(run[r])
  BY DEF IInv, RecordsOK
<1> DEFINE parts == [s \in Sets |-> IF s \in batch THEN part ELSE run[r].part[s]]
<1>2. Moved(r, batch, part) = [run[r] EXCEPT !.part = parts]
  BY DEF Moved
<1> HIDE DEF parts
<1> QED
  BY <1>1, <1>2, PartUpdated

-----------------------------------------------------------------------------
(* A step that moves one run and keeps the lock.                            *)

LEMMA RunMoved ==
  ASSUME IInv, NEW r \in Runs, NEW j, Move(r, j), UNCHANGED lock,
         Record(j), j.overran = run[r].overran,
         j.pc \in AtWork => Working(r)
  PROVE  IInv'
<1>1. /\ run' = [q \in Runs |-> IF q = r THEN j ELSE run[q]]
  BY DEF Move, IInv, RecordsOK
<1>2. RecordsOK'
  BY <1>1 DEF IInv, RecordsOK
<1>3. ASSUME NEW q \in Runs, Working(q)', ~run'[q].overran PROVE lock' = q
  <2>1. CASE q = r
    BY <2>1, <1>1, <1>3 DEF IInv, LockInv, Working, AtWork
  <2>2. CASE q # r
    BY <2>2, <1>1, <1>3 DEF IInv, LockInv, Working
  <2> QED
    BY <2>1, <2>2
<1> QED
  BY <1>2, <1>3 DEF IInv, LockInv

LEMMA NothingMoved == IInv /\ UNCHANGED <<lock, run>> => IInv'
BY DEF IInv, RecordsOK, LockInv, Working

LEMMA RunMovedTo ==
  ASSUME IInv, NEW r \in Runs, NEW pc, MoveTo(r, pc), UNCHANGED lock,
         pc \in AtWork => Working(r)
  PROVE  IInv'
<1> DEFINE j == [run[r] EXCEPT !.pc = pc]
<1>1. Record(j) /\ j.pc = pc /\ j.overran = run[r].overran
  BY PcUpdated DEF IInv, RecordsOK
<1>2. Move(r, j)
  BY DEF MoveTo
<1> HIDE DEF j
<1> QED
  BY <1>1, <1>2, RunMoved

LEMMA RunMovedWith ==
  ASSUME IInv, NEW r \in Runs, NEW batch, NEW part, NEW pc,
         Move(r, [Moved(r, batch, part) EXCEPT !.pc = pc]), UNCHANGED lock,
         Working(r)
  PROVE  IInv'
<1> DEFINE j == [Moved(r, batch, part) EXCEPT !.pc = pc]
<1>1. Record(j) /\ j.overran = run[r].overran
  BY PcUpdated, MovedUpdated
<1>2. Move(r, j)
  OBVIOUS
<1> HIDE DEF j
<1> QED
  BY <1>1, <1>2, RunMoved

LEMMA PartMoved ==
  ASSUME IInv, NEW r \in Runs, NEW batch, NEW part,
         Move(r, Moved(r, batch, part)), UNCHANGED lock, Working(r)
  PROVE  IInv'
<1> DEFINE j == Moved(r, batch, part)
<1>1. Record(j) /\ j.overran = run[r].overran
  BY MovedUpdated
<1> HIDE DEF j
<1> QED
  BY <1>1, RunMoved DEF j

-----------------------------------------------------------------------------
(* The invariant, action by action.                                         *)

LEMMA IdleRecord == Record(Idle) /\ Idle.pc = "idle"
BY DEF Record, Idle

LEMMA InitHolds == Init => IInv
BY IdleRecord DEF Init, IInv, RecordsOK, LockInv, Working

LEMMA AcquireKeeps ==
  ASSUME IInv, NEW r \in Runs, BackfillRunAssumption, Acquire(r)
  PROVE  IInv'
<1>1. CASE MoveTo(r, "select")
  <2> DEFINE j == [run[r] EXCEPT !.pc = "select"]
  <2>1. Record(j)
    BY PcUpdated DEF IInv, RecordsOK
  <2>2. run' = [q \in Runs |-> IF q = r THEN j ELSE run[q]]
    BY <1>1 DEF MoveTo, Move, IInv, RecordsOK
  <2> HIDE DEF j
  <2>3. RecordsOK'
    BY <2>1, <2>2 DEF IInv, RecordsOK
  <2>4. ASSUME NEW q \in Runs, Working(q)', ~run'[q].overran PROVE lock' = q
    BY <2>2, <2>4 DEF IInv, LockInv, Working, Acquire, BackfillRunAssumption
  <2> QED
    BY <2>3, <2>4 DEF IInv, LockInv
<1>2. CASE UNCHANGED run
  BY <1>2 DEF IInv, RecordsOK, LockInv, Working, Acquire, BackfillRunAssumption
<1> QED
  BY <1>1, <1>2 DEF Acquire

LEMMA ReleaseKeeps ==
  ASSUME IInv, NEW r \in Runs, Release(r)
  PROVE  IInv'
<1>1. /\ run' = [q \in Runs |-> IF q = r THEN Idle ELSE run[q]]
      /\ lock' \in {Released(r), lock}
  BY DEF Release, Move, IInv, RecordsOK
<1>2. RecordsOK'
  BY <1>1 DEF IInv, RecordsOK, Record, Idle
<1>3. ASSUME NEW q \in Runs, Working(q)', ~run'[q].overran PROVE lock' = q
  <2>1. q # r
    BY <1>1, <1>3 DEF Working, Idle
  <2>2. lock = q
    BY <2>1, <1>1, <1>3 DEF IInv, LockInv, Working
  <2> QED
    BY <2>1, <2>2, <1>1 DEF Released
<1> QED
  BY <1>2, <1>3 DEF IInv, LockInv

LEMMA SelectKeeps ==
  ASSUME IInv, NEW r \in Runs, Select(r)
  PROVE  IInv'
<1>1. Working(r) /\ UNCHANGED lock
  BY DEF Select, Working
<1>2. CASE MoveTo(r, "release")
  BY <1>1, <1>2, RunMovedTo
<1>3. ASSUME NEW rows,
             Move(r, [Moved(r, ToSet(rows), "picked") EXCEPT !.pc = "claim", !.rows = rows])
      PROVE  IInv'
  <2> DEFINE i == [Moved(r, ToSet(rows), "picked") EXCEPT !.pc = "claim"]
             j == [i EXCEPT !.rows = rows]
  <2>1. Record(i) /\ i.overran = run[r].overran
    BY PcUpdated, MovedUpdated
  <2>2. Move(r, j)
    BY <1>3
  <2> HIDE DEF i
  <2>3. Record(j) /\ j.overran = run[r].overran
    BY <2>1, RowsUpdated
  <2> HIDE DEF j
  <2> QED
    BY <1>1, <2>2, <2>3, RunMoved
<1> QED
  BY <1>2, <1>3 DEF Select

LEMMA SearchEndsKeeps ==
  ASSUME IInv, NEW r \in Runs, SearchEnds(r)
  PROVE  IInv'
<1>1. Working(r) /\ UNCHANGED lock
  BY DEF SearchEnds, Working, Work
<1>2. Record(run[r])
  BY DEF IInv, RecordsOK
<1>3. PICK part : Move(r, [run[r] EXCEPT !.pc = "pages", !.rows = <<>>, !.part = part])
  BY <1>2 DEF SearchEnds, Record
<1> DEFINE h == [run[r] EXCEPT !.pc = "pages"]
           i == [h EXCEPT !.rows = <<>>]
           j == [i EXCEPT !.part = part]
<1>4. Move(r, j)
  BY <1>3
<1>5. Record(h) /\ h.overran = run[r].overran
  BY <1>2, PcUpdated
<1> HIDE DEF h
<1>6. Record(i) /\ i.overran = run[r].overran
  BY <1>5, RowsUpdated
<1> HIDE DEF i
<1>7. Record(j) /\ j.overran = run[r].overran
  BY <1>6, PartUpdated
<1> HIDE DEF j
<1> QED
  BY <1>1, <1>4, <1>7, RunMoved

LEMMA StepKeeps ==
  ASSUME IInv, NEW r \in Runs, Step(r)
  PROVE  IInv'
<1>1. CASE Select(r)
  BY <1>1, SelectKeeps
<1>2. CASE Claim(r)
  BY <1>2, RunMovedWith DEF Claim, Working
<1>3. CASE Search(r)
  BY <1>3, PartMoved DEF Search, Working, Work
<1>4. CASE SearchEnds(r)
  BY <1>4, SearchEndsKeeps
<1>5. CASE Resolve(r)
  BY <1>5, PartMoved DEF Resolve, Working, Work
<1>6. CASE \E site \in Sites : Load(r, site) \/ LoadRefused(r, site)
  BY <1>6, PartMoved DEF Load, LoadRefused, Working, Work
<1>7. CASE MarkSuccess(r)
  BY <1>7, RunMovedWith DEF MarkSuccess, Settled, Working
<1>8. CASE MarkFailure(r)
  BY <1>8, PartMoved DEF MarkFailure, Working
<1>9. CASE MarksEnd(r)
  BY <1>9, RunMovedTo DEF MarksEnd, Working, Work
<1>10. CASE Release(r)
  BY <1>10, ReleaseKeeps
<1> QED
  BY <1>1, <1>2, <1>3, <1>4, <1>5, <1>6, <1>7, <1>8, <1>9, <1>10 DEF Step

LEMMA RunFailsKeeps ==
  ASSUME IInv, NEW r \in Runs, RunFails(r)
  PROVE  IInv'
<1>1. Working(r)
  BY DEF RunFails, Working, Settled
<1> QED
  BY <1>1, RunMovedTo DEF RunFails

LEMMA CrashKeeps ==
  ASSUME IInv, NEW r \in Runs, Crash(r)
  PROVE  IInv'
<1>1. run' = [q \in Runs |-> IF q = r THEN Idle ELSE run[q]] /\ lock' = lock
  BY DEF Crash, Move, IInv, RecordsOK
<1>2. RecordsOK'
  BY <1>1 DEF IInv, RecordsOK, Record, Idle
<1>3. LockInv'
  BY <1>1 DEF IInv, LockInv, Working, Idle
<1> QED
  BY <1>2, <1>3 DEF IInv

LEMMA LeaseEndsKeeps ==
  ASSUME IInv, LeaseEnds
  PROVE  IInv'
<1>1. CASE Working(lock) /\ lock \in Runs
  <2> DEFINE j == [run[lock] EXCEPT !.overran = TRUE]
  <2>1. Record(j) /\ j.overran = TRUE
    BY <1>1, OverranUpdated DEF IInv, RecordsOK
  <2>2. run' = [q \in Runs |-> IF q = lock THEN j ELSE run[q]]
    BY <1>1 DEF LeaseEnds, Move, IInv, RecordsOK
  <2> HIDE DEF j
  <2>3. RecordsOK'
    BY <2>1, <2>2 DEF IInv, RecordsOK
  <2>4. LockInv'
    BY <2>1, <2>2 DEF IInv, LockInv, Working
  <2> QED
    BY <2>3, <2>4 DEF IInv
<1>2. CASE ~(Working(lock) /\ lock \in Runs)
  <2>1. \A q \in Runs : ~(Working(q) /\ ~run[q].overran)
    BY <1>2 DEF IInv, LockInv
  <2>2. RecordsOK'
    BY <1>2 DEF LeaseEnds, Move, IInv, RecordsOK
  <2>3. LockInv'
    BY <1>2, <2>1 DEF LeaseEnds, Move, IInv, RecordsOK, LockInv, Working
  <2> QED
    BY <2>2, <2>3 DEF IInv
<1> QED
  BY <1>1, <1>2

LEMMA InvariantStep ==
  ASSUME BackfillRunAssumption, IInv, [Next]_vars
  PROVE  IInv'
<1>1. CASE \E r \in Runs : Acquire(r)
  BY <1>1, AcquireKeeps
<1>2. CASE \E r \in Runs : Step(r)
  BY <1>2, StepKeeps
<1>3. CASE \E r \in Runs : RunFails(r)
  BY <1>3, RunFailsKeeps
<1>4. CASE \E r \in Runs : Crash(r)
  BY <1>4, CrashKeeps
<1>5. CASE LeaseEnds
  BY <1>5, LeaseEndsKeeps
<1>6. CASE \E s \in Sets : ClaimEnds(s)
  BY <1>6, NothingMoved DEF ClaimEnds
<1>7. CASE UNCHANGED vars
  BY <1>7, NothingMoved DEF vars
<1> QED
  BY <1>1, <1>2, <1>3, <1>4, <1>5, <1>6, <1>7 DEF Next

(* Runs are apart while their leases last, for any number of runs, sets,    *)
(* failures and overruns, and whichever holder releases late.               *)
THEOREM RunsExclusive == Spec => []OneRunPerLease
<1>1. IInv => OneRunPerLease
  BY DEF IInv, LockInv, OneRunPerLease
<1>2. IInv /\ [Next]_vars => IInv'
  BY InvariantStep, BackfillRunAssumption
<1> QED
  BY InitHolds, <1>1, <1>2, PTL DEF Spec

-----------------------------------------------------------------------------
(* The registry is a work queue.                                            *)

Busy == {"select", "claim", "search", "pages", "failure"}

(* A run's record has a set in hand: Holds, for any record.                 *)
Has(j, s) == j.pc \in Busy /\ j.part[s] \notin {"none", "picked"}

(* Nothing is in hand before the rows are claimed.                          *)
Quiet(j) ==
  /\ j.pc \in Pcs
  /\ j.pc \in {"idle", "select"} => \A s \in Sets : j.part[s] = "none"
  /\ j.pc = "claim" => \A s \in Sets : j.part[s] \in {"none", "picked"}

(* What a run picked or has in hand was not fetched before.                 *)
Open(j, done) == j.pc \in Busy => \A s \in Sets : j.part[s] # "none" => s \notin done

QueueInv ==
  /\ IInv
  /\ overruns \in Nat
  /\ \A r \in Runs : Quiet(run[r])
  /\ overruns = 0 => \A r \in Runs : ~run[r].overran /\ Open(run[r], fetched)

(* While no lease was overrun the run at work is the only one, and what it  *)
(* has in hand is all that is handed out.                                   *)
LEMMA Alone ==
  ASSUME QueueInv, overruns = 0, NEW r \in Runs, Working(r)
  PROVE  \A q \in Runs : q # r => ~Working(q)
BY DEF QueueInv, IInv, LockInv

LEMMA BusyWorks == \A r \in Runs, s \in Sets : Holds(r, s) <=> Has(run[r], s)
BY DEF Holds, Has, Busy, Working

LEMMA OwnerBefore ==
  ASSUME NEW r \in Runs, \A q \in Runs : q # r => ~Working(q)
  PROVE  Owner = [s \in Sets |-> IF Has(run[r], s) THEN r ELSE NoRun]
<1>1. \A s \in Sets, q \in Runs : Holds(q, s) => q = r /\ Has(run[r], s)
  BY BusyWorks DEF Holds
<1>2. \A s \in Sets : Has(run[r], s) => Holds(r, s)
  BY BusyWorks
<1> QED
  BY <1>1, <1>2 DEF Owner

LEMMA OwnerAfter ==
  ASSUME NEW r \in Runs, \A q \in Runs : q # r => ~Working(q)'
  PROVE  Owner' = [s \in Sets |-> IF Has(run'[r], s) THEN r ELSE NoRun]
<1>1. \A s \in Sets, q \in Runs : Holds(q, s)' => q = r /\ Has(run'[r], s)
  BY DEF Holds, Has, Busy, Working
<1>2. \A s \in Sets : Has(run'[r], s) => Holds(r, s)'
  BY DEF Holds, Has, Busy, Working
<1> QED
  BY <1>1, <1>2 DEF Owner

(* A run's record may become j: nothing is taken in hand, what is completed *)
(* was in hand, and the rest of the invariant holds of j.                   *)
Fair(r, j, completed) ==
  /\ fetched' = fetched \cup completed
  /\ \A s \in Sets : Has(j, s) => Has(run[r], s)
  /\ completed \subseteq {s \in Sets : Has(run[r], s) /\ ~Has(j, s)}
  /\ ~j.overran /\ Open(j, fetched')

(* Such a step settles what the run had in hand and has no longer.          *)
LEMMA Settles ==
  ASSUME QueueInv, overruns = 0, overruns' = overruns, NEW r \in Runs, NEW j, NEW completed,
         Move(r, j), Fair(r, j, completed), \A q \in Runs : q # r => ~Working(q)
  PROVE  Registry!Next
<1> DEFINE batch == {s \in Sets : Has(run[r], s) /\ ~Has(j, s)}
<1>1. run' = [q \in Runs |-> IF q = r THEN j ELSE run[q]]
  BY DEF Move, QueueInv, IInv, RecordsOK
<1>2. Owner = [s \in Sets |-> IF Has(run[r], s) THEN r ELSE NoRun]
  BY OwnerBefore
<1>3. Owner' = [s \in Sets |-> IF Has(j, s) THEN r ELSE NoRun]
  <2>1. \A q \in Runs : q # r => ~Working(q)'
    BY <1>1 DEF Working
  <2>2. run'[r] = j
    BY <1>1
  <2> QED
    BY <2>1, <2>2, OwnerAfter
<1>4. \A s \in batch : Owner[s] = r
  BY <1>2
<1>5. Owner' = [s \in Sets |-> IF s \in batch THEN NoRun ELSE Owner[s]]
  BY <1>2, <1>3 DEF Fair
<1>6. batch \in SUBSET Sets /\ completed \in SUBSET batch /\ fetched' = fetched \cup completed
  BY DEF Fair
<1>7. (overruns > 0)' = (overruns > 0)
  OBVIOUS
<1> HIDE DEF batch
<1>8. Registry!Settle(r, batch, completed)
  BY <1>4, <1>5, <1>6, <1>7 DEF Registry!Settle, Registry!Owned
<1> QED
  BY <1>6, <1>8 DEF Registry!Next

LEMMA Excuses == ASSUME overruns' > 0 PROVE Registry!Next
BY DEF Registry!Next

(* What a step that moves one run has to show.                              *)
LEMMA RunSettles ==
  ASSUME QueueInv, IInv', NEW r \in Runs, NEW j, NEW completed,
         Move(r, j), Quiet(j), overruns' = overruns,
         overruns = 0 => Fair(r, j, completed) /\ \A q \in Runs : q # r => ~Working(q)
  PROVE  QueueInv' /\ [Registry!Next]_Registry!vars
<1>1. run' = [q \in Runs |-> IF q = r THEN j ELSE run[q]]
  BY DEF Move, QueueInv, IInv, RecordsOK
<1>2. overruns' \in Nat /\ \A q \in Runs : Quiet(run[q])'
  BY <1>1 DEF QueueInv, Quiet
<1>3. CASE overruns = 0
  <2>1. ASSUME NEW q \in Runs PROVE ~run'[q].overran /\ Open(run'[q], fetched')
    <3>1. CASE q = r
      <4>1. run'[q] = j
        BY <1>1, <3>1
      <4> QED
        BY <4>1, <1>3 DEF Fair, Open
    <3>2. CASE q # r
      <4>1. run'[q] = run[q] /\ ~Working(q)
        BY <1>1, <1>3, <3>2
      <4> QED
        BY <4>1, <1>3 DEF QueueInv, Open, Working, Busy
    <3> QED
      BY <3>1, <3>2
  <2>2. QueueInv'
    BY <1>2, <2>1 DEF QueueInv
  <2> QED
    BY <2>2, <1>3, Settles
<1>4. CASE overruns # 0
  <2>1. overruns' > 0
    BY <1>4 DEF QueueInv
  <2>2. QueueInv'
    BY <1>2, <1>4 DEF QueueInv
  <2> QED
    BY <2>1, <2>2, Excuses
<1> QED
  BY <1>3, <1>4

(* Of a run at work.                                                        *)
LEMMA WorkerSettles ==
  ASSUME QueueInv, IInv', NEW r \in Runs, Working(r), NEW j, NEW completed,
         Move(r, j), Quiet(j), overruns' = overruns, j.overran = run[r].overran,
         overruns = 0 => /\ fetched' = fetched \cup completed
                         /\ \A s \in Sets : Has(j, s) => Has(run[r], s)
                         /\ completed \subseteq {s \in Sets : Has(run[r], s) /\ ~Has(j, s)}
                         /\ Open(j, fetched')
  PROVE  QueueInv' /\ [Registry!Next]_Registry!vars
<1>1. overruns = 0 => \A q \in Runs : q # r => ~Working(q)
  BY Alone
<1>2. overruns = 0 => ~run[r].overran
  BY DEF QueueInv
<1> QED
  BY <1>1, <1>2, RunSettles DEF Fair

(* Of one that completes nothing.                                           *)
LEMMA WorkerGoesOn ==
  ASSUME QueueInv, IInv', NEW r \in Runs, Working(r), NEW j,
         Move(r, j), Quiet(j), overruns' = overruns, j.overran = run[r].overran,
         overruns = 0 => fetched' = fetched,
         j.pc \in Busy => run[r].pc \in Busy /\ \A s \in Sets :
           /\ j.part[s] = "none" \/ run[r].part[s] # "none"
           /\ Has(j, s) => run[r].part[s] # "picked"
  PROVE  QueueInv' /\ [Registry!Next]_Registry!vars
<1>1. overruns = 0 => Open(run[r], fetched)
  BY DEF QueueInv
<1>2. \A s \in Sets : Has(j, s) => Has(run[r], s)
  BY DEF Has
<1>3. overruns = 0 => Open(j, fetched')
  BY <1>1 DEF Open
<1> DEFINE completed == {}
<1>4. /\ completed \subseteq {s \in Sets : Has(run[r], s) /\ ~Has(j, s)}
      /\ overruns = 0 => fetched' = fetched \cup completed
  OBVIOUS
<1> HIDE DEF completed
<1> QED
  BY <1>2, <1>3, <1>4, WorkerSettles

(* The parts of a record that is moved.                                     *)
LEMMA MovedParts ==
  ASSUME QueueInv, NEW r \in Runs, NEW batch, NEW part
  PROVE  LET j == Moved(r, batch, part)
         IN /\ Record(j) /\ j.pc = run[r].pc /\ j.overran = run[r].overran
            /\ \A s \in Sets : j.part[s] = IF s \in batch THEN part ELSE run[r].part[s]
<1>1. Record(run[r])
  BY DEF QueueInv, IInv, RecordsOK
<1> DEFINE parts == [s \in Sets |-> IF s \in batch THEN part ELSE run[r].part[s]]
<1>2. Moved(r, batch, part) = [run[r] EXCEPT !.part = parts]
  BY DEF Moved
<1>3. \A s \in Sets : parts[s] = IF s \in batch THEN part ELSE run[r].part[s]
  OBVIOUS
<1> HIDE DEF parts
<1>4. LET j == Moved(r, batch, part)
      IN Record(j) /\ j.pc = run[r].pc /\ j.overran = run[r].overran /\ j.part = parts
  BY <1>1, <1>2, PartUpdated
<1> QED
  BY <1>3, <1>4

(* The sets of a run in hand change their part, or leave it.                *)
LEMMA InHandMoved ==
  ASSUME QueueInv, IInv', NEW r \in Runs, NEW batch, NEW part \in Parts \ {"picked"},
         run[r].pc \in {"search", "pages", "failure"},
         \A s \in batch : run[r].part[s] \notin {"none", "picked"},
         Move(r, Moved(r, batch, part)), overruns' = overruns,
         overruns = 0 => fetched' = fetched
  PROVE  QueueInv' /\ [Registry!Next]_Registry!vars
<1> DEFINE j == Moved(r, batch, part)
<1>1. /\ j.pc = run[r].pc /\ j.overran = run[r].overran
      /\ \A s \in Sets : j.part[s] = IF s \in batch THEN part ELSE run[r].part[s]
  BY MovedParts
<1>2. Move(r, j)
  OBVIOUS
<1> HIDE DEF j
<1>3. Quiet(j)
  BY <1>1 DEF Quiet, Pcs
<1>4. Working(r)
  BY DEF Working
<1>5. j.pc \in Busy => run[r].pc \in Busy /\ \A s \in Sets :
           /\ j.part[s] = "none" \/ run[r].part[s] # "none"
           /\ Has(j, s) => run[r].part[s] # "picked"
  BY <1>1 DEF Busy, Has
<1> QED
  BY <1>1, <1>2, <1>3, <1>4, <1>5, WorkerGoesOn

(* A run stops working on its sets, some of which it may have completed.    *)
LEMMA WorkStops ==
  ASSUME QueueInv, IInv', NEW r \in Runs, Working(r), NEW completed,
         MoveTo(r, "release"), overruns' = overruns,
         overruns = 0 => /\ fetched' = fetched \cup completed
                         /\ completed \subseteq {s \in Sets : Has(run[r], s)}
  PROVE  QueueInv' /\ [Registry!Next]_Registry!vars
<1> DEFINE j == [run[r] EXCEPT !.pc = "release"]
<1>1. Record(run[r])
  BY DEF QueueInv, IInv, RecordsOK
<1>2. j.pc = "release" /\ j.overran = run[r].overran
  BY <1>1, PcUpdated
<1>3. Move(r, j)
  BY DEF MoveTo
<1> HIDE DEF j
<1>4. Quiet(j) /\ Open(j, fetched') /\ \A s \in Sets : ~Has(j, s)
  BY <1>2 DEF Quiet, Open, Has, Busy, Pcs
<1>5. overruns = 0 => completed \subseteq {s \in Sets : Has(run[r], s) /\ ~Has(j, s)}
  BY <1>4
<1> QED
  BY <1>2, <1>3, <1>4, <1>5, WorkerSettles

(* A run is gone: it ended or died.                                         *)
LEMMA RunGone ==
  ASSUME QueueInv, IInv', NEW r \in Runs, Working(r), Move(r, Idle),
         overruns' = overruns, fetched' = fetched
  PROVE  QueueInv' /\ [Registry!Next]_Registry!vars
<1> DEFINE j == Idle
           completed == {}
<1>1. j.pc = "idle" /\ ~j.overran /\ \A s \in Sets : j.part[s] = "none"
  BY DEF Idle
<1>2. Move(r, j)
  OBVIOUS
<1> HIDE DEF j
<1>3. Quiet(j) /\ Open(j, fetched') /\ \A s \in Sets : ~Has(j, s)
  BY <1>1 DEF Quiet, Open, Has, Busy, Pcs
<1>4. completed \subseteq {s \in Sets : Has(run[r], s) /\ ~Has(j, s)} /\ fetched' = fetched \cup completed
  OBVIOUS
<1> HIDE DEF completed
<1>5. Fair(r, j, completed)
  BY <1>1, <1>3, <1>4 DEF Fair
<1>6. overruns = 0 => \A q \in Runs : q # r => ~Working(q)
  BY Alone
<1> QED
  BY <1>2, <1>3, <1>5, <1>6, RunSettles

LEMMA RegistryStays ==
  ASSUME QueueInv, IInv', UNCHANGED <<run, fetched, overruns>>
  PROVE  QueueInv' /\ [Registry!Next]_Registry!vars
<1>1. QueueInv'
  BY DEF QueueInv, Quiet, Open
<1>2. UNCHANGED Owner
  BY DEF Owner, Holds, Working
<1> QED
  BY <1>1, <1>2 DEF Registry!vars

-----------------------------------------------------------------------------
(* The refinement, action by action.                                        *)

LEMMA AcquireSettles ==
  ASSUME BackfillRunAssumption, QueueInv, IInv', NEW r \in Runs, Acquire(r)
  PROVE  QueueInv' /\ [Registry!Next]_Registry!vars
<1>1. CASE MoveTo(r, "select") /\ UNCHANGED bounds
  <2> DEFINE j == [run[r] EXCEPT !.pc = "select"]
             completed == {}
  <2>1. Record(run[r]) /\ Quiet(run[r]) /\ run[r].pc = "idle"
    BY DEF QueueInv, IInv, RecordsOK, Acquire
  <2>2. j.pc = "select" /\ j.overran = run[r].overran /\ j.part = run[r].part
    BY <2>1, PcUpdated
  <2>3. Move(r, j) /\ fetched' = fetched /\ overruns' = overruns
    BY <1>1 DEF MoveTo, Acquire, registry, bounds
  <2> HIDE DEF j
  <2>4. Quiet(j) /\ \A s \in Sets : j.part[s] = "none"
    BY <2>1, <2>2 DEF Quiet, Pcs
  <2>5. Open(j, fetched') /\ \A s \in Sets : ~Has(j, s)
    BY <2>4 DEF Open, Has
  <2>6. overruns = 0 => ~j.overran /\ \A q \in Runs : q # r => ~Working(q)
    BY <2>2 DEF QueueInv, IInv, LockInv, Acquire, BackfillRunAssumption
  <2>7. /\ completed \subseteq {s \in Sets : Has(run[r], s) /\ ~Has(j, s)}
        /\ fetched' = fetched \cup completed
    BY <2>3
  <2> HIDE DEF completed
  <2>8. overruns = 0 => Fair(r, j, completed)
    BY <2>5, <2>6, <2>7 DEF Fair
  <2> QED
    BY <2>3, <2>4, <2>6, <2>8, RunSettles
<1>2. CASE UNCHANGED run /\ Fault
  BY <1>2, RegistryStays DEF Acquire, registry, Fault
<1> QED
  BY <1>1, <1>2 DEF Acquire

LEMMA SelectSettles ==
  ASSUME QueueInv, IInv', NEW r \in Runs, Select(r)
  PROVE  QueueInv' /\ [Registry!Next]_Registry!vars
<1>1. Working(r) /\ fetched' = fetched /\ overruns' = overruns
  BY DEF Select, Working, registry, bounds
<1> DEFINE completed == {}
<1>2. completed \subseteq {s \in Sets : Has(run[r], s)} /\ fetched' = fetched \cup completed
  BY <1>1
<1>3. CASE MoveTo(r, "release")
  <2> HIDE DEF completed
  <2> QED
    BY <1>1, <1>2, <1>3, WorkStops
<1>4. ASSUME NEW n \in 0..Limit, NEW rows \in [1..n -> Claimable],
             Move(r, [Moved(r, ToSet(rows), "picked") EXCEPT !.pc = "claim", !.rows = rows])
      PROVE  QueueInv' /\ [Registry!Next]_Registry!vars
  <2> DEFINE h == Moved(r, ToSet(rows), "picked")
             i == [h EXCEPT !.pc = "claim"]
             j == [i EXCEPT !.rows = rows]
  <2>1. ToSet(rows) \cap fetched = {}
    BY DEF ToSet, Claimable, Waiting
  <2>2. Move(r, j)
    BY <1>4
  <2>3. /\ Record(h) /\ h.overran = run[r].overran
        /\ \A s \in Sets : h.part[s] = IF s \in ToSet(rows) THEN "picked" ELSE run[r].part[s]
    BY MovedParts
  <2> HIDE DEF h
  <2>4. Record(i) /\ i.pc = "claim" /\ i.overran = h.overran /\ i.part = h.part
    BY <2>3, PcUpdated
  <2> HIDE DEF i
  <2>5. j.pc = "claim" /\ j.overran = h.overran /\ j.part = h.part
    BY <2>4, RowsUpdated
  <2> HIDE DEF j
  <2>6. \A s \in Sets : run[r].part[s] = "none"
    BY DEF QueueInv, Quiet, Select
  <2>7. \A s \in Sets : j.part[s] \in {"none", "picked"} /\ (j.part[s] # "none" => s \notin fetched')
    BY <1>1, <2>1, <2>3, <2>5, <2>6
  <2>8. Quiet(j) /\ Open(j, fetched') /\ \A s \in Sets : ~Has(j, s)
    BY <2>5, <2>7 DEF Quiet, Open, Has, Pcs
  <2>9. completed \subseteq {s \in Sets : Has(run[r], s) /\ ~Has(j, s)}
    OBVIOUS
  <2> HIDE DEF completed
  <2> QED
    BY <1>1, <1>2, <2>2, <2>3, <2>5, <2>8, <2>9, WorkerSettles
<1> QED
  BY <1>3, <1>4 DEF Select

(* The claimed sets are handed out.                                         *)
LEMMA ClaimSettles ==
  ASSUME QueueInv, IInv', NEW r \in Runs, Claim(r)
  PROVE  QueueInv' /\ [Registry!Next]_Registry!vars
<1> DEFINE batch == In(r, "picked")
           h == Moved(r, batch, "todo")
           j == [h EXCEPT !.pc = "search"]
<1>1. /\ Working(r) /\ fetched' = fetched /\ overruns' = overruns
      /\ Move(r, j)
  BY DEF Claim, Working, bounds
<1>2. /\ Record(h) /\ h.overran = run[r].overran
      /\ \A s \in Sets : h.part[s] = IF s \in batch THEN "todo" ELSE run[r].part[s]
  BY MovedParts
<1> HIDE DEF h
<1>3. j.pc = "search" /\ j.overran = run[r].overran /\ j.part = h.part
  BY <1>2, PcUpdated
<1> HIDE DEF j
<1>4. \A s \in Sets : run[r].part[s] \in {"none", "picked"}
  BY DEF QueueInv, Quiet, Claim
<1>5. batch \in SUBSET Sets /\ \A s \in Sets : s \in batch <=> run[r].part[s] = "picked"
  BY DEF In
<1> HIDE DEF batch
<1>6. \A s \in Sets : ~Has(run[r], s) /\ (Has(j, s) <=> s \in batch)
  BY <1>2, <1>3, <1>4, <1>5 DEF Has, Busy
<1>7. \A s \in Sets : j.part[s] # "none" => run[r].part[s] # "none"
  BY <1>2, <1>3, <1>5
<1>8. Quiet(j)
  BY <1>3 DEF Quiet, Pcs
<1>9. run' = [q \in Runs |-> IF q = r THEN j ELSE run[q]]
  BY <1>1 DEF Move, QueueInv, IInv, RecordsOK
<1>10. overruns' \in Nat /\ \A q \in Runs : Quiet(run[q])'
  BY <1>1, <1>8, <1>9 DEF QueueInv, Quiet
<1>11. CASE overruns = 0
  <2>1. \A q \in Runs : q # r => ~Working(q)
    BY <1>1, <1>11, Alone
  <2>2. Owner = [s \in Sets |-> IF Has(run[r], s) THEN r ELSE NoRun]
    BY <2>1, OwnerBefore
  <2>3. \A q \in Runs : q # r => ~Working(q)'
    BY <1>9, <2>1 DEF Working
  <2>4. Owner' = [s \in Sets |-> IF Has(run'[r], s) THEN r ELSE NoRun]
    BY <2>3, OwnerAfter
  <2>5. run'[r] = j
    BY <1>9
  <2>6. Owner' = [s \in Sets |-> IF s \in batch THEN r ELSE Owner[s]]
    BY <1>6, <2>2, <2>4, <2>5
  <2>7. run[r].pc = "claim" /\ \A s \in Sets : run[r].part[s] # "none" => s \notin fetched
    BY <1>11 DEF QueueInv, Open, Busy, Claim
  <2>8. \A s \in batch : Owner[s] = NoRun /\ s \notin fetched
    BY <1>5, <1>6, <2>2, <2>7
  <2>9. (overruns > 0)' = (overruns > 0)
    BY <1>1
  <2>10. Registry!HandOut(r, batch)
    BY <1>1, <2>6, <2>8, <2>9 DEF Registry!HandOut
  <2>11. Registry!Next
    BY <1>5, <2>10 DEF Registry!Next
  <2>12. Open(j, fetched')
    BY <1>1, <1>7, <2>7 DEF Open
  <2>13. ASSUME NEW q \in Runs PROVE ~run'[q].overran /\ Open(run'[q], fetched')
    <3>1. CASE q = r
      <4>1. run'[q] = j /\ ~run[r].overran
        BY <1>11, <2>5, <3>1 DEF QueueInv
      <4> QED
        BY <4>1, <1>3, <2>12
    <3>2. CASE q # r
      <4>1. run'[q] = run[q] /\ ~Working(q)
        BY <1>9, <2>1, <3>2
      <4> QED
        BY <4>1, <1>11 DEF QueueInv, Open, Working, Busy
    <3> QED
      BY <3>1, <3>2
  <2> QED
    BY <1>10, <2>11, <2>13 DEF QueueInv
<1>12. CASE overruns # 0
  <2>1. overruns' > 0
    BY <1>1, <1>12 DEF QueueInv
  <2>2. QueueInv'
    BY <1>1, <1>10, <1>12 DEF QueueInv
  <2> QED
    BY <2>1, <2>2, Excuses
<1> QED
  BY <1>11, <1>12

LEMMA SearchEndsSettles ==
  ASSUME QueueInv, IInv', NEW r \in Runs, SearchEnds(r)
  PROVE  QueueInv' /\ [Registry!Next]_Registry!vars
<1>1. /\ Working(r) /\ fetched' = fetched /\ overruns' = overruns
      /\ Record(run[r]) /\ run[r].pc = "search"
  BY DEF SearchEnds, Working, Work, registry, bounds, QueueInv, IInv, RecordsOK
<1>2. PICK deferred :
        Move(r, [run[r] EXCEPT !.pc = "pages", !.rows = <<>>,
                   !.part = [s \in Sets |-> IF s \in deferred THEN "none"
                                            ELSE IF run[r].part[s] = "missed" THEN "todo"
                                            ELSE run[r].part[s]]])
  BY <1>1 DEF SearchEnds, Record
<1> DEFINE part == [s \in Sets |-> IF s \in deferred THEN "none"
                                   ELSE IF run[r].part[s] = "missed" THEN "todo"
                                   ELSE run[r].part[s]]
           h == [run[r] EXCEPT !.pc = "pages"]
           i == [h EXCEPT !.rows = <<>>]
           j == [i EXCEPT !.part = part]
<1>3. Move(r, j)
  BY <1>2
<1>4. \A s \in Sets : IF s \in deferred THEN part[s] = "none"
                       ELSE IF run[r].part[s] = "missed" THEN part[s] = "todo"
                       ELSE part[s] = run[r].part[s]
  OBVIOUS
<1> HIDE DEF part
<1>5. Record(h) /\ h.pc = "pages" /\ h.overran = run[r].overran
  BY <1>1, PcUpdated
<1> HIDE DEF h
<1>6. Record(i) /\ i.pc = "pages" /\ i.overran = run[r].overran
  BY <1>5, RowsUpdated
<1> HIDE DEF i
<1>7. j.pc = "pages" /\ j.overran = run[r].overran /\ j.part = part
  BY <1>6, PartUpdated
<1> HIDE DEF j
<1>8. \A s \in Sets : /\ j.part[s] = "none" \/ run[r].part[s] # "none"
                      /\ Has(j, s) => run[r].part[s] # "picked"
  BY <1>4, <1>7 DEF Has
<1>9. Quiet(j)
  BY <1>7 DEF Quiet, Pcs
<1> QED
  BY <1>1, <1>3, <1>7, <1>8, <1>9, WorkerGoesOn DEF Busy

LEMMA MarkSuccessSettles ==
  ASSUME QueueInv, IInv', NEW r \in Runs, MarkSuccess(r)
  PROVE  QueueInv' /\ [Registry!Next]_Registry!vars
<1> DEFINE completed == In(r, "won")
           h == Moved(r, completed, "none")
           j == [h EXCEPT !.pc = "failure"]
<1>1. /\ Working(r) /\ run[r].pc = "pages" /\ overruns' = overruns
      /\ fetched' = fetched \cup completed /\ Move(r, j)
  BY DEF MarkSuccess, Settled, Working, bounds
<1>2. /\ Record(h) /\ h.overran = run[r].overran
      /\ \A s \in Sets : h.part[s] = IF s \in completed THEN "none" ELSE run[r].part[s]
  BY MovedParts
<1> HIDE DEF h
<1>3. j.pc = "failure" /\ j.overran = run[r].overran /\ j.part = h.part
  BY <1>2, PcUpdated
<1> HIDE DEF j
<1>4. \A s \in Sets : s \in completed <=> run[r].part[s] = "won"
  BY DEF In
<1>5. completed \subseteq Sets
  BY DEF In
<1> HIDE DEF completed
<1>6. \A s \in Sets : (Has(j, s) => Has(run[r], s)) /\ (s \in completed => Has(run[r], s) /\ ~Has(j, s))
  BY <1>1, <1>2, <1>3, <1>4 DEF Has, Busy
<1>7. Quiet(j)
  BY <1>3 DEF Quiet, Pcs
<1>8. overruns = 0 => Open(j, fetched')
  <2>1. overruns = 0 => \A s \in Sets : run[r].part[s] # "none" => s \notin fetched
    BY <1>1 DEF QueueInv, Open, Busy
  <2> QED
    BY <2>1, <1>1, <1>2, <1>3, <1>4 DEF Open
<1>9. completed \subseteq {s \in Sets : Has(run[r], s) /\ ~Has(j, s)}
  BY <1>5, <1>6
<1> QED
  BY <1>1, <1>3, <1>6, <1>7, <1>8, <1>9, WorkerSettles

(* A set that a run failed on was not fetched before.                       *)
LEMMA FailureKeepsFetched ==
  ASSUME QueueInv, overruns = 0, NEW r \in Runs, run[r].pc = "failure", NEW s \in In(r, "lost")
  PROVE  fetched \ {s} = fetched
<1>1. s \notin fetched
  BY DEF QueueInv, Open, Busy, In
<1> QED
  BY <1>1

LEMMA MarkFailureSettles ==
  ASSUME QueueInv, IInv', NEW r \in Runs, MarkFailure(r)
  PROVE  QueueInv' /\ [Registry!Next]_Registry!vars
<1>1. PICK s \in In(r, "lost") : fetched' = fetched \ {s} /\ Move(r, Moved(r, {s}, "none"))
  BY DEF MarkFailure
<1>2. run[r].pc = "failure" /\ overruns' = overruns
  BY DEF MarkFailure, bounds
<1>3. overruns = 0 => fetched' = fetched
  BY <1>1, <1>2, FailureKeepsFetched
<1>4. \A t \in {s} : run[r].part[t] \notin {"none", "picked"}
  BY <1>1 DEF In
<1> QED
  BY <1>1, <1>2, <1>3, <1>4, InHandMoved DEF Parts

LEMMA StepSettles ==
  ASSUME QueueInv, IInv', NEW r \in Runs, Step(r)
  PROVE  QueueInv' /\ [Registry!Next]_Registry!vars
<1>1. CASE Select(r)
  BY <1>1, SelectSettles
<1>2. CASE Claim(r)
  BY <1>2, ClaimSettles
<1>3. CASE Search(r)
  <2>1. PICK s \in In(r, "todo") \cap Sports, part \in {"won", "lost", "missed"} :
          Move(r, Moved(r, {s}, part))
    BY <1>3 DEF Search
  <2>2. \A t \in {s} : run[r].part[t] \notin {"none", "picked"}
    BY DEF In
  <2> QED
    BY <1>3, <2>1, <2>2, InHandMoved DEF Search, Work, registry, bounds, Parts
<1>4. CASE SearchEnds(r)
  BY <1>4, SearchEndsSettles
<1>5. CASE Resolve(r)
  <2>1. PICK s \in In(r, "todo"), part \in {"resolved", "lost"} : Move(r, Moved(r, {s}, part))
    BY <1>5 DEF Resolve
  <2>2. \A t \in {s} : run[r].part[t] \notin {"none", "picked"}
    BY DEF In
  <2> QED
    BY <1>5, <2>1, <2>2, InHandMoved DEF Resolve, Work, registry, bounds, Parts
<1>6. CASE \E site \in Sites : Load(r, site) \/ LoadRefused(r, site)
  <2>1. PICK site \in Sites : Load(r, site) \/ LoadRefused(r, site)
    BY <1>6
  <2>2. /\ run[r].pc = "pages" /\ Work(r)
        /\ \E part \in {"won", "lost", "none"} : Move(r, Moved(r, Resolved(r, site), part))
    BY <2>1 DEF Load, LoadRefused
  <2>3. \A t \in Resolved(r, site) : run[r].part[t] \notin {"none", "picked"}
    BY DEF Resolved, In
  <2> QED
    BY <2>2, <2>3, InHandMoved DEF Work, registry, bounds, Parts
<1>7. CASE MarkSuccess(r)
  BY <1>7, MarkSuccessSettles
<1>8. CASE MarkFailure(r)
  BY <1>8, MarkFailureSettles
<1>9. CASE MarksEnd(r)
  <2> DEFINE completed == {}
  <2>1. /\ Working(r) /\ MoveTo(r, "release") /\ overruns' = overruns
        /\ fetched' = fetched \cup completed /\ completed \subseteq {s \in Sets : Has(run[r], s)}
    BY <1>9 DEF MarksEnd, Working, Work, registry, bounds
  <2> HIDE DEF completed
  <2> QED
    BY <2>1, WorkStops
<1>10. CASE Release(r)
  BY <1>10, RunGone DEF Release, Working, registry, bounds, Fault
<1> QED
  BY <1>1, <1>2, <1>3, <1>4, <1>5, <1>6, <1>7, <1>8, <1>9, <1>10 DEF Step

LEMMA RunFailsSettles ==
  ASSUME QueueInv, IInv', NEW r \in Runs, RunFails(r)
  PROVE  QueueInv' /\ [Registry!Next]_Registry!vars
<1>1. Working(r) /\ MoveTo(r, "release") /\ overruns' = overruns
  BY DEF RunFails, Working, Settled, Fault
<1>2. CASE fetched' = fetched \cup In(r, "won") /\ Settled(r)
  <2> DEFINE completed == In(r, "won")
  <2>1. fetched' = fetched \cup completed /\ completed \subseteq {s \in Sets : Has(run[r], s)}
    BY <1>2 DEF In, Has, Settled, Busy
  <2> HIDE DEF completed
  <2> QED
    BY <1>1, <2>1, WorkStops
<1>3. CASE overruns = 0 => fetched' = fetched
  <2> DEFINE completed == {}
  <2>1. overruns = 0 => /\ fetched' = fetched \cup completed
                        /\ completed \subseteq {s \in Sets : Has(run[r], s)}
    BY <1>3
  <2> HIDE DEF completed
  <2> QED
    BY <1>1, <2>1, WorkStops
<1>4. CASE run[r].pc = "failure" /\ \E s \in In(r, "lost") : fetched' = fetched \ {s}
  BY <1>3, <1>4, FailureKeepsFetched
<1> QED
  BY <1>2, <1>3, <1>4 DEF RunFails, registry

LEMMA LeaseEndsSettles ==
  ASSUME QueueInv, IInv', LeaseEnds
  PROVE  QueueInv' /\ [Registry!Next]_Registry!vars
<1>1. fetched' = fetched
  BY DEF LeaseEnds, registry
<1>2. CASE ~Working(lock)
  BY <1>1, <1>2, RegistryStays DEF LeaseEnds
<1>3. CASE Working(lock)
  <2>1. overruns' = overruns + 1 /\ Move(lock, [run[lock] EXCEPT !.overran = TRUE])
    BY <1>3 DEF LeaseEnds
  <2>2. overruns' \in Nat /\ overruns' > 0
    BY <2>1 DEF QueueInv
  <2>3. ASSUME NEW q \in Runs PROVE run'[q].pc = run[q].pc /\ run'[q].part = run[q].part
    <3>1. Record(run[q])
      BY DEF QueueInv, IInv, RecordsOK
    <3> DEFINE j == [run[q] EXCEPT !.overran = TRUE]
    <3>2. run'[q] = run[q] \/ run'[q] = j
      BY <2>1 DEF Move, QueueInv, IInv, RecordsOK
    <3>3. j.pc = run[q].pc /\ j.part = run[q].part
      BY <3>1, OverranUpdated
    <3> HIDE DEF j
    <3> QED
      BY <3>2, <3>3
  <2>4. QueueInv'
    BY <2>2, <2>3 DEF QueueInv, Quiet
  <2> QED
    BY <2>2, <2>4, Excuses
<1> QED
  BY <1>2, <1>3

LEMMA QueueStep ==
  ASSUME BackfillRunAssumption, QueueInv, [Next]_vars
  PROVE  QueueInv' /\ [Registry!Next]_Registry!vars
<1>1. IInv'
  BY InvariantStep DEF QueueInv
<1>2. CASE \E r \in Runs : Acquire(r)
  BY <1>1, <1>2, AcquireSettles
<1>3. CASE \E r \in Runs : Step(r)
  BY <1>1, <1>3, StepSettles
<1>4. CASE \E r \in Runs : RunFails(r)
  BY <1>1, <1>4, RunFailsSettles
<1>5. CASE \E r \in Runs : Crash(r)
  <2>1. PICK r \in Runs : Crash(r)
    BY <1>5
  <2>2. Working(r)
    BY <2>1 DEF Crash, Working, QueueInv, Quiet, Pcs
  <2> QED
    BY <1>1, <2>1, <2>2, RunGone DEF Crash, Fault, registry
<1>6. CASE LeaseEnds
  BY <1>1, <1>6, LeaseEndsSettles
<1>7. CASE \E s \in Sets : ClaimEnds(s)
  BY <1>1, <1>7, RegistryStays DEF ClaimEnds, bounds
<1>8. CASE UNCHANGED vars
  BY <1>1, <1>8, RegistryStays DEF vars, bounds, registry
<1> QED
  BY <1>2, <1>3, <1>4, <1>5, <1>6, <1>7, <1>8 DEF Next

LEMMA QueueInit == Init => QueueInv /\ Registry!Init
<1> SUFFICES ASSUME Init PROVE QueueInv /\ Registry!Init
  OBVIOUS
<1>1. \A r \in Runs : run[r] = Idle
  BY DEF Init
<1>2. Idle.pc = "idle" /\ ~Idle.overran /\ \A s \in Sets : Idle.part[s] = "none"
  BY DEF Idle
<1>3. overruns = 0 /\ fetched = {}
  BY DEF Init
<1>4. QueueInv
  BY InitHolds, <1>1, <1>2, <1>3 DEF QueueInv, Quiet, Open, Busy, Pcs
<1>5. \A r \in Runs, s \in Sets : ~Holds(r, s)
  BY <1>1, <1>2 DEF Holds, Working
<1>6. Owner = [s \in Sets |-> NoRun]
  BY <1>5 DEF Owner
<1>7. ~(overruns > 0)
  BY <1>3
<1> QED
  BY <1>3, <1>4, <1>6, <1>7 DEF Registry!Init

(* No set is with two runs, completed by another than the run it is with,   *)
(* or handed out once it is fetched, until a run outlives its lease: for    *)
(* any number of runs, sets and failures.                                   *)
THEOREM QueueImplemented == Spec => SharedAsQueue
<1>1. QueueInv /\ [Next]_vars => QueueInv' /\ [Registry!Next]_Registry!vars
  BY QueueStep, BackfillRunAssumption
<1> QED
  BY QueueInit, <1>1, PTL DEF Spec, SharedAsQueue, Registry!Spec

-----------------------------------------------------------------------------
(* Types.                                                                   *)

LEMMA PcTyped ==
  ASSUME NEW j \in RunRecord, NEW pc \in Pcs
  PROVE  [j EXCEPT !.pc = pc] \in RunRecord
BY DEF RunRecord

LEMMA RowsTyped ==
  ASSUME NEW j \in RunRecord, NEW rows \in Seq(Sets)
  PROVE  [j EXCEPT !.rows = rows] \in RunRecord
BY DEF RunRecord

LEMMA PartTyped ==
  ASSUME NEW j \in RunRecord, NEW part \in [Sets -> Parts]
  PROVE  [j EXCEPT !.part = part] \in RunRecord
BY DEF RunRecord

LEMMA OverranTyped ==
  ASSUME NEW j \in RunRecord
  PROVE  [j EXCEPT !.overran = TRUE] \in RunRecord
BY DEF RunRecord

LEMMA IdleTyped == Idle \in RunRecord
BY DEF Idle, RunRecord, Pcs, Parts

LEMMA MovedTyped ==
  ASSUME TypeOK, NEW r \in Runs, NEW batch, NEW part \in Parts
  PROVE  Moved(r, batch, part) \in RunRecord
<1> DEFINE parts == [s \in Sets |-> IF s \in batch THEN part ELSE run[r].part[s]]
<1>1. run[r] \in RunRecord
  BY DEF TypeOK
<1>2. run[r].part \in [Sets -> Parts]
  BY <1>1 DEF RunRecord
<1>3. parts \in [Sets -> Parts]
  BY <1>2
<1>4. Moved(r, batch, part) = [run[r] EXCEPT !.part = parts]
  BY DEF Moved
<1> HIDE DEF parts
<1> QED
  BY <1>1, <1>3, <1>4, PartTyped

LEMMA RunTyped ==
  ASSUME TypeOK, NEW r \in Runs, NEW j \in RunRecord, Move(r, j)
  PROVE  run' \in [Runs -> RunRecord]
BY DEF TypeOK, Move

LEMMA RunTypedTo ==
  ASSUME TypeOK, NEW r \in Runs, NEW pc \in Pcs, MoveTo(r, pc)
  PROVE  run' \in [Runs -> RunRecord]
<1> DEFINE j == [run[r] EXCEPT !.pc = pc]
<1>1. j \in RunRecord
  BY PcTyped DEF TypeOK
<1>2. Move(r, j)
  BY DEF MoveTo
<1> HIDE DEF j
<1> QED
  BY <1>1, <1>2, RunTyped

LEMMA RunTypedWith ==
  ASSUME TypeOK, NEW r \in Runs, NEW batch, NEW part \in Parts, NEW pc \in Pcs,
         Move(r, [Moved(r, batch, part) EXCEPT !.pc = pc])
  PROVE  run' \in [Runs -> RunRecord]
<1> DEFINE j == [Moved(r, batch, part) EXCEPT !.pc = pc]
<1>1. j \in RunRecord
  BY MovedTyped, PcTyped
<1> HIDE DEF j
<1> QED
  BY <1>1, RunTyped DEF j

LEMMA PartsTyped ==
  ASSUME TypeOK, NEW r \in Runs, NEW batch, NEW part \in Parts, Move(r, Moved(r, batch, part))
  PROVE  run' \in [Runs -> RunRecord]
<1> DEFINE j == Moved(r, batch, part)
<1>1. j \in RunRecord
  BY MovedTyped
<1> HIDE DEF j
<1> QED
  BY <1>1, RunTyped DEF j

(* What the registry's columns range over.                                  *)
RegistryOK ==
  /\ queue \in Orders
  /\ fetched \subseteq Sets
  /\ claims \subseteq Sets

BoundsOK == faults \in 0..MaxFaults /\ overruns \in 0..MaxOverruns

LEMMA TypeParts ==
  /\ TypeOK <=> /\ lock \in Runs \cup {NoRun} /\ RegistryOK /\ BoundsOK
                /\ run \in [Runs -> RunRecord]
  /\ TypeOK' <=> /\ lock' \in Runs \cup {NoRun} /\ RegistryOK' /\ BoundsOK'
                 /\ run' \in [Runs -> RunRecord]
BY DEF TypeOK, RegistryOK, BoundsOK

LEMMA RegistryKept == RegistryOK /\ UNCHANGED registry => RegistryOK'
BY DEF RegistryOK, registry

LEMMA BoundsKept == BoundsOK /\ (UNCHANGED bounds \/ Fault) => BoundsOK'
BY BackfillRunAssumption DEF BoundsOK, bounds, Fault

LEMMA RequeuedTyped == \A batch : Requeued(batch) \subseteq Orders
BY DEF Requeued

(* The marks of a batch of the run.                                         *)
LEMMA MarksTyped ==
  ASSUME RegistryOK, NEW batch \in SUBSET Sets,
         queue' \in Requeued(batch), claims' = claims \ batch,
         fetched' \in {fetched \cup batch, fetched \ batch}
  PROVE  RegistryOK'
BY RequeuedTyped DEF RegistryOK

LEMMA InTyped == \A r, part : In(r, part) \in SUBSET Sets
BY DEF In

LEMMA SelectTyped ==
  ASSUME TypeOK, NEW r \in Runs, Select(r)
  PROVE  TypeOK'
<1>1. lock' \in Runs \cup {NoRun} /\ RegistryOK' /\ BoundsOK'
  BY TypeParts, RegistryKept, BoundsKept DEF Select
<1>2. CASE MoveTo(r, "release")
  BY <1>1, <1>2, TypeParts, RunTypedTo DEF Pcs
<1>3. ASSUME NEW n \in 0..Limit, NEW rows \in [1..n -> Claimable],
             Move(r, [Moved(r, ToSet(rows), "picked") EXCEPT !.pc = "claim", !.rows = rows])
      PROVE  TypeOK'
  <2> DEFINE h == Moved(r, ToSet(rows), "picked")
             i == [h EXCEPT !.pc = "claim"]
             j == [i EXCEPT !.rows = rows]
  <2>1. rows \in [1..n -> Sets] /\ n \in Nat
    BY BackfillRunAssumption DEF Claimable, Waiting
  <2>2. rows \in Seq(Sets)
    BY <2>1
  <2>3. Move(r, j)
    BY <1>3
  <2>4. h \in RunRecord
    BY MovedTyped DEF Parts
  <2> HIDE DEF h
  <2>5. i \in RunRecord
    BY <2>4, PcTyped DEF Pcs
  <2> HIDE DEF i
  <2>6. j \in RunRecord
    BY <2>2, <2>5, RowsTyped
  <2> HIDE DEF j
  <2> QED
    BY <1>1, <2>3, <2>6, TypeParts, RunTyped
<1> QED
  BY <1>2, <1>3 DEF Select

LEMMA SearchEndsTyped ==
  ASSUME TypeOK, NEW r \in Runs, SearchEnds(r)
  PROVE  run' \in [Runs -> RunRecord]
<1>1. run[r] \in RunRecord
  BY DEF TypeOK
<1>2. run[r].part \in [Sets -> Parts]
  BY <1>1 DEF RunRecord
<1>3. PICK deferred :
        Move(r, [run[r] EXCEPT !.pc = "pages", !.rows = <<>>,
                   !.part = [s \in Sets |-> IF s \in deferred THEN "none"
                                            ELSE IF run[r].part[s] = "missed" THEN "todo"
                                            ELSE run[r].part[s]]])
  BY <1>1 DEF SearchEnds, RunRecord
<1> DEFINE part == [s \in Sets |-> IF s \in deferred THEN "none"
                                   ELSE IF run[r].part[s] = "missed" THEN "todo"
                                   ELSE run[r].part[s]]
           h == [run[r] EXCEPT !.pc = "pages"]
           i == [h EXCEPT !.rows = <<>>]
           j == [i EXCEPT !.part = part]
<1>4. Move(r, j)
  BY <1>3
<1>5. part \in [Sets -> Parts]
  BY <1>2 DEF Parts
<1> HIDE DEF part
<1>6. h \in RunRecord
  BY <1>1, PcTyped DEF Pcs
<1> HIDE DEF h
<1>7. i \in RunRecord
  <2>1. <<>> \in Seq(Sets)
    OBVIOUS
  <2> QED
    BY <1>6, <2>1, RowsTyped
<1> HIDE DEF i
<1>8. j \in RunRecord
  BY <1>5, <1>7, PartTyped
<1> HIDE DEF j
<1> QED
  BY <1>4, <1>8, RunTyped

LEMMA ReleaseTyped ==
  ASSUME TypeOK, NEW r \in Runs, Release(r)
  PROVE  TypeOK'
<1>1. lock' \in Runs \cup {NoRun}
  BY DEF Release, Released, TypeOK
<1>2. run' \in [Runs -> RunRecord]
  BY IdleTyped, RunTyped DEF Release
<1>3. RegistryOK' /\ BoundsOK'
  BY TypeParts, RegistryKept, BoundsKept DEF Release
<1> QED
  BY <1>1, <1>2, <1>3, TypeParts

LEMMA StepTyped ==
  ASSUME TypeOK, NEW r \in Runs, Step(r)
  PROVE  TypeOK'
<1>1. CASE Select(r)
  BY <1>1, SelectTyped
<1>2. CASE Claim(r)
  <2>1. run' \in [Runs -> RunRecord]
    BY <1>2, RunTypedWith DEF Claim, Pcs, Parts
  <2>2. RegistryOK'
    BY <1>2, InTyped DEF Claim, TypeOK, RegistryOK
  <2> QED
    BY <1>2, <2>1, <2>2, TypeParts, BoundsKept DEF Claim
<1>3. CASE Work(r) /\ run' \in [Runs -> RunRecord]
  BY <1>3, TypeParts, RegistryKept, BoundsKept DEF Work
<1>4. CASE Search(r) \/ Resolve(r)
  <2>1. run' \in [Runs -> RunRecord]
    BY <1>4, PartsTyped DEF Search, Resolve, Parts
  <2> QED
    BY <1>3, <1>4, <2>1 DEF Search, Resolve
<1>5. CASE SearchEnds(r)
  BY <1>3, <1>5, SearchEndsTyped DEF SearchEnds
<1>6. CASE \E site \in Sites : Load(r, site) \/ LoadRefused(r, site)
  <2>1. run' \in [Runs -> RunRecord]
    BY <1>6, PartsTyped DEF Load, LoadRefused, Parts
  <2> QED
    BY <1>3, <1>6, <2>1 DEF Load, LoadRefused
<1>7. CASE MarkSuccess(r)
  <2>1. run' \in [Runs -> RunRecord]
    BY <1>7, RunTypedWith DEF MarkSuccess, Pcs, Parts
  <2>2. RegistryOK'
    BY <1>7, TypeParts, InTyped, MarksTyped DEF MarkSuccess
  <2> QED
    BY <1>7, <2>1, <2>2, TypeParts, BoundsKept DEF MarkSuccess
<1>8. CASE MarkFailure(r)
  <2>1. PICK s \in In(r, "lost") :
          /\ queue' \in Requeued({s})
          /\ fetched' = fetched \ {s}
          /\ claims' = claims \ {s}
          /\ Move(r, Moved(r, {s}, "none"))
    BY <1>8 DEF MarkFailure
  <2>2. run' \in [Runs -> RunRecord]
    BY <2>1, PartsTyped DEF Parts
  <2>3. {s} \in SUBSET Sets
    BY InTyped
  <2>4. RegistryOK'
    BY <2>1, <2>3, TypeParts, MarksTyped
  <2> QED
    BY <1>8, <2>2, <2>4, TypeParts, BoundsKept DEF MarkFailure
<1>9. CASE MarksEnd(r)
  BY <1>3, <1>9, RunTypedTo DEF MarksEnd, Pcs
<1>10. CASE Release(r)
  BY <1>10, ReleaseTyped
<1> QED
  BY <1>1, <1>2, <1>4, <1>5, <1>6, <1>7, <1>8, <1>9, <1>10 DEF Step

LEMMA RunFailsTyped ==
  ASSUME TypeOK, NEW r \in Runs, RunFails(r)
  PROVE  TypeOK'
<1>1. run' \in [Runs -> RunRecord]
  BY RunTypedTo DEF RunFails, Pcs
<1>2. lock' \in Runs \cup {NoRun} /\ BoundsOK'
  BY TypeParts, BoundsKept DEF RunFails
<1>3. RegistryOK
  BY TypeParts
<1>4. ASSUME UNCHANGED registry
      PROVE  RegistryOK'
  BY <1>3, <1>4, RegistryKept
<1>5. ASSUME claims' \in {claims, claims \cup In(r, "picked")}, UNCHANGED <<queue, fetched>>
      PROVE  RegistryOK'
  BY <1>3, <1>5, InTyped DEF RegistryOK
<1>6. ASSUME queue' \in Requeued(In(r, "won")),
             fetched' = fetched \cup In(r, "won"), claims' = claims \ In(r, "won")
      PROVE  RegistryOK'
  BY <1>3, <1>6, InTyped, MarksTyped
<1>7. ASSUME NEW s \in In(r, "lost"), queue' \in Requeued({s}),
             fetched' = fetched \ {s}, claims' = claims \ {s}
      PROVE  RegistryOK'
  <2>1. {s} \in SUBSET Sets
    BY InTyped
  <2> QED
    BY <1>3, <1>7, <2>1, MarksTyped
<1>8. RegistryOK'
  BY <1>4, <1>5, <1>6, <1>7 DEF RunFails
<1> QED
  BY <1>1, <1>2, <1>8, TypeParts

LEMMA LeaseEndsTyped ==
  ASSUME TypeOK, LeaseEnds
  PROVE  TypeOK'
<1>1. lock' \in Runs \cup {NoRun} /\ RegistryOK' /\ lock \in Runs
  BY TypeParts, RegistryKept DEF LeaseEnds
<1>2. CASE Working(lock)
  <2> DEFINE j == [run[lock] EXCEPT !.overran = TRUE]
  <2>1. j \in RunRecord
    BY <1>1, OverranTyped DEF TypeOK
  <2>2. Move(lock, j)
    BY <1>2 DEF LeaseEnds
  <2> HIDE DEF j
  <2>3. run' \in [Runs -> RunRecord]
    BY <1>1, <2>1, <2>2, RunTyped
  <2>4. BoundsOK'
    BY <1>2, BackfillRunAssumption DEF LeaseEnds, TypeOK, BoundsOK
  <2> QED
    BY <1>1, <2>3, <2>4, TypeParts
<1>3. CASE ~Working(lock)
  BY <1>1, <1>3, TypeParts DEF LeaseEnds, BoundsOK
<1> QED
  BY <1>2, <1>3

LEMMA TypeStep ==
  ASSUME TypeOK, [Next]_vars
  PROVE  TypeOK'
<1>1. ASSUME NEW r \in Runs, Acquire(r) PROVE TypeOK'
  <2>1. lock' \in Runs \cup {NoRun} /\ RegistryOK' /\ BoundsOK'
    BY <1>1, TypeParts, RegistryKept, BoundsKept DEF Acquire
  <2>2. run' \in [Runs -> RunRecord]
    BY <1>1, RunTypedTo DEF Acquire, Pcs, TypeOK
  <2> QED
    BY <2>1, <2>2, TypeParts
<1>2. CASE \E r \in Runs : Step(r)
  BY <1>2, StepTyped
<1>3. CASE \E r \in Runs : RunFails(r)
  BY <1>3, RunFailsTyped
<1>4. ASSUME NEW r \in Runs, Crash(r) PROVE TypeOK'
  <2>1. run' \in [Runs -> RunRecord]
    BY <1>4, IdleTyped, RunTyped DEF Crash
  <2> QED
    BY <1>4, <2>1, TypeParts, RegistryKept, BoundsKept DEF Crash
<1>5. CASE LeaseEnds
  BY <1>5, LeaseEndsTyped
<1>6. ASSUME NEW s \in Sets, ClaimEnds(s) PROVE TypeOK'
  BY <1>6, TypeParts, BoundsKept DEF ClaimEnds, RegistryOK
<1>7. CASE UNCHANGED vars
  BY <1>7, TypeParts, RegistryKept, BoundsKept DEF vars, registry, bounds
<1> QED
  BY <1>1, <1>2, <1>3, <1>4, <1>5, <1>6, <1>7 DEF Next

LEMMA TypeInit == Init => TypeOK
BY IdleTyped, BackfillRunAssumption DEF Init, TypeOK

(* The state of the lock, the registry and the runs is well typed, and      *)
(* whatever is marked in whichever order every set keeps exactly one place  *)
(* in the queue: none is lost from the rotation, for any number of sets.    *)
THEOREM TypeCorrect == Spec => []TypeOK
<1>1. TypeOK /\ [Next]_vars => TypeOK'
  BY TypeStep
<1> QED
  BY TypeInit, <1>1, PTL DEF Spec

-----------------------------------------------------------------------------
(* The other job on the registry, Tier3Rotation. Its runs are not those of  *)
(* BackfillRun and its queue is ordered by another column: no theorem here  *)
(* speaks of both.                                                          *)

CONSTANTS Dead, BatchSize, MaxRequests, Budgets, MaxFailures, Threshold, MaxOutages
VARIABLES failures, outage, outages

Rotation == INSTANCE Tier3Rotation

(* The instance's copies of the standard operators.                         *)
LEMMA SameCardinality == \A S : Rotation!Cardinality(S) = Cardinality(S)
BY DEF Rotation!Cardinality, Cardinality, Rotation!IsFiniteSet, IsFiniteSet

LEMMA RotationNumbers ==
  ASSUME Rotation!Tier3RotationAssumption
  PROVE  /\ IsFiniteSet(Runs) /\ IsFiniteSet(Sets) /\ Budgets \subseteq Nat
         /\ BatchSize \in Nat /\ BatchSize > 0 /\ Rotation!Limit \in Nat
         /\ Threshold \in Nat /\ MaxFaults \in Nat /\ MaxOutages \in Nat
<1>1. IsFiniteSet(Runs) /\ IsFiniteSet(Sets)
  BY DEF Rotation!Tier3RotationAssumption, IsFiniteSet, Rotation!IsFiniteSet
<1> QED
  BY <1>1 DEF Rotation!Tier3RotationAssumption, Rotation!Limit

-----------------------------------------------------------------------------
(* Parts of a sequence of sets.                                             *)

LEMMA FirstsProperties ==
  ASSUME NEW q \in Seq(Sets), NEW n \in Nat
  PROVE  /\ Rotation!Firsts(q, n) \in Seq(Sets)
         /\ Len(Rotation!Firsts(q, n)) <= n
         /\ q # <<>> /\ n > 0 => Rotation!Firsts(q, n) # <<>>
<1> DEFINE m == IF Len(q) < n THEN Len(q) ELSE n
<1>1. m \in Nat /\ m <= Len(q) /\ m <= n /\ (q # <<>> /\ n > 0 => m > 0)
  OBVIOUS
<1>2. Rotation!Firsts(q, n) = SubSeq(q, 1, m)
  BY DEF Rotation!Firsts
<1> HIDE DEF m
<1>3. SubSeq(q, 1, m) \in Seq(Sets) /\ Len(SubSeq(q, 1, m)) = m
  BY <1>1
<1>4. Len(<<>>) = 0
  OBVIOUS
<1> QED
  BY <1>1, <1>2, <1>3, <1>4

LEMMA RestTyped ==
  ASSUME NEW q \in Seq(Sets), NEW n \in Nat
  PROVE  Rotation!Rest(q, n) \in Seq(Sets)
<1>1. Rotation!Firsts(q, n) \in Seq(Sets)
  BY FirstsProperties
<1> DEFINE m == Len(Rotation!Firsts(q, n)) + 1
<1>2. m \in Nat /\ m > 0
  BY <1>1
<1>3. Rotation!Rest(q, n) = SubSeq(q, m, Len(q))
  BY DEF Rotation!Rest
<1> HIDE DEF m
<1> QED
  BY <1>2, <1>3

LEMMA SetsOfASequence ==
  ASSUME NEW q \in Seq(Sets)
  PROVE  Rotation!ToSet(q) \subseteq Sets
BY DEF Rotation!ToSet

LEMMA HalvesTyped ==
  ASSUME NEW q \in Seq(Sets)
  PROVE  Rotation!Halves(q) \in Seq(Seq(Sets))
<1> DEFINE n == Len(q)
           m == n \div 2
           a == SubSeq(q, 1, m)
           b == SubSeq(q, m + 1, n)
<1>1. n \in Nat /\ m \in Nat /\ m <= n
  OBVIOUS
<1>2. Rotation!Halves(q) = <<a, b>>
  BY DEF Rotation!Halves
<1>3. DOMAIN q = 1..n
  OBVIOUS
<1> HIDE DEF m, n
<1>4. a \in Seq(Sets)
  BY <1>1, <1>3
<1>5. b \in Seq(Sets)
  BY <1>1, <1>3
<1> HIDE DEF a, b
<1>6. <<a, b>> \in Seq(Seq(Sets))
  BY <1>4, <1>5
<1> QED
  BY <1>2, <1>6

LEMMA HalvesProperties ==
  ASSUME NEW q \in Seq(Sets)
  PROVE  \E a, b \in Seq(Sets) :
           /\ Rotation!Halves(q) = <<a, b>>
           /\ Len(a) + Len(b) = Len(q)
           /\ Len(a) <= Len(b) /\ Len(b) <= Len(a) + 1
           /\ Rotation!ToSet(q) = Rotation!ToSet(a) \cup Rotation!ToSet(b)
<1> DEFINE n == Len(q)
           m == n \div 2
           a == SubSeq(q, 1, m)
           b == SubSeq(q, m + 1, n)
<1>1. n \in Nat /\ m \in Nat /\ m <= n /\ m <= n - m /\ n - m <= m + 1
  OBVIOUS
<1>2. Rotation!Halves(q) = <<a, b>>
  BY DEF Rotation!Halves
<1>3. Len(q) = n /\ DOMAIN q = 1..n
  OBVIOUS
<1> HIDE DEF m, n
<1>4. a \in Seq(Sets) /\ Len(a) = m /\ DOMAIN a = 1..m /\ \A i \in 1..m : a[i] = q[i]
  BY <1>1, <1>3
<1>5. b \in Seq(Sets) /\ Len(b) = n - m /\ DOMAIN b = 1..n - m /\ \A i \in 1..n - m : b[i] = q[m + i]
  <2>1. m + 1 \in Nat /\ m + 1 <= n + 1 /\ (n - (m + 1)) + 1 = n - m
    BY <1>1
  <2>2. b \in Seq(Sets)
    BY <1>1, <1>3, <2>1
  <2>3. Len(b) = n - m
    BY <1>1, <1>3, <2>1
  <2>4. DOMAIN b = 1..n - m
    BY <2>2, <2>3
  <2>5. ASSUME NEW i \in 1..n - m PROVE b[i] = q[m + i]
    <3>1. b[i] = q[(m + 1) + i - 1] /\ (m + 1) + i - 1 = m + i
      BY <1>1, <1>3, <2>1
    <3> QED
      BY <3>1
  <2> QED
    BY <2>2, <2>3, <2>4, <2>5
<1> HIDE DEF a, b
<1>6. Rotation!ToSet(a) \subseteq Rotation!ToSet(q)
  BY <1>1, <1>3, <1>4 DEF Rotation!ToSet
<1>7. Rotation!ToSet(b) \subseteq Rotation!ToSet(q)
  <2>1. \A i \in 1..n - m : m + i \in 1..n
    BY <1>1
  <2> QED
    BY <1>1, <1>3, <1>5, <2>1 DEF Rotation!ToSet
<1>8. ASSUME NEW i \in 1..n
      PROVE  q[i] \in Rotation!ToSet(a) \cup Rotation!ToSet(b)
  <2>1. CASE i <= m
    BY <1>1, <1>4, <2>1 DEF Rotation!ToSet
  <2>2. CASE i > m
    <3>1. i - m \in 1..n - m /\ m + (i - m) = i
      BY <1>1, <2>2
    <3>2. b[i - m] = q[i] /\ i - m \in DOMAIN b
      BY <1>5, <3>1
    <3> QED
      BY <3>2 DEF Rotation!ToSet
  <2> QED
    BY <1>1, <2>1, <2>2
<1>9. Rotation!ToSet(q) \subseteq Rotation!ToSet(a) \cup Rotation!ToSet(b)
  BY <1>3, <1>8 DEF Rotation!ToSet
<1>10. Rotation!ToSet(q) = Rotation!ToSet(a) \cup Rotation!ToSet(b)
  BY <1>6, <1>7, <1>9
<1>11. Len(a) + Len(b) = Len(q) /\ Len(a) <= Len(b) /\ Len(b) <= Len(a) + 1
  BY <1>1, <1>3, <1>4, <1>5
<1> QED
  BY <1>2, <1>4, <1>5, <1>10, <1>11

(* Every order of the sets is a sequence of sets.                           *)
LEMMA OrdersAreSequences ==
  ASSUME Rotation!Tier3RotationAssumption
  PROVE  Rotation!Orders \subseteq Seq(Sets)
<1>1. Rotation!Cardinality(Sets) \in Nat
  BY RotationNumbers, SameCardinality, FS_CardinalityType
<1> DEFINE n == Rotation!Cardinality(Sets)
<1> HIDE DEF n
<1>2. Rotation!Orders \subseteq [1..n -> Sets]
  BY DEF Rotation!Orders, n
<1> QED
  BY <1>1, <1>2 DEF n

LEMMA RotationRowsTyped ==
  ASSUME Rotation!Tier3RotationAssumption, NEW rows \in Rotation!RotationRows
  PROVE  rows \in Seq(Sets)
<1>1. PICK q \in Rotation!Orders :
        rows = Rotation!Firsts(Rotation!Firsts(q, Rotation!Cardinality(Rotation!Listed)),
                               Rotation!Limit)
  BY DEF Rotation!RotationRows, Rotation!InOrder
<1>2. Rotation!Cardinality(Rotation!Listed) \in Nat
  <2>1. IsFiniteSet(Rotation!Listed)
    BY RotationNumbers, FS_Subset DEF Rotation!Listed
  <2> QED
    BY <2>1, SameCardinality, FS_CardinalityType
<1> DEFINE p == Rotation!Firsts(q, Rotation!Cardinality(Rotation!Listed))
<1>3. p \in Seq(Sets)
  BY <1>1, <1>2, OrdersAreSequences, FirstsProperties
<1>4. rows = Rotation!Firsts(p, Rotation!Limit)
  BY <1>1
<1> HIDE DEF p
<1> QED
  BY <1>3, <1>4, RotationNumbers, FirstsProperties

-----------------------------------------------------------------------------
(* Segments that a number of probes suffices for: c[i] is what the segments *)
(* from the i-th on may cost, 2n - 1 for one of n sets.                     *)
Affordable(segments, n) ==
  /\ \A i \in 1..Len(segments) : segments[i] # <<>>
  /\ \E c \in [1..Len(segments) + 1 -> Nat] :
       /\ c[1] <= n
       /\ \A i \in 1..Len(segments) : c[i] >= c[i + 1] + 2 * Len(segments[i]) - 1

LEMMA NothingToAfford ==
  ASSUME NEW segments \in Seq(Seq(Sets)), Affordable(segments, 0)
  PROVE  segments = <<>>
<1> SUFFICES ASSUME segments # <<>> PROVE FALSE
  OBVIOUS
<1>1. PICK c \in [1..Len(segments) + 1 -> Nat] :
        /\ c[1] <= 0
        /\ \A i \in 1..Len(segments) : c[i] >= c[i + 1] + 2 * Len(segments[i]) - 1
  BY DEF Affordable
<1>2. 1 \in 1..Len(segments) /\ segments[1] \in Seq(Sets) /\ segments[1] # <<>>
  BY DEF Affordable
<1>3. Len(segments[1]) \in Nat /\ Len(segments[1]) > 0
  BY <1>2
<1>4. c[1] >= c[1 + 1] + 2 * Len(segments[1]) - 1
  BY <1>1, <1>2
<1>5. c[1] \in Nat /\ c[1 + 1] \in Nat
  <2>1. 1 \in 1..Len(segments) + 1 /\ 1 + 1 \in 1..Len(segments) + 1
    BY <1>2
  <2> QED
    BY <1>1, <2>1
<1> QED
  BY <1>1, <1>3, <1>4, <1>5

LEMMA OneAffordable ==
  ASSUME NEW q \in Seq(Sets), q # <<>>, NEW n \in Nat, n >= 2 * Len(q) - 1
  PROVE  Affordable(<<q>>, n)
<1> DEFINE c == [i \in 1..2 |-> IF i = 1 THEN n ELSE 0]
<1>1. Len(<<q>>) = 1 /\ <<q>>[1] = q
  OBVIOUS
<1>2. c \in [1..Len(<<q>>) + 1 -> Nat] /\ c[1] = n /\ c[1 + 1] = 0
  OBVIOUS
<1>3. Len(q) \in Nat
  OBVIOUS
<1> HIDE DEF c
<1>4. \A i \in 1..Len(<<q>>) : c[i] >= c[i + 1] + 2 * Len(<<q>>[i]) - 1
  <2> SUFFICES ASSUME NEW i \in 1..Len(<<q>>) PROVE c[i] >= c[i + 1] + 2 * Len(<<q>>[i]) - 1
    OBVIOUS
  <2>1. i = 1
    BY <1>1
  <2> QED
    BY <1>1, <1>2, <1>3, <2>1
<1> QED
  BY <1>1, <1>2, <1>4 DEF Affordable

(* A segment that is settled took one probe.                                *)
LEMMA TailAffordable ==
  ASSUME NEW segments \in Seq(Seq(Sets)), segments # <<>>, NEW n \in Nat,
         Affordable(segments, n)
  PROVE  Affordable(Tail(segments), n - 1)
<1> DEFINE rest == Tail(segments)
<1>1. /\ Len(segments) \in Nat /\ Len(segments) > 0
      /\ rest \in Seq(Seq(Sets)) /\ Len(rest) = Len(segments) - 1
      /\ \A i \in 1..Len(rest) : rest[i] = segments[i + 1]
  OBVIOUS
<1>2. PICK c \in [1..Len(segments) + 1 -> Nat] :
        /\ c[1] <= n
        /\ \A i \in 1..Len(segments) : c[i] >= c[i + 1] + 2 * Len(segments[i]) - 1
  BY DEF Affordable
<1> DEFINE d == [i \in 1..Len(rest) + 1 |-> c[i + 1]]
<1>3. d \in [1..Len(rest) + 1 -> Nat] /\ d[1] = c[1 + 1]
  BY <1>1, <1>2
<1>4. d[1] <= n - 1
  <2>1. 1 \in 1..Len(segments) /\ segments[1] \in Seq(Sets) /\ segments[1] # <<>>
    BY <1>1 DEF Affordable
  <2>2. Len(segments[1]) \in Nat /\ Len(segments[1]) > 0
    BY <2>1
  <2>3. c[1] >= c[1 + 1] + 2 * Len(segments[1]) - 1
    BY <1>2, <2>1
  <2>4. 1 \in 1..Len(segments) + 1 /\ 1 + 1 \in 1..Len(segments) + 1
    BY <1>1
  <2>5. c[1] \in Nat /\ c[1 + 1] \in Nat
    BY <1>2, <2>4
  <2> HIDE DEF d
  <2> QED
    BY <1>2, <1>3, <2>2, <2>3, <2>5
<1>5. ASSUME NEW i \in 1..Len(rest) PROVE d[i] >= d[i + 1] + 2 * Len(rest[i]) - 1
  <2>1. d[i] = c[i + 1] /\ d[i + 1] = c[(i + 1) + 1] /\ i + 1 \in 1..Len(segments)
    BY <1>1
  <2>2. rest[i] = segments[i + 1]
    BY <1>1
  <2> HIDE DEF d, rest
  <2> QED
    BY <1>2, <2>1, <2>2
<1>6. \A i \in 1..Len(rest) : rest[i] # <<>>
  BY <1>1 DEF Affordable
<1> HIDE DEF d, rest
<1>7. Affordable(rest, n - 1)
  BY <1>3, <1>4, <1>5, <1>6 DEF Affordable
<1> QED
  BY <1>7 DEF rest

(* One that is split took one, and its halves cost one less than it.        *)
LEMMA SplitAffordable ==
  ASSUME NEW segments \in Seq(Seq(Sets)), segments # <<>>, NEW n \in Nat,
         Affordable(segments, n), NEW a \in Seq(Sets), NEW b \in Seq(Sets),
         a # <<>>, b # <<>>, Len(a) + Len(b) = Len(Head(segments))
  PROVE  Affordable(<<a, b>> \o Tail(segments), n - 1)
<1> DEFINE rest == Tail(segments)
           split == <<a, b>> \o rest
<1>1. /\ Len(segments) \in Nat /\ Len(segments) > 0 /\ Head(segments) = segments[1]
      /\ rest \in Seq(Seq(Sets)) /\ Len(rest) = Len(segments) - 1
      /\ \A i \in 1..Len(rest) : rest[i] = segments[i + 1]
  OBVIOUS
<1>2. <<a, b>> \in Seq(Seq(Sets)) /\ Len(<<a, b>>) = 2 /\ <<a, b>>[1] = a /\ <<a, b>>[2] = b
  OBVIOUS
<1> HIDE DEF rest
<1>3. /\ Len(split) = Len(rest) + 2
      /\ split[1] = a /\ split[2] = b
      /\ \A i \in 3..Len(split) : split[i] = rest[i - 2]
  BY <1>1, <1>2
<1> HIDE DEF split
<1>4. /\ Len(split) = Len(segments) + 1
      /\ \A i \in 3..Len(split) : split[i] = segments[i - 1]
  <2> SUFFICES ASSUME NEW i \in 3..Len(split) PROVE split[i] = segments[i - 1]
    BY <1>1, <1>3
  <2>1. i - 2 \in 1..Len(rest) /\ (i - 2) + 1 = i - 1
    BY <1>1, <1>3
  <2> QED
    BY <1>1, <1>3, <2>1
<1>5. PICK c \in [1..Len(segments) + 1 -> Nat] :
        /\ c[1] <= n
        /\ \A i \in 1..Len(segments) : c[i] >= c[i + 1] + 2 * Len(segments[i]) - 1
  BY DEF Affordable
<1>6. /\ Len(a) \in Nat /\ Len(a) > 0 /\ Len(b) \in Nat /\ Len(b) > 0
      /\ Len(segments[1]) = Len(a) + Len(b)
  <2>1. Len(a) \in Nat /\ Len(a) > 0
    OBVIOUS
  <2>2. Len(b) \in Nat /\ Len(b) > 0
    OBVIOUS
  <2> QED
    BY <1>1, <2>1, <2>2
<1>7. /\ c[1] \in Nat /\ c[2] \in Nat
      /\ c[1] >= c[2] + 2 * (Len(a) + Len(b)) - 1
  <2>1. {1, 2} \subseteq 1..Len(segments) + 1 /\ 1 \in 1..Len(segments) /\ 1 + 1 = 2
    BY <1>1
  <2>2. c[1] \in Nat /\ c[2] \in Nat
    BY <1>5, <2>1
  <2>3. c[1] >= c[1 + 1] + 2 * Len(segments[1]) - 1
    BY <1>5, <2>1
  <2> QED
    BY <1>6, <2>1, <2>2, <2>3
<1> DEFINE d == [i \in 1..Len(split) + 1 |->
                   IF i = 1 THEN c[1] - 1
                   ELSE IF i = 2 THEN c[1] - 2 * Len(a) ELSE c[i - 1]]
<1>8. d \in [1..Len(split) + 1 -> Nat]
  <2> SUFFICES ASSUME NEW i \in 1..Len(split) + 1 PROVE d[i] \in Nat
    OBVIOUS
  <2>1. CASE i = 1
    BY <1>6, <1>7, <2>1
  <2>2. CASE i = 2
    BY <1>6, <1>7, <2>2
  <2>3. CASE i > 2
    <3>1. i - 1 \in 1..Len(segments) + 1
      BY <1>1, <1>4, <2>3
    <3>2. d[i] = c[i - 1]
      BY <2>3
    <3> QED
      BY <1>5, <3>1, <3>2
  <2> QED
    BY <1>1, <1>4, <2>1, <2>2, <2>3
<1>9. /\ d[1] = c[1] - 1 /\ d[2] = c[1] - 2 * Len(a)
       /\ \A i \in 3..Len(split) + 1 : d[i] = c[i - 1]
  BY <1>1, <1>4
<1> HIDE DEF d
<1>10. ASSUME NEW i \in 1..Len(split) PROVE d[i] >= d[i + 1] + 2 * Len(split[i]) - 1
  <2>1. CASE i = 1
    BY <1>3, <1>6, <1>7, <1>9, <2>1
  <2>2. CASE i = 2
    <3>1. 3 \in 3..Len(split) + 1 /\ 3 - 1 = 2 /\ i + 1 = 3
      BY <1>1, <1>4, <2>2
    <3>2. d[3] = c[2]
      BY <1>9, <3>1
    <3>3. d[i + 1] = c[2] /\ d[i] = c[1] - 2 * Len(a) /\ split[i] = b
      BY <1>3, <1>9, <2>2, <3>1, <3>2
    <3>4. c[1] - 2 * Len(a) >= c[2] + 2 * Len(b) - 1
      <4>1. \A x, y, k, m \in Nat : x >= y + 2 * (k + m) - 1 => x - 2 * k >= y + 2 * m - 1
        OBVIOUS
      <4>2. Len(a) \in Nat /\ Len(b) \in Nat
        BY <1>6
      <4> QED
        BY <1>7, <4>1, <4>2
    <3> QED
      BY <3>3, <3>4
  <2>3. CASE i > 2
    <3>1. /\ i - 1 \in 1..Len(segments) /\ (i - 1) + 1 = i
          /\ i \in 3..Len(split) /\ i + 1 \in 3..Len(split) + 1 /\ (i + 1) - 1 = i
      BY <1>1, <1>4, <2>3
    <3>2. d[i] = c[i - 1] /\ d[i + 1] = c[i] /\ split[i] = segments[i - 1]
      BY <1>4, <1>9, <3>1
    <3> QED
      BY <1>5, <3>1, <3>2
  <2> QED
    BY <1>1, <1>4, <2>1, <2>2, <2>3
<1>11. \A i \in 1..Len(split) : split[i] # <<>>
  <2> SUFFICES ASSUME NEW i \in 1..Len(split) PROVE split[i] # <<>>
    OBVIOUS
  <2>1. CASE i \in {1, 2}
    BY <1>3, <2>1
  <2>2. CASE i \in 3..Len(split)
    <3>1. i - 1 \in 1..Len(segments)
      BY <1>1, <1>4, <2>2
    <3> QED
      BY <1>4, <2>2, <3>1 DEF Affordable
  <2> QED
    BY <1>1, <1>4, <2>1, <2>2
<1>12. d[1] <= n - 1
  BY <1>5, <1>7, <1>9
<1>13. Affordable(split, n - 1)
  BY <1>8, <1>10, <1>11, <1>12 DEF Affordable
<1> QED
  BY <1>13 DEF split, rest

-----------------------------------------------------------------------------
(* The record of a run of the rotation.                                     *)

JobFields ==
  {"pc", "rows", "chunk", "segments", "budget", "probes", "got", "dead", "throttled"}

(* It has these fields,                                                     *)
Shaped(j) == DOMAIN j = JobFields /\ j = [x \in JobFields |-> j[x]]

(* of these types.                                                          *)
FieldsOK(j) ==
  /\ j.pc \in Rotation!Pcs /\ j.rows \in Seq(Sets) /\ j.chunk \in Seq(Sets)
  /\ j.segments \in Seq(Seq(Sets)) /\ j.budget \in Nat /\ j.probes \in Nat
  /\ j.got \subseteq Sets /\ j.dead \subseteq Sets /\ j.throttled \in 0..Threshold

LEMMA RecordIsShaped == \A j \in Rotation!RunRecord : Shaped(j) /\ FieldsOK(j)
BY DEF Rotation!RunRecord, Shaped, FieldsOK, JobFields

LEMMA ShapedIsRecord == \A j : Shaped(j) /\ FieldsOK(j) => j \in Rotation!RunRecord
BY DEF Rotation!RunRecord, Shaped, FieldsOK, JobFields

(* Every set of the batch is in a file, found dead, or in a segment still   *)
(* to be probed.                                                            *)
Covered(j) ==
  \A s \in Rotation!ToSet(j.chunk) :
    \/ s \in j.got \cup j.dead
    \/ \E i \in 1..Len(j.segments) : s \in Rotation!ToSet(j.segments[i])

(* What the stamps of a run rest on: nothing of the batch is lost sight of, *)
(* and no segment is given up while there are probes left.                  *)
Earns(j) ==
  /\ j.pc \in {"isolate", "write", "stamp"} => Covered(j)
  /\ j.pc \in {"write", "stamp"} => j.segments = <<>> \/ j.probes = 0

(* The probes suffice for the segments.                                     *)
Afforded(j) ==
  /\ j.pc = "isolate" => Affordable(j.segments, j.probes)
  /\ j.pc \in {"write", "stamp"} => j.segments = <<>>

(* c[k] is the k-th power of two.                                           *)
Doubling(c) ==
  /\ c \in [Nat -> Nat \ {0}]
  /\ c[0] = 1
  /\ \A k \in Nat : c[k + 1] = 2 * c[k]

(* The probes are too few to halve any segment down to a single set.        *)
Blind(j, c) ==
  /\ j.dead = {}
  /\ j.pc = "isolate" => \A i \in 1..Len(j.segments) : c[j.probes] <= Len(j.segments[i])

Short(j) == \A c : Doubling(c) /\ c[j.budget] <= Len(j.chunk) => Blind(j, c)

JobSound(j) ==
  /\ Shaped(j) /\ FieldsOK(j)
  /\ Len(j.chunk) <= BatchSize
  /\ j.pc = "isolate" => j.throttled < Threshold
  /\ j.pc = "batch" => j.dead = {} /\ j.segments = <<>>
  /\ Earns(j)
  /\ j.budget >= 2 * BatchSize - 1 => Afforded(j)
  /\ Short(j)

(* A run may yet strike the set for an outage.                              *)
Exposes(j, s) == j.pc = "isolate" /\ (s \in j.dead \/ outage)

Shelters(j, k) == \A s \in Sets \ Dead : Exposes(k, s) => Exposes(j, s)

RotationTypes ==
  /\ queue \in Rotation!Orders
  /\ failures \in [Sets -> Nat]
  /\ run \in [Runs -> Rotation!RunRecord]
  /\ outage \in BOOLEAN
  /\ faults \in 0..MaxFaults
  /\ outages \in 0..MaxOutages

RotationInv == RotationTypes /\ \A r \in Runs : JobSound(run[r])

(* A record between two batches.                                            *)
LEMMA BetweenBatches ==
  ASSUME BatchSize \in Nat,
         NEW j, Shaped(j), FieldsOK(j), j.pc \in {"idle", "batch"}, j.chunk = <<>>,
         j.segments = <<>>, j.dead = {}
  PROVE  JobSound(j) /\ \A k : Shelters(k, j)
<1>1. Short(j)
  BY DEF Short, Blind
<1> QED
  BY <1>1 DEF JobSound, Earns, Afforded, Shelters, Exposes

LEMMA IdleSound ==
  ASSUME Rotation!Tier3RotationAssumption
  PROVE  /\ Shaped(Rotation!Idle) /\ FieldsOK(Rotation!Idle)
         /\ JobSound(Rotation!Idle) /\ \A k : Shelters(k, Rotation!Idle)
<1> DEFINE j == Rotation!Idle
<1>1. /\ Shaped(j) /\ j.pc = "idle" /\ j.rows = <<>> /\ j.chunk = <<>> /\ j.segments = <<>>
      /\ j.budget = 0 /\ j.probes = 0 /\ j.got = {} /\ j.dead = {} /\ j.throttled = 0
  BY DEF Rotation!Idle, Shaped, JobFields
<1> HIDE DEF j
<1>2. <<>> \in Seq(Sets) /\ <<>> \in Seq(Seq(Sets))
  OBVIOUS
<1>3. 0 \in 0..Threshold
  BY RotationNumbers
<1>4. FieldsOK(j)
  BY <1>1, <1>2, <1>3 DEF FieldsOK, Rotation!Pcs
<1> QED
  BY <1>1, <1>4, BetweenBatches, RotationNumbers DEF j

(* On to the next batch.                                                    *)
LEMMA DroppedSound ==
  ASSUME Rotation!Tier3RotationAssumption, NEW j, Shaped(j), FieldsOK(j)
  PROVE  /\ JobSound(Rotation!Dropped(j)) /\ \A k : Shelters(k, Rotation!Dropped(j))
         /\ Rotation!Dropped(j).throttled = j.throttled
<1> DEFINE k == Rotation!Dropped(j)
<1>1. Shaped(k)
  BY DEF Rotation!Dropped, Shaped
<1>2. /\ k.pc = "batch" /\ k.rows = j.rows /\ k.chunk = <<>> /\ k.segments = <<>>
      /\ k.budget = j.budget /\ k.probes = 0 /\ k.got = {} /\ k.dead = {}
      /\ k.throttled = j.throttled
  BY DEF Rotation!Dropped, Shaped, JobFields
<1> HIDE DEF k
<1>3. <<>> \in Seq(Sets) /\ <<>> \in Seq(Seq(Sets))
  OBVIOUS
<1>4. FieldsOK(k)
  BY <1>2, <1>3 DEF FieldsOK, Rotation!Pcs
<1> QED
  BY <1>1, <1>2, <1>4, BetweenBatches, RotationNumbers DEF k

LEMMA ThrottledSound ==
  ASSUME Rotation!Tier3RotationAssumption, NEW j, Shaped(j), FieldsOK(j),
         j.throttled < Threshold
  PROVE  JobSound(Rotation!Throttled(j)) /\ \A k : Shelters(k, Rotation!Throttled(j))
<1> DEFINE i == Rotation!Dropped(j)
           n == i.throttled + 1
           k == [i EXCEPT !.throttled = n]
<1>1. Rotation!Throttled(j) = k
  BY DEF Rotation!Throttled
<1>2. JobSound(i) /\ i.throttled = j.throttled
  BY DroppedSound
<1>3. i.pc = "batch" /\ i.chunk = <<>> /\ i.segments = <<>> /\ i.dead = {}
  BY DEF Rotation!Dropped, Shaped, JobFields
<1>4. n \in 0..Threshold
  BY <1>2, RotationNumbers DEF FieldsOK
<1> HIDE DEF i, n
<1>5. Shaped(k)
  BY <1>2 DEF JobSound, Shaped
<1>6. /\ k.pc = i.pc /\ k.rows = i.rows /\ k.chunk = i.chunk /\ k.segments = i.segments
      /\ k.budget = i.budget /\ k.probes = i.probes /\ k.got = i.got /\ k.dead = i.dead
      /\ k.throttled = n
  BY <1>2 DEF JobSound, Shaped, JobFields
<1> HIDE DEF k
<1>7. FieldsOK(k)
  BY <1>2, <1>4, <1>6 DEF JobSound, FieldsOK
<1> QED
  BY <1>1, <1>3, <1>5, <1>6, <1>7, BetweenBatches, RotationNumbers

(* A run takes its next batch.                                              *)
LEMMA TakenFields ==
  ASSUME Rotation!Tier3RotationAssumption, NEW r, JobSound(run[r])
  PROVE  LET k == Rotation!Taken(r)
             j == run[r]
         IN /\ Shaped(k) /\ FieldsOK(k)
            /\ k.chunk = Rotation!Chunk(r) /\ k.pc = j.pc /\ k.segments = j.segments
            /\ k.budget = j.budget /\ k.probes = j.probes /\ k.got = j.got /\ k.dead = j.dead
            /\ k.throttled = j.throttled
            /\ Rotation!Chunk(r) \in Seq(Sets) /\ Len(Rotation!Chunk(r)) <= BatchSize
            /\ j.rows # <<>> => Rotation!Chunk(r) # <<>>
<1> DEFINE k == Rotation!Taken(r)
           j == run[r]
           chunk == Rotation!Chunk(r)
           rows == Rotation!Rest(j.rows, BatchSize)
<1>1. j.rows \in Seq(Sets) /\ BatchSize \in Nat /\ BatchSize > 0
  BY RotationNumbers DEF JobSound, FieldsOK
<1>2. chunk \in Seq(Sets) /\ Len(chunk) <= BatchSize /\ (j.rows # <<>> => chunk # <<>>)
  BY <1>1, FirstsProperties DEF Rotation!Chunk
<1>3. rows \in Seq(Sets)
  BY <1>1, RestTyped
<1>4. k = [j EXCEPT !.chunk = chunk, !.rows = rows]
  BY DEF Rotation!Taken
<1> HIDE DEF k, chunk, rows
<1>5. Shaped(k)
  BY <1>4 DEF JobSound, Shaped
<1>6. /\ k.chunk = chunk /\ k.rows = rows /\ k.pc = j.pc /\ k.segments = j.segments
      /\ k.budget = j.budget /\ k.probes = j.probes /\ k.got = j.got /\ k.dead = j.dead
      /\ k.throttled = j.throttled
  BY <1>4 DEF JobSound, Shaped, JobFields
<1>7. FieldsOK(k)
  BY <1>2, <1>3, <1>6 DEF JobSound, FieldsOK
<1> QED
  BY <1>2, <1>5, <1>6, <1>7 DEF k, chunk

(* One probe of the first segment.                                          *)
LEMMA ProbedFields ==
  ASSUME NEW r, JobSound(run[r]), Rotation!Probing(r)
  PROVE  LET k == Rotation!Probed(r)
             j == run[r]
         IN /\ Shaped(k) /\ FieldsOK(k)
            /\ k.segments = Tail(j.segments) /\ k.probes = j.probes - 1
            /\ k.pc = "isolate" /\ k.chunk = j.chunk /\ k.budget = j.budget
            /\ k.got = j.got /\ k.dead = j.dead /\ k.throttled = j.throttled
            /\ Rotation!Segment(r) \in Seq(Sets) /\ Rotation!Segment(r) = j.segments[1]
            /\ j.segments # <<>>
<1> DEFINE k == Rotation!Probed(r)
           j == run[r]
           n == j.probes - 1
           rest == Tail(j.segments)
<1>1. /\ j.segments \in Seq(Seq(Sets)) /\ j.segments # <<>>
      /\ j.probes \in Nat /\ j.probes > 0 /\ j.pc = "isolate"
  BY DEF JobSound, FieldsOK, Rotation!Probing
<1>2. Head(j.segments) = j.segments[1] /\ j.segments[1] \in Seq(Sets)
  BY <1>1
<1>3. rest \in Seq(Seq(Sets))
  BY <1>1
<1>4. n \in Nat
  BY <1>1
<1>5. k = [j EXCEPT !.probes = n, !.segments = rest]
  BY DEF Rotation!Probed
<1> HIDE DEF k, n, rest
<1>6. Shaped(k)
  BY <1>5 DEF JobSound, Shaped
<1>7. /\ k.segments = rest /\ k.probes = n /\ k.pc = j.pc /\ k.rows = j.rows
      /\ k.chunk = j.chunk /\ k.budget = j.budget /\ k.got = j.got /\ k.dead = j.dead
      /\ k.throttled = j.throttled
  BY <1>5 DEF JobSound, Shaped, JobFields
<1>8. FieldsOK(k)
  BY <1>3, <1>4, <1>7 DEF JobSound, FieldsOK
<1> QED
  BY <1>1, <1>2, <1>6, <1>7, <1>8 DEF k, n, rest, Rotation!Segment

-----------------------------------------------------------------------------
(* A step takes a run on to a sound record that strikes no set for an       *)
(* outage which the run would not have struck before.                       *)
Advances(r) == \E k : Rotation!Move(r, k) /\ JobSound(k) /\ Shelters(run[r], k)

LEMMA StartAdvances ==
  ASSUME Rotation!Tier3RotationAssumption, NEW r \in Runs, Rotation!Start(r)
  PROVE  Advances(r)
<1>1. PICK rows \in Rotation!RotationRows, b \in Budgets :
        Rotation!Move(r, [Rotation!Idle EXCEPT !.pc = "batch", !.rows = rows, !.budget = b])
  BY DEF Rotation!Start
<1> DEFINE j == Rotation!Idle
           k == [j EXCEPT !.pc = "batch", !.rows = rows, !.budget = b]
<1>2. Shaped(j) /\ FieldsOK(j) /\ j.chunk = <<>> /\ j.segments = <<>> /\ j.dead = {}
  BY IdleSound DEF Rotation!Idle
<1>3. rows \in Seq(Sets) /\ b \in Nat
  BY <1>1, RotationRowsTyped, RotationNumbers
<1>4. Rotation!Move(r, k)
  BY <1>1
<1> HIDE DEF j
<1>5. Shaped(k)
  BY <1>2 DEF Shaped
<1>6. /\ k.pc = "batch" /\ k.rows = rows /\ k.chunk = j.chunk /\ k.segments = j.segments
      /\ k.budget = b /\ k.probes = j.probes /\ k.got = j.got /\ k.dead = j.dead
      /\ k.throttled = j.throttled
  BY <1>2 DEF Shaped, JobFields
<1> HIDE DEF k
<1>7. FieldsOK(k)
  BY <1>2, <1>3, <1>6 DEF FieldsOK, Rotation!Pcs
<1> QED
  BY <1>2, <1>4, <1>5, <1>6, <1>7, BetweenBatches, RotationNumbers DEF Advances

LEMMA FetchedAdvances ==
  ASSUME Rotation!Tier3RotationAssumption, RotationInv, NEW r \in Runs, Rotation!Fetched(r)
  PROVE  Advances(r)
<1> DEFINE j == Rotation!Taken(r)
           chunk == Rotation!Chunk(r)
           got == Rotation!ToSet(chunk)
           k == [j EXCEPT !.pc = "write", !.got = got, !.throttled = 0]
<1>1. JobSound(run[r]) /\ Rotation!Move(r, k) /\ run[r].pc = "batch"
  BY DEF RotationInv, Rotation!Fetched, Rotation!MayRequest
<1>2. /\ Shaped(j) /\ FieldsOK(j) /\ j.chunk = chunk
      /\ j.segments = run[r].segments /\ j.dead = run[r].dead
      /\ chunk \in Seq(Sets) /\ Len(chunk) <= BatchSize
  BY <1>1, TakenFields
<1>3. got \subseteq Sets
  BY <1>2, SetsOfASequence
<1> HIDE DEF j, got
<1>4. Shaped(k)
  BY <1>2 DEF Shaped
<1>5. /\ k.pc = "write" /\ k.rows = j.rows /\ k.chunk = j.chunk /\ k.segments = j.segments
      /\ k.budget = j.budget /\ k.probes = j.probes /\ k.got = got /\ k.dead = j.dead
      /\ k.throttled = 0
  BY <1>2 DEF Shaped, JobFields
<1> HIDE DEF k, chunk
<1>6. FieldsOK(k)
  BY <1>2, <1>3, <1>5, RotationNumbers DEF FieldsOK, Rotation!Pcs
<1>7. Rotation!ToSet(k.chunk) \subseteq k.got
  BY <1>2, <1>5 DEF got
<1>8. k.segments = <<>> /\ k.dead = {}
  BY <1>1, <1>2, <1>5 DEF JobSound
<1>9. Covered(k)
  BY <1>7 DEF Covered
<1>10. Short(k)
  BY <1>5, <1>8 DEF Short, Blind
<1>11. JobSound(k) /\ Shelters(run[r], k)
  BY <1>2, <1>4, <1>5, <1>6, <1>8, <1>9, <1>10 DEF JobSound, Earns, Afforded, Shelters, Exposes
<1> QED
  BY <1>1, <1>11 DEF Advances

(* A batch that is isolated begins unharmed: there is no outage and nobody  *)
(* is found dead yet.                                                       *)
LEMMA RefusedAdvances ==
  ASSUME Rotation!Tier3RotationAssumption, RotationInv, NEW r \in Runs, Rotation!Refused(r)
  PROVE  Advances(r)
<1> DEFINE j == Rotation!Taken(r)
           chunk == Rotation!Chunk(r)
           n == run[r].budget
           segments == <<chunk>>
           k == [j EXCEPT !.pc = "isolate", !.segments = segments, !.probes = n]
<1>1. /\ JobSound(run[r]) /\ Rotation!Move(r, k) /\ ~outage
      /\ run[r].pc = "batch" /\ run[r].rows # <<>> /\ run[r].throttled < Threshold
  BY DEF RotationInv, Rotation!Refused, Rotation!MayRequest
<1>2. /\ Shaped(j) /\ FieldsOK(j) /\ j.chunk = chunk /\ j.dead = run[r].dead
      /\ j.budget = n /\ j.throttled = run[r].throttled
      /\ chunk \in Seq(Sets) /\ Len(chunk) <= BatchSize /\ chunk # <<>>
  BY <1>1, TakenFields
<1>3. j.dead = {} /\ n \in Nat
  BY <1>1, <1>2 DEF JobSound, FieldsOK
<1> HIDE DEF j, n, chunk
<1>4. segments \in Seq(Seq(Sets)) /\ Len(segments) = 1 /\ segments[1] = chunk
  BY <1>2
<1>5. n >= 2 * BatchSize - 1 => Affordable(segments, n)
  <2>1. Len(chunk) \in Nat /\ BatchSize \in Nat
    BY <1>2, RotationNumbers
  <2>2. n >= 2 * BatchSize - 1 => n >= 2 * Len(chunk) - 1
    BY <1>2, <1>3, <2>1
  <2> QED
    BY <1>2, <1>3, <2>2, OneAffordable
<1> HIDE DEF segments
<1>6. Shaped(k)
  BY <1>2 DEF Shaped
<1>7. /\ k.pc = "isolate" /\ k.rows = j.rows /\ k.chunk = chunk /\ k.segments = segments
      /\ k.budget = n /\ k.probes = n /\ k.got = j.got /\ k.dead = {}
      /\ k.throttled = run[r].throttled
  BY <1>2, <1>3 DEF Shaped, JobFields
<1> HIDE DEF k
<1>8. FieldsOK(k)
  BY <1>2, <1>3, <1>4, <1>7 DEF FieldsOK, Rotation!Pcs
<1>9. Covered(k)
  <2>1. Len(k.segments) = 1 /\ k.segments[1] = k.chunk
    BY <1>4, <1>7
  <2>2. 1 \in 1..1
    OBVIOUS
  <2> QED
    BY <2>1, <2>2 DEF Covered
<1>10. Short(k)
  <2> SUFFICES ASSUME NEW c, c[k.budget] <= Len(k.chunk) PROVE Blind(k, c)
    BY DEF Short
  <2>1. Len(k.segments) = 1 /\ k.segments[1] = chunk
    BY <1>4, <1>7
  <2>2. 1..1 = {1}
    OBVIOUS
  <2>3. \A i \in 1..Len(k.segments) : i = 1
    BY <2>1, <2>2
  <2>4. \A i \in 1..Len(k.segments) : c[k.probes] <= Len(k.segments[i])
    BY <1>7, <2>1, <2>3
  <2> QED
    BY <1>7, <2>4 DEF Blind
<1>11. JobSound(k) /\ Shelters(run[r], k)
  BY <1>1, <1>2, <1>5, <1>6, <1>7, <1>8, <1>9, <1>10
     DEF JobSound, Earns, Afforded, Shelters, Exposes
<1> QED
  BY <1>1, <1>11 DEF Advances

(* What a settled segment leaves to be covered.                             *)
LEMMA SettledCovers ==
  ASSUME NEW j, NEW k, Covered(j), j.segments \in Seq(Seq(Sets)), j.segments # <<>>,
         k.chunk = j.chunk, k.segments = Tail(j.segments),
         Rotation!ToSet(j.segments[1]) \cup j.got \cup j.dead \subseteq k.got \cup k.dead
  PROVE  Covered(k)
<1> SUFFICES ASSUME NEW s \in Rotation!ToSet(k.chunk), s \notin k.got \cup k.dead
             PROVE  \E i \in 1..Len(k.segments) : s \in Rotation!ToSet(k.segments[i])
  BY DEF Covered
<1>1. PICK i \in 1..Len(j.segments) : s \in Rotation!ToSet(j.segments[i])
  BY DEF Covered
<1>2. i # 1
  BY <1>1
<1>3. /\ Len(k.segments) = Len(j.segments) - 1 /\ Len(j.segments) \in Nat
      /\ \A m \in 1..Len(k.segments) : k.segments[m] = j.segments[m + 1]
  OBVIOUS
<1>4. i - 1 \in 1..Len(k.segments) /\ (i - 1) + 1 = i
  BY <1>1, <1>2, <1>3
<1>5. k.segments[i - 1] = j.segments[i]
  BY <1>3, <1>4
<1> QED
  BY <1>1, <1>4, <1>5

(* And a segment that was split.                                            *)
LEMMA SplitCovers ==
  ASSUME NEW j, NEW k, Covered(j), j.segments \in Seq(Seq(Sets)), j.segments # <<>>,
         NEW a \in Seq(Sets), NEW b \in Seq(Sets),
         Rotation!ToSet(j.segments[1]) = Rotation!ToSet(a) \cup Rotation!ToSet(b),
         k.chunk = j.chunk, k.segments = <<a, b>> \o Tail(j.segments),
         j.got \cup j.dead \subseteq k.got \cup k.dead
  PROVE  Covered(k)
<1> SUFFICES ASSUME NEW s \in Rotation!ToSet(k.chunk), s \notin k.got \cup k.dead
             PROVE  \E i \in 1..Len(k.segments) : s \in Rotation!ToSet(k.segments[i])
  BY DEF Covered
<1>1. PICK i \in 1..Len(j.segments) : s \in Rotation!ToSet(j.segments[i])
  BY DEF Covered
<1> DEFINE rest == Tail(j.segments)
<1>2. /\ rest \in Seq(Seq(Sets)) /\ Len(rest) = Len(j.segments) - 1 /\ Len(j.segments) \in Nat
      /\ Len(j.segments) > 0
      /\ \A m \in 1..Len(rest) : rest[m] = j.segments[m + 1]
  OBVIOUS
<1>3. <<a, b>> \in Seq(Seq(Sets)) /\ Len(<<a, b>>) = 2 /\ <<a, b>>[1] = a /\ <<a, b>>[2] = b
  OBVIOUS
<1>4. k.segments = <<a, b>> \o rest
  OBVIOUS
<1> HIDE DEF rest
<1>5. /\ Len(k.segments) = Len(rest) + 2
      /\ k.segments[1] = a /\ k.segments[2] = b
      /\ \A m \in 3..Len(k.segments) : k.segments[m] = rest[m - 2]
  BY <1>2, <1>3, <1>4
<1>6. CASE i = 1
  <2>1. s \in Rotation!ToSet(a) \/ s \in Rotation!ToSet(b)
    BY <1>1, <1>6
  <2>2. 1 \in 1..Len(k.segments) /\ 2 \in 1..Len(k.segments)
    BY <1>2, <1>5
  <2> QED
    BY <1>5, <2>1, <2>2
<1>7. CASE i # 1
  <2>1. /\ i + 1 \in 3..Len(k.segments) /\ i + 1 \in 1..Len(k.segments)
        /\ (i + 1) - 2 = i - 1 /\ i - 1 \in 1..Len(rest) /\ (i - 1) + 1 = i
    BY <1>2, <1>5, <1>7
  <2>2. k.segments[i + 1] = rest[i - 1] /\ rest[i - 1] = j.segments[i]
    BY <1>2, <1>5, <2>1
  <2> QED
    BY <1>1, <2>1, <2>2
<1> QED
  BY <1>6, <1>7

LEMMA HalvedPower ==
  ASSUME NEW c, Doubling(c), NEW n \in Nat, n > 0
  PROVE  /\ c[n] \in Nat /\ c[n - 1] \in Nat
         /\ c[n] = 2 * c[n - 1] /\ c[n] > 1 /\ c[n - 1] <= c[n]
<1>1. n - 1 \in Nat /\ (n - 1) + 1 = n
  OBVIOUS
<1>2. c[(n - 1) + 1] = 2 * c[n - 1] /\ c[n - 1] \in Nat \ {0} /\ c[n] \in Nat \ {0}
  BY <1>1 DEF Doubling
<1> QED
  BY <1>1, <1>2

(* A probe of a blind isolation leaves it blind: a segment served or split; *)
(* and none of its segments is a set alone.                                 *)
LEMMA TailBlind ==
  ASSUME NEW j, NEW k, NEW c, Doubling(c), Blind(j, c), j.pc = "isolate",
         j.segments \in Seq(Seq(Sets)), j.segments # <<>>, j.probes \in Nat, j.probes > 0,
         k.segments = Tail(j.segments), k.probes = j.probes - 1, k.dead = j.dead
  PROVE  Blind(k, c)
<1>1. c[j.probes - 1] <= c[j.probes]
  BY HalvedPower
<1>2. /\ Len(k.segments) = Len(j.segments) - 1 /\ Len(j.segments) \in Nat
      /\ \A m \in 1..Len(k.segments) : k.segments[m] = j.segments[m + 1]
  OBVIOUS
<1>3. ASSUME NEW m \in 1..Len(k.segments) PROVE c[k.probes] <= Len(k.segments[m])
  <2>1. m + 1 \in 1..Len(j.segments) /\ k.segments[m] = j.segments[m + 1]
    BY <1>2
  <2>2. c[j.probes] <= Len(j.segments[m + 1]) /\ Len(j.segments[m + 1]) \in Nat
    BY <2>1 DEF Blind
  <2>3. c[j.probes] \in Nat /\ c[j.probes - 1] \in Nat
    BY HalvedPower
  <2> QED
    BY <1>1, <2>1, <2>2, <2>3
<1> QED
  BY <1>3 DEF Blind

LEMMA LoneSegment ==
  ASSUME NEW j, NEW c, Doubling(c), j.pc = "isolate", Len(j.segments[1]) = 1,
         j.segments \in Seq(Seq(Sets)), j.segments # <<>>, j.probes \in Nat, j.probes > 0
  PROVE  ~Blind(j, c)
<1>1. 1 \in 1..Len(j.segments)
  OBVIOUS
<1>2. c[j.probes] \in Nat /\ c[j.probes] > 1
  BY HalvedPower
<1>3. ~(c[j.probes] <= 1)
  <2>1. \A x \in Nat : x > 1 => ~(x <= 1)
    OBVIOUS
  <2> QED
    BY <1>2, <2>1
<1>4. ~(c[j.probes] <= Len(j.segments[1]))
  BY <1>3
<1> QED
  BY <1>1, <1>4 DEF Blind

LEMMA SplitBlind ==
  ASSUME NEW j, NEW k, NEW c, Doubling(c), Blind(j, c), j.pc = "isolate",
         j.segments \in Seq(Seq(Sets)), j.segments # <<>>, j.probes \in Nat, j.probes > 0,
         NEW a \in Seq(Sets), NEW b \in Seq(Sets), Len(a) + Len(b) = Len(j.segments[1]),
         Len(a) <= Len(b), Len(b) <= Len(a) + 1,
         k.segments = <<a, b>> \o Tail(j.segments), k.probes = j.probes - 1, k.dead = j.dead
  PROVE  Blind(k, c)
<1> DEFINE rest == Tail(j.segments)
<1>1. /\ rest \in Seq(Seq(Sets)) /\ Len(rest) = Len(j.segments) - 1 /\ Len(j.segments) \in Nat
      /\ Len(j.segments) > 0
      /\ \A m \in 1..Len(rest) : rest[m] = j.segments[m + 1]
  OBVIOUS
<1>2. <<a, b>> \in Seq(Seq(Sets)) /\ Len(<<a, b>>) = 2 /\ <<a, b>>[1] = a /\ <<a, b>>[2] = b
  OBVIOUS
<1>3. k.segments = <<a, b>> \o rest
  OBVIOUS
<1> HIDE DEF rest
<1>4. /\ Len(k.segments) = Len(rest) + 2
      /\ k.segments[1] = a /\ k.segments[2] = b
      /\ \A m \in 3..Len(k.segments) : k.segments[m] = rest[m - 2]
  BY <1>1, <1>2, <1>3
<1>5. /\ c[j.probes] \in Nat /\ c[j.probes - 1] \in Nat
      /\ c[j.probes] = 2 * c[j.probes - 1]
  BY HalvedPower
<1>6. ASSUME NEW i \in 1..Len(j.segments)
      PROVE  c[j.probes] <= Len(j.segments[i]) /\ Len(j.segments[i]) \in Nat
  <2>1. c[j.probes] <= Len(j.segments[i])
    BY Zenon DEF Blind
  <2>2. j.segments[i] \in Seq(Sets)
    OBVIOUS
  <2> QED
    BY <2>1, <2>2
<1>7. c[j.probes - 1] <= Len(a) /\ c[j.probes - 1] <= Len(b)
  <2>1. c[j.probes] <= Len(j.segments[1])
    BY <1>1, <1>6
  <2>2. Len(a) \in Nat /\ Len(b) \in Nat
    OBVIOUS
  <2>3. \A x, y, u, v \in Nat :
           x = 2 * y /\ x <= u + v /\ u <= v /\ v <= u + 1 => y <= u /\ y <= v
    OBVIOUS
  <2>4. c[j.probes] <= Len(a) + Len(b)
    BY <2>1
  <2> QED
    BY <1>5, <2>2, <2>3, <2>4
<1>8. ASSUME NEW m \in 1..Len(k.segments) PROVE c[k.probes] <= Len(k.segments[m])
  <2>1. CASE m = 1
    BY <1>4, <1>7, <2>1
  <2>2. CASE m = 2
    BY <1>4, <1>7, <2>2
  <2>3. CASE m # 1 /\ m # 2
    <3>1. /\ m \in 3..Len(k.segments) /\ m - 2 \in 1..Len(rest) /\ (m - 2) + 1 = m - 1
          /\ m - 1 \in 1..Len(j.segments)
      BY <1>1, <1>4, <2>3
    <3>2. k.segments[m] = j.segments[m - 1]
      BY <1>1, <1>4, <3>1
    <3>3. c[j.probes] <= Len(j.segments[m - 1]) /\ Len(j.segments[m - 1]) \in Nat
      BY <1>6, <3>1
    <3>4. \A x, y, u \in Nat : x = 2 * y /\ x <= u => y <= u
      OBVIOUS
    <3>5. c[j.probes - 1] <= Len(j.segments[m - 1])
      BY <1>5, <3>3, <3>4
    <3> QED
      BY <3>2, <3>5
  <2> QED
    BY <2>1, <2>2, <2>3
<1> QED
  BY <1>8 DEF Blind

LEMMA SegmentServedAdvances ==
  ASSUME RotationInv, NEW r \in Runs, Rotation!SegmentServed(r)
  PROVE  Advances(r)
<1> DEFINE j == Rotation!Probed(r)
           found == Rotation!ToSet(Rotation!Segment(r))
           got == j.got \cup found
           k == [j EXCEPT !.got = got]
<1>1. JobSound(run[r]) /\ Rotation!Probing(r) /\ Rotation!Move(r, k)
  BY DEF RotationInv, Rotation!SegmentServed
<1>2. /\ Shaped(j) /\ FieldsOK(j) /\ j.pc = "isolate" /\ run[r].pc = "isolate"
      /\ j.segments = Tail(run[r].segments) /\ j.probes = run[r].probes - 1
      /\ j.chunk = run[r].chunk /\ j.budget = run[r].budget /\ j.got = run[r].got
      /\ j.dead = run[r].dead /\ j.throttled = run[r].throttled
      /\ Rotation!Segment(r) \in Seq(Sets) /\ Rotation!Segment(r) = run[r].segments[1]
      /\ run[r].segments # <<>>
  BY <1>1, ProbedFields DEF Rotation!Probing
<1>3. got \subseteq Sets
  BY <1>2, SetsOfASequence DEF FieldsOK
<1> HIDE DEF j
<1>4. Shaped(k)
  BY <1>2 DEF Shaped
<1>5. /\ k.pc = j.pc /\ k.rows = j.rows /\ k.chunk = j.chunk /\ k.segments = j.segments
      /\ k.budget = j.budget /\ k.probes = j.probes /\ k.got = got /\ k.dead = j.dead
      /\ k.throttled = j.throttled
  BY <1>2 DEF Shaped, JobFields
<1>6. got = run[r].got \cup Rotation!ToSet(run[r].segments[1])
  BY <1>2
<1> HIDE DEF k, got
<1>7. FieldsOK(k)
  BY <1>2, <1>3, <1>5 DEF FieldsOK
<1>a. /\ Covered(run[r]) /\ Short(run[r])
      /\ run[r].segments \in Seq(Seq(Sets)) /\ run[r].probes \in Nat /\ run[r].probes > 0
  BY <1>1, <1>2 DEF JobSound, Earns, FieldsOK, Rotation!Probing
<1>b. Covered(k)
  BY <1>2, <1>5, <1>6, <1>a, SettledCovers
<1>c. Short(k)
  BY <1>2, <1>5, <1>a, TailBlind DEF Short
<1>8. ASSUME run[r].budget >= 2 * BatchSize - 1 PROVE Affordable(k.segments, k.probes)
  <2>1. Affordable(run[r].segments, run[r].probes)
    BY <1>1, <1>2, <1>8 DEF JobSound, Afforded
  <2> QED
    BY <1>2, <1>5, <1>a, <2>1, TailAffordable
<1>9. JobSound(k)
  BY <1>1, <1>2, <1>4, <1>5, <1>7, <1>8, <1>b, <1>c DEF JobSound, Earns, Afforded
<1>10. Shelters(run[r], k)
  BY <1>2, <1>5 DEF Shelters, Exposes
<1> QED
  BY <1>1, <1>9, <1>10 DEF Advances

(* A set found dead alone is dead, or there is an outage.                   *)
LEMMA AloneFailsAdvances ==
  ASSUME RotationInv, NEW r \in Runs, Rotation!SegmentFails(r), Len(Rotation!Segment(r)) = 1
  PROVE  Advances(r)
<1> DEFINE j == Rotation!Probed(r)
           found == Rotation!ToSet(Rotation!Segment(r))
           dead == j.dead \cup found
           k == [j EXCEPT !.dead = dead]
<1>1. /\ JobSound(run[r]) /\ Rotation!Probing(r) /\ Rotation!Move(r, k)
      /\ outage \/ found \cap Dead # {}
  BY DEF RotationInv, Rotation!SegmentFails, Rotation!Healthy
<1>2. /\ Shaped(j) /\ FieldsOK(j) /\ j.pc = "isolate" /\ run[r].pc = "isolate"
      /\ j.segments = Tail(run[r].segments) /\ j.probes = run[r].probes - 1
      /\ j.chunk = run[r].chunk /\ j.budget = run[r].budget /\ j.got = run[r].got
      /\ j.dead = run[r].dead /\ j.throttled = run[r].throttled
      /\ Rotation!Segment(r) \in Seq(Sets) /\ Rotation!Segment(r) = run[r].segments[1]
      /\ run[r].segments # <<>>
  BY <1>1, ProbedFields DEF Rotation!Probing
<1>3. dead \subseteq Sets
  BY <1>2, SetsOfASequence DEF FieldsOK
<1>4. found = {Rotation!Segment(r)[1]}
  BY <1>2 DEF Rotation!ToSet
<1> HIDE DEF j
<1>5. Shaped(k)
  BY <1>2 DEF Shaped
<1>6. /\ k.pc = j.pc /\ k.rows = j.rows /\ k.chunk = j.chunk /\ k.segments = j.segments
      /\ k.budget = j.budget /\ k.probes = j.probes /\ k.got = j.got /\ k.dead = dead
      /\ k.throttled = j.throttled
  BY <1>2 DEF Shaped, JobFields
<1>7. dead = run[r].dead \cup Rotation!ToSet(run[r].segments[1]) /\ dead = run[r].dead \cup found
  BY <1>2
<1> HIDE DEF k, dead, found
<1>8. FieldsOK(k)
  BY <1>2, <1>3, <1>6 DEF FieldsOK
<1>a. /\ Covered(run[r]) /\ Short(run[r])
      /\ run[r].segments \in Seq(Seq(Sets)) /\ run[r].probes \in Nat /\ run[r].probes > 0
  BY <1>1, <1>2 DEF JobSound, Earns, FieldsOK, Rotation!Probing
<1>b. Covered(k)
  BY <1>2, <1>6, <1>7, <1>a, SettledCovers
<1>c. Short(k)
  <2>1. Len(run[r].segments[1]) = 1
    BY <1>2
  <2>2. \A c : Doubling(c) => ~Blind(run[r], c)
    BY <1>2, <1>a, <2>1, LoneSegment
  <2> QED
    BY <1>2, <1>6, <1>a, <2>2 DEF Short
<1>9. ASSUME run[r].budget >= 2 * BatchSize - 1 PROVE Affordable(k.segments, k.probes)
  <2>1. Affordable(run[r].segments, run[r].probes)
    BY <1>1, <1>2, <1>9 DEF JobSound, Afforded
  <2> QED
    BY <1>2, <1>6, <1>a, <2>1, TailAffordable
<1>10. JobSound(k)
  BY <1>1, <1>2, <1>5, <1>6, <1>8, <1>9, <1>b, <1>c DEF JobSound, Earns, Afforded
<1>11. Shelters(run[r], k)
  BY <1>1, <1>2, <1>4, <1>6, <1>7 DEF Shelters, Exposes
<1> QED
  BY <1>1, <1>10, <1>11 DEF Advances

LEMMA SegmentSplitAdvances ==
  ASSUME RotationInv, NEW r \in Runs, Rotation!SegmentFails(r), Len(Rotation!Segment(r)) # 1
  PROVE  Advances(r)
<1> DEFINE j == Rotation!Probed(r)
           q == Rotation!Segment(r)
           segments == Rotation!Halves(q) \o j.segments
           k == [j EXCEPT !.segments = segments]
<1>1. JobSound(run[r]) /\ Rotation!Probing(r) /\ Rotation!Move(r, k)
  BY DEF RotationInv, Rotation!SegmentFails
<1>2. /\ Shaped(j) /\ FieldsOK(j) /\ j.pc = "isolate" /\ run[r].pc = "isolate"
      /\ j.segments = Tail(run[r].segments) /\ j.probes = run[r].probes - 1
      /\ j.chunk = run[r].chunk /\ j.budget = run[r].budget /\ j.got = run[r].got
      /\ j.dead = run[r].dead /\ j.throttled = run[r].throttled
      /\ q \in Seq(Sets) /\ q = run[r].segments[1]
      /\ run[r].segments # <<>>
  BY <1>1, ProbedFields DEF Rotation!Probing
<1> HIDE DEF j, q
<1>3. segments \in Seq(Seq(Sets))
  <2>1. Rotation!Halves(q) \in Seq(Seq(Sets))
    BY <1>2, HalvesTyped
  <2>2. j.segments \in Seq(Seq(Sets))
    BY <1>2 DEF FieldsOK
  <2> QED
    BY <2>1, <2>2
<1>4. segments = Rotation!Halves(q) \o Tail(run[r].segments)
  BY <1>2
<1> HIDE DEF segments
<1>5. Shaped(k)
  BY <1>2 DEF Shaped
<1>6. /\ k.pc = j.pc /\ k.rows = j.rows /\ k.chunk = j.chunk /\ k.segments = segments
      /\ k.budget = j.budget /\ k.probes = j.probes /\ k.got = j.got /\ k.dead = j.dead
      /\ k.throttled = j.throttled
  BY <1>2 DEF Shaped, JobFields
<1> HIDE DEF k
<1>7. FieldsOK(k)
  BY <1>2, <1>3, <1>6 DEF FieldsOK
<1>a. /\ Covered(run[r]) /\ Short(run[r])
      /\ run[r].segments \in Seq(Seq(Sets)) /\ run[r].probes \in Nat /\ run[r].probes > 0
  BY <1>1, <1>2 DEF JobSound, Earns, FieldsOK, Rotation!Probing
<1>b. PICK a, b \in Seq(Sets) :
        /\ Rotation!Halves(q) = <<a, b>>
        /\ Len(a) + Len(b) = Len(q)
        /\ Len(a) <= Len(b) /\ Len(b) <= Len(a) + 1
        /\ Rotation!ToSet(q) = Rotation!ToSet(a) \cup Rotation!ToSet(b)
  BY <1>2, HalvesProperties
<1>c. k.segments = <<a, b>> \o Tail(run[r].segments)
  BY <1>4, <1>6, <1>b
<1>d. Len(a) + Len(b) = Len(Head(run[r].segments)) /\ Len(a) + Len(b) = Len(run[r].segments[1])
  BY <1>2, <1>a, <1>b
<1>e. Covered(k)
  BY <1>2, <1>6, <1>a, <1>b, <1>c, SplitCovers
<1>f. Short(k)
  BY <1>2, <1>6, <1>a, <1>b, <1>c, <1>d, SplitBlind DEF Short
<1>8. ASSUME run[r].budget >= 2 * BatchSize - 1 PROVE Affordable(k.segments, k.probes)
  <2>1. Affordable(run[r].segments, run[r].probes)
    BY <1>1, <1>2, <1>8 DEF JobSound, Afforded
  <2>2. Len(q) > 1
    <3>1. 1 \in 1..Len(run[r].segments)
      BY <1>2, <1>a
    <3>2. q # <<>>
      BY <1>2, <2>1, <3>1 DEF Affordable
    <3>3. Len(q) # 1
      BY DEF q
    <3>4. Len(q) \in Nat /\ Len(q) # 0
      BY <1>2, <3>2
    <3>5. \A n \in Nat : n # 0 /\ n # 1 => n > 1
      OBVIOUS
    <3> QED
      BY <3>3, <3>4, <3>5
  <2>3. Len(a) > 0 /\ Len(b) > 0
    BY <1>b, <2>2
  <2>4. a # <<>> /\ b # <<>>
    BY <2>3
  <2> QED
    BY <1>2, <1>6, <1>a, <1>c, <1>d, <2>1, <2>4, SplitAffordable
<1>9. JobSound(k)
  BY <1>1, <1>2, <1>5, <1>6, <1>7, <1>8, <1>e, <1>f DEF JobSound, Earns, Afforded
<1>10. Shelters(run[r], k)
  BY <1>2, <1>6 DEF Shelters, Exposes
<1> QED
  BY <1>1, <1>9, <1>10 DEF Advances

(* An isolation that ran out of segments, or of probes, goes on to write    *)
(* with the segments it has not probed.                                     *)
LEMMA IsolationEndsAdvances ==
  ASSUME Rotation!Tier3RotationAssumption, RotationInv, NEW r \in Runs,
         Rotation!IsolationEnds(r)
  PROVE  Advances(r)
<1> DEFINE j == run[r]
           k == [j EXCEPT !.pc = "write", !.throttled = 0]
<1>1. JobSound(j) /\ Shaped(j) /\ FieldsOK(j) /\ Rotation!Isolated(r)
  BY DEF RotationInv, JobSound, Rotation!IsolationEnds
<1>2. CASE j.got = {}
  BY <1>1, <1>2, DroppedSound DEF Rotation!IsolationEnds, Advances
<1>3. CASE j.got # {}
  <2>1. Rotation!Move(r, k)
    BY <1>3 DEF Rotation!IsolationEnds
  <2>2. Shaped(k)
    BY <1>1 DEF Shaped
  <2>3. /\ k.pc = "write" /\ k.rows = j.rows /\ k.chunk = j.chunk /\ k.segments = j.segments
        /\ k.budget = j.budget /\ k.probes = j.probes /\ k.got = j.got /\ k.dead = j.dead
        /\ k.throttled = 0
    BY <1>1 DEF Shaped, JobFields
  <2> HIDE DEF k
  <2>4. FieldsOK(k)
    BY <1>1, <2>3, RotationNumbers DEF FieldsOK, Rotation!Pcs
  <2>5. /\ j.pc = "isolate" /\ j.segments \in Seq(Seq(Sets))
        /\ j.segments = <<>> \/ j.probes = 0
    BY <1>1 DEF FieldsOK, Rotation!Isolated
  <2>6. Earns(k)
    BY <1>1, <2>3, <2>5 DEF JobSound, Earns, Covered
  <2>7. ASSUME j.budget >= 2 * BatchSize - 1 PROVE Afforded(k)
    <3>1. Affordable(j.segments, j.probes)
      BY <1>1, <2>5, <2>7 DEF JobSound, Afforded
    <3>2. j.segments = <<>>
      BY <2>5, <3>1, NothingToAfford
    <3> QED
      BY <2>3, <3>2 DEF Afforded
  <2>8. Short(k)
    BY <1>1, <2>3 DEF JobSound, Short, Blind
  <2>9. JobSound(k)
    BY <1>1, <2>2, <2>3, <2>4, <2>6, <2>7, <2>8 DEF JobSound
  <2>10. Shelters(j, k)
    BY <2>3 DEF Shelters, Exposes
  <2> QED
    BY <2>1, <2>9, <2>10 DEF Advances
<1> QED
  BY <1>2, <1>3

LEMMA WriteAdvances ==
  ASSUME RotationInv, NEW r \in Runs, Rotation!Write(r)
  PROVE  Advances(r)
<1> DEFINE j == run[r]
           k == [j EXCEPT !.pc = "stamp"]
<1>1. JobSound(j) /\ Shaped(j) /\ FieldsOK(j) /\ j.pc = "write" /\ Rotation!Move(r, k)
  BY DEF RotationInv, JobSound, Rotation!Write
<1>2. Shaped(k)
  BY <1>1 DEF Shaped
<1>3. /\ k.pc = "stamp" /\ k.rows = j.rows /\ k.chunk = j.chunk /\ k.segments = j.segments
      /\ k.budget = j.budget /\ k.probes = j.probes /\ k.got = j.got /\ k.dead = j.dead
      /\ k.throttled = j.throttled
  BY <1>1 DEF Shaped, JobFields
<1> HIDE DEF k
<1>4. FieldsOK(k)
  BY <1>1, <1>3 DEF FieldsOK, Rotation!Pcs
<1>5. Earns(k) /\ Short(k) /\ (j.budget >= 2 * BatchSize - 1 => Afforded(k))
  BY <1>1, <1>3 DEF JobSound, Earns, Covered, Afforded, Short, Blind
<1>6. JobSound(k) /\ Shelters(j, k)
  BY <1>1, <1>2, <1>3, <1>4, <1>5 DEF JobSound, Shelters, Exposes
<1> QED
  BY <1>1, <1>6 DEF Advances

(* A run that drops its batch, ends or dies.                                *)
LEMMA DropAdvances ==
  ASSUME Rotation!Tier3RotationAssumption, RotationInv, NEW r \in Runs,
         \/ Rotation!Move(r, Rotation!Idle)
         \/ Rotation!Move(r, Rotation!Dropped(run[r]))
         \/ Rotation!Move(r, Rotation!Dropped(Rotation!Taken(r)))
  PROVE  Advances(r)
<1>1. JobSound(run[r]) /\ Shaped(run[r]) /\ FieldsOK(run[r])
  BY DEF RotationInv, JobSound
<1>2. Shaped(Rotation!Taken(r)) /\ FieldsOK(Rotation!Taken(r))
  BY <1>1, TakenFields
<1> QED
  BY <1>1, <1>2, IdleSound, DroppedSound DEF Advances

LEMMA ThrottleAdvances ==
  ASSUME Rotation!Tier3RotationAssumption, RotationInv, NEW r \in Runs,
         Rotation!FetchThrottled(r) \/ Rotation!IsolationThrottled(r)
  PROVE  Advances(r)
<1>1. JobSound(run[r]) /\ Shaped(run[r]) /\ FieldsOK(run[r])
  BY DEF RotationInv, JobSound
<1>2. CASE Rotation!FetchThrottled(r)
  <2> DEFINE j == Rotation!Taken(r)
  <2>1. /\ Shaped(j) /\ FieldsOK(j) /\ j.throttled < Threshold
        /\ Rotation!Move(r, Rotation!Throttled(j))
    BY <1>1, <1>2, TakenFields DEF Rotation!FetchThrottled, Rotation!MayRequest
  <2> HIDE DEF j
  <2> QED
    BY <2>1, ThrottledSound DEF Advances
<1>3. CASE Rotation!IsolationThrottled(r)
  <2>1. run[r].throttled < Threshold /\ Rotation!Move(r, Rotation!Throttled(run[r]))
    BY <1>1, <1>3 DEF Rotation!IsolationThrottled, Rotation!Probing, JobSound
  <2> QED
    BY <1>1, <2>1, ThrottledSound DEF Advances
<1> QED
  BY <1>2, <1>3

-----------------------------------------------------------------------------
(* A step of a run, on the registry: a set gets a strike from a run that    *)
(* found it dead and ends its isolation with the step.                      *)
Strikes(r, s) ==
  /\ failures'[s] = failures[s] + 1
  /\ run[r].pc = "isolate" /\ s \in run[r].dead
  /\ run'[r].pc # "isolate"

RegistryStep(r) ==
  /\ queue' \in Rotation!Orders
  /\ failures' \in [Sets -> Nat]
  /\ \A s \in Sets : failures'[s] <= failures[s] \/ Strikes(r, s)

LEMMA RegistryUntouched ==
  ASSUME RotationInv, NEW r \in Runs, UNCHANGED Rotation!registry
  PROVE  RegistryStep(r)
BY DEF RotationInv, RotationTypes, Rotation!registry, RegistryStep

LEMMA StampedOnes ==
  ASSUME RotationInv, NEW r \in Runs, NEW batch, queue' \in Rotation!Stamped(batch),
         failures' = [s \in Sets |-> IF s \in batch THEN 0 ELSE failures[s]]
  PROVE  RegistryStep(r)
<1>1. queue' \in Rotation!Orders
  BY DEF Rotation!Stamped, Rotation!InOrder
<1>2. failures \in [Sets -> Nat]
  BY DEF RotationInv, RotationTypes
<1>3. failures' \in [Sets -> Nat] /\ \A s \in Sets : failures'[s] <= failures[s]
  BY <1>2
<1> QED
  BY <1>1, <1>3 DEF RegistryStep

LEMMA StruckOnes ==
  ASSUME RotationInv, NEW r \in Runs, Rotation!Isolated(r), run'[r].pc # "isolate",
         queue' = queue, failures' = Rotation!Struck(r)
  PROVE  RegistryStep(r)
<1>1. queue' \in Rotation!Orders /\ failures \in [Sets -> Nat]
  BY DEF RotationInv, RotationTypes
<1>2. run[r].pc = "isolate"
  BY DEF Rotation!Isolated
<1>3. failures' = [s \in Sets |-> IF s \in run[r].dead THEN failures[s] + 1 ELSE failures[s]]
  BY DEF Rotation!Struck
<1>4. failures' \in [Sets -> Nat]
  BY <1>1, <1>3
<1>5. \A s \in Sets : IF s \in run[r].dead THEN failures'[s] = failures[s] + 1
                      ELSE failures'[s] <= failures[s]
  BY <1>1, <1>3
<1> QED
  BY <1>1, <1>2, <1>4, <1>5 DEF RegistryStep, Strikes

LEMMA MovedRun ==
  ASSUME RotationInv, NEW r \in Runs, NEW k, Rotation!Move(r, k)
  PROVE  run' = [q \in Runs |-> IF q = r THEN k ELSE run[q]]
BY DEF RotationInv, RotationTypes, Rotation!Move

LEMMA IsolationLeft ==
  ASSUME RotationInv, NEW r \in Runs, Rotation!IsolationEnds(r)
  PROVE  run'[r].pc # "isolate"
<1> DEFINE j == run[r]
           h == Rotation!Dropped(j)
           k == [j EXCEPT !.pc = "write", !.throttled = 0]
<1>1. Shaped(j)
  BY DEF RotationInv, JobSound
<1>2. h.pc = "batch" /\ k.pc = "write"
  BY <1>1 DEF Rotation!Dropped, Shaped, JobFields
<1>3. Rotation!Move(r, h) \/ Rotation!Move(r, k)
  BY DEF Rotation!IsolationEnds
<1> HIDE DEF h, k
<1>4. run'[r] = h \/ run'[r] = k
  BY <1>3, MovedRun
<1> QED
  BY <1>2, <1>4

(* What every step of a run does.                                           *)
RunSteps(r) == Advances(r) /\ RegistryStep(r) /\ UNCHANGED <<outage, outages>> /\ faults' \in 0..MaxFaults

LEMMA FaultBounded ==
  ASSUME Rotation!Tier3RotationAssumption, RotationInv, Rotation!Fault
  PROVE  UNCHANGED <<outage, outages>> /\ faults' \in 0..MaxFaults
BY RotationNumbers DEF RotationInv, RotationTypes, Rotation!Fault

LEMMA WorldKept ==
  ASSUME RotationInv, UNCHANGED Rotation!world
  PROVE  UNCHANGED <<outage, outages>> /\ faults' \in 0..MaxFaults
BY DEF RotationInv, RotationTypes, Rotation!world

LEMMA DiesSteps ==
  ASSUME Rotation!Tier3RotationAssumption, RotationInv, NEW r \in Runs, Rotation!Dies(r)
  PROVE  RunSteps(r)
<1>1. Rotation!Move(r, Rotation!Idle) /\ Rotation!Fault
  BY DEF Rotation!Dies
<1>2. run'[r].pc # "isolate"
  BY <1>1, MovedRun DEF Rotation!Idle
<1>3. CASE UNCHANGED Rotation!registry
  BY <1>1, <1>3, DropAdvances, RegistryUntouched, FaultBounded DEF RunSteps
<1>4. CASE Rotation!Isolated(r) /\ failures' = Rotation!Struck(r) /\ UNCHANGED queue
  BY <1>1, <1>2, <1>4, DropAdvances, StruckOnes, FaultBounded DEF RunSteps
<1>5. CASE /\ queue' \in Rotation!Stamped(Rotation!Live(r))
           /\ failures' = [s \in Sets |-> IF s \in Rotation!Live(r) THEN 0 ELSE failures[s]]
  BY <1>1, <1>5, DropAdvances, StampedOnes, FaultBounded DEF RunSteps
<1> QED
  BY <1>3, <1>4, <1>5 DEF Rotation!Dies

LEMMA JobSteps ==
  ASSUME Rotation!Tier3RotationAssumption, RotationInv, NEW r \in Runs,
         \/ Rotation!Start(r) \/ Rotation!Step(r)
         \/ Rotation!FetchThrottled(r) \/ Rotation!IsolationThrottled(r)
         \/ Rotation!WriteRefused(r) \/ Rotation!Dies(r)
  PROVE  RunSteps(r)
<1>1. CASE Rotation!Start(r)
  BY <1>1, StartAdvances, RegistryUntouched, WorldKept DEF RunSteps, Rotation!Start
<1>2. CASE Rotation!Fetched(r)
  BY <1>2, FetchedAdvances, RegistryUntouched, WorldKept DEF RunSteps, Rotation!Fetched
<1>3. CASE Rotation!Refused(r)
  BY <1>3, RefusedAdvances, RegistryUntouched, WorldKept DEF RunSteps, Rotation!Refused
<1>4. CASE Rotation!OutageMet(r)
  BY <1>4, DropAdvances, RegistryUntouched, WorldKept DEF RunSteps, Rotation!OutageMet
<1>5. CASE Rotation!Ends(r)
  BY <1>5, DropAdvances, RegistryUntouched, WorldKept DEF RunSteps, Rotation!Ends
<1>6. CASE Rotation!SegmentServed(r)
  BY <1>6, SegmentServedAdvances, RegistryUntouched, WorldKept
     DEF RunSteps, Rotation!SegmentServed
<1>7. CASE Rotation!SegmentFails(r)
  <2>1. Advances(r)
    BY <1>7, AloneFailsAdvances, SegmentSplitAdvances
  <2> QED
    BY <1>7, <2>1, RegistryUntouched, WorldKept DEF RunSteps, Rotation!SegmentFails
<1>8. CASE Rotation!IsolationEnds(r)
  <2>1. RegistryStep(r)
    BY <1>8, IsolationLeft, StruckOnes DEF Rotation!IsolationEnds
  <2> QED
    BY <1>8, <2>1, IsolationEndsAdvances, WorldKept DEF RunSteps, Rotation!IsolationEnds
<1>9. CASE Rotation!Write(r)
  BY <1>9, WriteAdvances, RegistryUntouched, WorldKept DEF RunSteps, Rotation!Write
<1>10. CASE Rotation!Stamp(r)
  BY <1>10, DropAdvances, StampedOnes, WorldKept DEF RunSteps, Rotation!Stamp
<1>11. CASE Rotation!FetchThrottled(r)
  BY <1>11, ThrottleAdvances, RegistryUntouched, FaultBounded
     DEF RunSteps, Rotation!FetchThrottled
<1>12. CASE Rotation!IsolationThrottled(r)
  BY <1>12, ThrottleAdvances, RegistryUntouched, FaultBounded
     DEF RunSteps, Rotation!IsolationThrottled
<1>13. CASE Rotation!WriteRefused(r)
  BY <1>13, DropAdvances, RegistryUntouched, FaultBounded DEF RunSteps, Rotation!WriteRefused
<1>14. CASE Rotation!Dies(r)
  BY <1>14, DiesSteps
<1> QED
  BY <1>1, <1>2, <1>3, <1>4, <1>5, <1>6, <1>7, <1>8, <1>9, <1>10, <1>11, <1>12, <1>13, <1>14
     DEF Rotation!Step, Rotation!Request

LEMMA RotationInit ==
  ASSUME Rotation!Tier3RotationAssumption, Rotation!Init
  PROVE  RotationInv
<1>1. queue \in Rotation!Orders
  BY DEF Rotation!Init, Rotation!InOrder
<1>2. Rotation!Idle \in Rotation!RunRecord
  BY IdleSound, ShapedIsRecord
<1>3. RotationTypes
  <2>1. failures \in [Sets -> Nat]
    BY DEF Rotation!Init
  <2>2. run = [r \in Runs |-> Rotation!Idle]
    BY DEF Rotation!Init
  <2>3. run \in [Runs -> Rotation!RunRecord]
    BY <1>2, <2>2
  <2>4. outage \in BOOLEAN
    BY Zenon DEF Rotation!Init
  <2>5. faults \in 0..MaxFaults /\ outages \in 0..MaxOutages
    BY RotationNumbers DEF Rotation!Init
  <2> QED
    BY <1>1, <2>1, <2>3, <2>4, <2>5, RotationNumbers DEF RotationTypes
<1>4. \A r \in Runs : run[r] = Rotation!Idle
  BY DEF Rotation!Init
<1> QED
  BY <1>3, <1>4, IdleSound DEF RotationInv

LEMMA RunStepsKeep ==
  ASSUME RotationInv, NEW r \in Runs, RunSteps(r)
  PROVE  RotationInv'
<1>1. PICK k : Rotation!Move(r, k) /\ JobSound(k)
  BY DEF RunSteps, Advances
<1>2. run' = [q \in Runs |-> IF q = r THEN k ELSE run[q]]
  BY <1>1, MovedRun
<1>3. k \in Rotation!RunRecord
  BY <1>1, ShapedIsRecord DEF JobSound
<1>4. run' \in [Runs -> Rotation!RunRecord]
  BY <1>2, <1>3 DEF RotationInv, RotationTypes
<1>5. \A q \in Runs : JobSound(run'[q])
  BY <1>1, <1>2 DEF RotationInv
<1>6. RotationTypes'
  BY <1>4 DEF RotationInv, RotationTypes, RunSteps, RegistryStep
<1> QED
  BY <1>5, <1>6 DEF RotationInv, JobSound, Earns, Covered, Afforded, Affordable, Short, Blind,
     Shaped, FieldsOK

LEMMA RotationStep ==
  ASSUME Rotation!Tier3RotationAssumption, RotationInv, [Rotation!Next]_Rotation!vars
  PROVE  RotationInv'
<1>1. ASSUME run' = run, queue' = queue, failures' = failures, faults' = faults,
             outage' \in BOOLEAN, outages' \in 0..MaxOutages
      PROVE  RotationInv'
  BY <1>1 DEF RotationInv, RotationTypes
<1>2. CASE Rotation!OutageBegins
  BY <1>1, <1>2, RotationNumbers
     DEF Rotation!OutageBegins, Rotation!registry, RotationInv, RotationTypes
<1>3. CASE Rotation!OutageEnds
  BY <1>1, <1>3 DEF Rotation!OutageEnds, Rotation!registry, RotationInv, RotationTypes
<1>4. CASE UNCHANGED Rotation!vars
  BY <1>1, <1>4
     DEF Rotation!vars, Rotation!registry, Rotation!world, RotationInv, RotationTypes
<1> QED
  BY <1>2, <1>3, <1>4, JobSteps, RunStepsKeep DEF Rotation!Next

(* Types of the rotation, for any number of runs and sets, any sizes and    *)
(* budgets: every set keeps one place in the queue, no batch exceeds its    *)
(* size, and no run counts on once its breaker has tripped.                 *)
THEOREM RotationTypeCorrect ==
  ASSUME Rotation!Tier3RotationAssumption
  PROVE  Rotation!Spec => []Rotation!TypeOK
<1>1. Rotation!Init => RotationInv
  BY RotationInit
<1>2. RotationInv /\ [Rotation!Next]_Rotation!vars => RotationInv'
  BY RotationStep
<1>3. RotationInv => Rotation!TypeOK
  BY DEF RotationInv, RotationTypes, JobSound, Rotation!TypeOK
<1> QED
  BY <1>1, <1>2, <1>3, PTL DEF Rotation!Spec

(* Whatever the budget of an isolation, however the vendor refuses a batch  *)
(* and its parts, and whatever outages come in between: a run stamps no set *)
(* it has no file for but those of the parts it never probed, and leaves    *)
(* none unprobed before the budget is spent. Nothing of a batch is lost     *)
(* sight of.                                                                *)
THEOREM EveryStampEarned ==
  ASSUME Rotation!Tier3RotationAssumption
  PROVE  Rotation!Spec => []Rotation!StampsEarned
<1>1. Rotation!Init => RotationInv
  BY RotationInit
<1>2. RotationInv /\ [Rotation!Next]_Rotation!vars => RotationInv'
  BY RotationStep
<1>3. RotationInv => Rotation!StampsEarned
  <2> SUFFICES ASSUME RotationInv, NEW r \in Runs, run[r].pc = "stamp"
               PROVE  /\ Rotation!Live(r) \subseteq run[r].got \cup Rotation!Unprobed(r)
                      /\ Rotation!Unprobed(r) # {} => run[r].probes = 0
    BY DEF Rotation!StampsEarned
  <2>1. /\ Covered(run[r]) /\ run[r].segments \in Seq(Seq(Sets))
        /\ run[r].segments = <<>> \/ run[r].probes = 0
    BY DEF RotationInv, JobSound, Earns, FieldsOK
  <2>2. DOMAIN run[r].segments = 1..Len(run[r].segments)
    BY <2>1
  <2>3. Rotation!Live(r) \subseteq run[r].got \cup Rotation!Unprobed(r)
    BY <2>1, <2>2 DEF Covered, Rotation!Live, Rotation!Unprobed
  <2>4. run[r].segments = <<>> => Rotation!Unprobed(r) = {}
    BY <2>2 DEF Rotation!Unprobed
  <2> QED
    BY <2>1, <2>3, <2>4
<1> QED
  BY <1>1, <1>2, <1>3, PTL DEF Rotation!Spec

(* Too small a budget is blind: where a batch has as many sets as the power *)
(* of two of the budget, or more, its isolation finds no dead set, so none  *)
(* gets a strike and none is ever parked, whatever the vendor refuses. The  *)
(* 4 probes of DEFAULT_MAX_ISOLATION_REQUESTS are such a budget from 16     *)
(* sets on; "their tier3_failure_count climbs"                              *)
(* (refresh_sportscardspro_rotation.py:110) is not true of batches of 100.  *)
THEOREM ShortBudgetIsBlind ==
  ASSUME Rotation!Tier3RotationAssumption, NEW c, Doubling(c)
  PROVE  Rotation!Spec =>
           [](\A r \in Runs : c[run[r].budget] <= Len(run[r].chunk) => run[r].dead = {})
<1>1. Rotation!Init => RotationInv
  BY RotationInit
<1>2. RotationInv /\ [Rotation!Next]_Rotation!vars => RotationInv'
  BY RotationStep
<1>3. RotationInv => \A r \in Runs : c[run[r].budget] <= Len(run[r].chunk) => run[r].dead = {}
  BY DEF RotationInv, JobSound, Short, Blind
<1> QED
  BY <1>1, <1>2, <1>3, PTL DEF Rotation!Spec

(* A large one is exact: 2n - 1 probes leave no part of a batch of n        *)
(* unprobed, so what is stamped has a file, as line 18 says.                *)
THEOREM AmpleBudgetIsExact ==
  ASSUME Rotation!Tier3RotationAssumption
  PROVE  Rotation!Spec =>
           [](\A r \in Runs : run[r].pc = "stamp" /\ run[r].budget >= 2 * BatchSize - 1 =>
                Rotation!Live(r) \subseteq run[r].got)
<1>1. Rotation!Init => RotationInv
  BY RotationInit
<1>2. RotationInv /\ [Rotation!Next]_Rotation!vars => RotationInv'
  BY RotationStep
<1>3. RotationInv =>
        \A r \in Runs : run[r].pc = "stamp" /\ run[r].budget >= 2 * BatchSize - 1 =>
          Rotation!Live(r) \subseteq run[r].got
  <2> SUFFICES ASSUME RotationInv, NEW r \in Runs, run[r].pc = "stamp",
                      run[r].budget >= 2 * BatchSize - 1
               PROVE  Rotation!Live(r) \subseteq run[r].got
    OBVIOUS
  <2>1. Covered(run[r]) /\ run[r].segments = <<>>
    BY DEF RotationInv, JobSound, Earns, Afforded
  <2>2. \A i \in 1..Len(run[r].segments) : FALSE
    BY <2>1
  <2> QED
    BY <2>1, <2>2 DEF Covered, Rotation!Live
<1> QED
  BY <1>1, <1>2, <1>3, PTL DEF Rotation!Spec

-----------------------------------------------------------------------------
(* Outages.                                                                 *)

Exposed(s) == {r \in Runs : Exposes(run[r], s)}

(* What the outages so far may have cost a healthy set and what the         *)
(* isolations underway may still cost it come to one strike for each run    *)
(* and outage.                                                              *)
StrikesInv ==
  \A s \in Sets \ Dead : failures[s] + Cardinality(Exposed(s)) <= outages * Cardinality(Runs)

OutageInv == RotationInv /\ StrikesInv

LEMMA ExposedCounts ==
  ASSUME IsFiniteSet(Runs), NEW s
  PROVE  /\ IsFiniteSet(Exposed(s)) /\ Cardinality(Exposed(s)) \in Nat
         /\ Cardinality(Runs) \in Nat /\ Cardinality(Exposed(s)) <= Cardinality(Runs)
<1>1. Exposed(s) \subseteq Runs
  BY DEF Exposed
<1> QED
  BY <1>1, FS_Subset, FS_CardinalityType

LEMMA RunStepsForgive ==
  ASSUME IsFiniteSet(Runs), OutageInv, NEW r \in Runs, RunSteps(r)
  PROVE  StrikesInv'
<1> SUFFICES ASSUME NEW s \in Sets \ Dead
             PROVE  failures'[s] + Cardinality(Exposed(s)') <= outages' * Cardinality(Runs)
  BY DEF StrikesInv
<1> DEFINE E == Exposed(s)
           F == Exposed(s)'
           bound == outages * Cardinality(Runs)
<1>1. PICK k : Rotation!Move(r, k) /\ Shelters(run[r], k)
  BY DEF RunSteps, Advances
<1>2. run' = [q \in Runs |-> IF q = r THEN k ELSE run[q]]
  BY <1>1, MovedRun DEF OutageInv
<1>3. outage' = outage /\ outages' = outages
  BY DEF RunSteps
<1>4. F \subseteq E
  BY <1>1, <1>2, <1>3 DEF Exposed, Exposes, Shelters
<1>5. IsFiniteSet(E) /\ Cardinality(E) \in Nat /\ Cardinality(Runs) \in Nat
  BY ExposedCounts
<1>6. outages \in Nat /\ failures[s] \in Nat /\ failures'[s] \in Nat
  BY RotationNumbers DEF OutageInv, RotationInv, RotationTypes, RunSteps, RegistryStep
<1>7. bound \in Nat /\ failures[s] + Cardinality(E) <= bound
  BY <1>5, <1>6 DEF OutageInv, StrikesInv
<1>8. failures'[s] <= failures[s] \/ Strikes(r, s)
  BY DEF RunSteps, RegistryStep
<1>9. CASE failures'[s] <= failures[s]
  <2>1. Cardinality(F) \in Nat /\ Cardinality(F) <= Cardinality(E)
    BY <1>4, <1>5, FS_Subset, FS_CardinalityType
  <2> HIDE DEF E, F, bound
  <2>2. failures'[s] + Cardinality(F) <= bound
    BY <1>5, <1>6, <1>7, <1>9, <2>1
  <2> QED
    BY <1>3, <2>2 DEF F, bound
<1>10. CASE Strikes(r, s)
  <2>1. r \in E /\ r \notin F
    BY <1>10 DEF Strikes, Exposed, Exposes
  <2>2. IsFiniteSet(E \ {r}) /\ Cardinality(E \ {r}) = Cardinality(E) - 1
    BY <1>5, <2>1, FS_RemoveElement
  <2>3. F \subseteq E \ {r}
    BY <1>4, <2>1
  <2>4. Cardinality(F) \in Nat /\ Cardinality(F) <= Cardinality(E) - 1
    BY <2>2, <2>3, FS_Subset, FS_CardinalityType
  <2>5. failures'[s] = failures[s] + 1
    BY <1>10 DEF Strikes
  <2> HIDE DEF E, F, bound
  <2>6. failures'[s] + Cardinality(F) <= bound
    BY <1>5, <1>6, <1>7, <2>4, <2>5
  <2> QED
    BY <1>3, <2>6 DEF F, bound
<1> QED
  BY <1>8, <1>9, <1>10

LEMMA OutageForgives ==
  ASSUME IsFiniteSet(Runs), OutageInv, Rotation!OutageBegins
  PROVE  StrikesInv'
<1> SUFFICES ASSUME NEW s \in Sets \ Dead
             PROVE  failures'[s] + Cardinality(Exposed(s)') <= outages' * Cardinality(Runs)
  BY DEF StrikesInv
<1> DEFINE N == Cardinality(Runs)
           F == Exposed(s)'
<1>1. failures' = failures /\ outages' = outages + 1
  BY DEF Rotation!OutageBegins, Rotation!registry
<1>2. Cardinality(F) \in Nat /\ Cardinality(F) <= N
  <2>1. F \subseteq Runs
    BY DEF Exposed
  <2> QED
    BY <2>1, FS_Subset, FS_CardinalityType
<1>3. outages \in Nat /\ failures[s] \in Nat /\ N \in Nat
  BY ExposedCounts DEF OutageInv, RotationInv, RotationTypes
<1>4. failures[s] + Cardinality(Exposed(s)) <= outages * N /\ Cardinality(Exposed(s)) \in Nat
  BY ExposedCounts DEF OutageInv, StrikesInv
<1> HIDE DEF N, F
<1>5. (outages + 1) * N = outages * N + N /\ outages * N \in Nat
  BY <1>3
<1>6. failures[s] <= outages * N
  BY <1>3, <1>4, <1>5
<1>7. failures'[s] + Cardinality(F) <= outages' * N
  BY <1>1, <1>2, <1>3, <1>5, <1>6
<1> QED
  BY <1>7 DEF N, F

LEMMA FewerExposed ==
  ASSUME IsFiniteSet(Runs), OutageInv, UNCHANGED <<failures, outages>>,
         \A s : Exposed(s)' \subseteq Exposed(s)
  PROVE  StrikesInv'
<1> SUFFICES ASSUME NEW s \in Sets \ Dead
             PROVE  failures'[s] + Cardinality(Exposed(s)') <= outages' * Cardinality(Runs)
  BY DEF StrikesInv
<1> DEFINE E == Exposed(s)
           F == Exposed(s)'
           bound == outages * Cardinality(Runs)
<1>1. IsFiniteSet(E) /\ Cardinality(E) \in Nat /\ Cardinality(Runs) \in Nat
  BY ExposedCounts
<1>2. F \subseteq E
  OBVIOUS
<1>3. Cardinality(F) \in Nat /\ Cardinality(F) <= Cardinality(E)
  BY <1>1, <1>2, FS_Subset, FS_CardinalityType
<1>4. outages \in Nat /\ failures[s] \in Nat
  BY DEF OutageInv, RotationInv, RotationTypes
<1>5. bound \in Nat /\ failures[s] + Cardinality(E) <= bound
  BY <1>1, <1>4 DEF OutageInv, StrikesInv
<1> HIDE DEF E, F, bound
<1>6. failures[s] + Cardinality(F) <= bound
  BY <1>1, <1>3, <1>4, <1>5
<1> QED
  BY <1>6 DEF F, bound

LEMMA OutageStep ==
  ASSUME Rotation!Tier3RotationAssumption, OutageInv, [Rotation!Next]_Rotation!vars
  PROVE  OutageInv'
<1>1. IsFiniteSet(Runs) /\ RotationInv
  BY RotationNumbers DEF OutageInv
<1>2. RotationInv'
  BY <1>1, RotationStep
<1>3. CASE Rotation!OutageBegins
  BY <1>1, <1>2, <1>3, OutageForgives DEF OutageInv
<1>4. CASE Rotation!OutageEnds
  <2>1. UNCHANGED <<run, failures, outages>> /\ ~outage'
    BY <1>4 DEF Rotation!OutageEnds, Rotation!registry
  <2>2. \A s : Exposed(s)' \subseteq Exposed(s)
    BY <2>1 DEF Exposed, Exposes
  <2> QED
    BY <1>1, <1>2, <2>1, <2>2, FewerExposed DEF OutageInv
<1>5. CASE UNCHANGED Rotation!vars
  <2>1. UNCHANGED <<run, failures, outage, outages>>
    BY <1>5 DEF Rotation!vars, Rotation!registry, Rotation!world
  <2>2. \A s : Exposed(s)' \subseteq Exposed(s)
    BY <2>1 DEF Exposed, Exposes
  <2> QED
    BY <1>1, <1>2, <2>1, <2>2, FewerExposed DEF OutageInv
<1>6. ASSUME NEW r \in Runs, RunSteps(r) PROVE OutageInv'
  BY <1>1, <1>2, <1>6, RunStepsForgive DEF OutageInv
<1> QED
  BY <1>1, <1>3, <1>4, <1>5, <1>6, JobSteps DEF Rotation!Next

LEMMA OutageInit ==
  ASSUME Rotation!Tier3RotationAssumption, Rotation!Init
  PROVE  OutageInv
<1>1. RotationInv
  BY RotationInit
<1>2. outages = 0 /\ ~outage /\ failures = [s \in Sets |-> 0] /\ \A r \in Runs : run[r] = Rotation!Idle
  BY DEF Rotation!Init
<1>3. ASSUME NEW s \in Sets \ Dead
      PROVE  failures[s] + Cardinality(Exposed(s)) <= outages * Cardinality(Runs)
  <2>1. Exposed(s) = {}
    BY <1>2 DEF Exposed, Exposes, Rotation!Idle
  <2>2. Cardinality(Exposed(s)) = 0
    BY <2>1, FS_EmptySet
  <2>3. Cardinality(Runs) \in Nat
    BY RotationNumbers, FS_CardinalityType
  <2>4. 0 * Cardinality(Runs) = 0
    BY <2>3
  <2> QED
    BY <1>2, <2>2, <2>4
<1> QED
  BY <1>1, <1>3 DEF OutageInv, StrikesInv

(* An outage costs a healthy set at most one strike for each run that there *)
(* is, for any number of sets, runs and outages of any length.              *)
THEOREM EveryOutageForgiven ==
  ASSUME Rotation!Tier3RotationAssumption
  PROVE  Rotation!Spec => []Rotation!OutagesForgiven
<1>1. Rotation!Init => OutageInv
  BY OutageInit
<1>2. OutageInv /\ [Rotation!Next]_Rotation!vars => OutageInv'
  BY OutageStep
<1>3. OutageInv => Rotation!OutagesForgiven
  <2> SUFFICES ASSUME OutageInv, NEW s \in Sets \ Dead
               PROVE  failures[s] <= outages * Rotation!Cardinality(Runs)
    BY DEF Rotation!OutagesForgiven
  <2> DEFINE N == Cardinality(Runs)
  <2>1. IsFiniteSet(Runs)
    BY RotationNumbers
  <2>2. /\ failures[s] \in Nat /\ outages \in Nat /\ N \in Nat
        /\ Cardinality(Exposed(s)) \in Nat
    BY <2>1, ExposedCounts DEF OutageInv, RotationInv, RotationTypes
  <2>3. failures[s] + Cardinality(Exposed(s)) <= outages * N
    BY DEF OutageInv, StrikesInv
  <2> HIDE DEF N
  <2>4. outages * N \in Nat
    BY <2>2
  <2>5. failures[s] <= outages * N
    BY <2>2, <2>3, <2>4
  <2> QED
    BY <2>5, SameCardinality DEF N
<1> QED
  BY <1>1, <1>2, <1>3, PTL DEF Rotation!Spec
=============================================================================
