--------------------------- MODULE BackfillRun ---------------------------
(***************************************************************************)
(* backfill_pricecharting_sets.py: runs of one job, started by the cron or *)
(* by hand, that fetch the registry's sets. A run takes the run lock,      *)
(* claims sets, searches, resolves and loads them, marks each a success or *)
(* a failure, and releases the lock.                                       *)
(*                                                                         *)
(* The lock and the claims are leases: a claim's half hour may end any     *)
(* time, the lock's three hours end on a dead holder, or on one that       *)
(* overruns them. A set's place in the queue stands for last_fetched_at.   *)
(***************************************************************************)
EXTENDS Integers, FiniteSets, SequencesExt

CONSTANTS
  Runs,          \* runs, each started again and again
  NoRun,
  Sets,          \* registry rows
  Sports,        \* those of sportscardspro.com, the others pricecharting.com
  Tier,          \* priority_tier
  Limit,         \* --limit
  SlowLimit,     \* --sportscardspro-slow-path-limit
  MaxFaults,     \* bound: requests that fail or lose their answer
  MaxOverruns    \* bound: runs that outlive their lease of the lock

ASSUME BackfillRunAssumption ==
  /\ NoRun \notin Runs
  /\ IsFiniteSet(Sets) /\ Sports \subseteq Sets
  /\ Tier \in [Sets -> Nat]
  /\ Limit \in Nat \ {0}
  /\ {SlowLimit, MaxFaults, MaxOverruns} \subseteq Nat

VARIABLES
  lock,       \* the run whose lease of backfill_run_lock lasts
  queue,      \* the sets, longest since their last_fetched_at first
  fetched,    \* sets whose last_fetch_status is success
  claims,     \* sets whose claimed_at is within --lease-minutes
  run,        \* the runs
  faults,
  overruns

vars == <<lock, queue, fetched, claims, run, faults, overruns>>
registry == <<queue, fetched, claims>>
bounds == <<faults, overruns>>

(* The orders the sets may be in.                                           *)
Orders == {q \in [1..Cardinality(Sets) -> Sets] : ToSet(q) = Sets}

Idle == [pc |-> "idle", rows |-> <<>>, part |-> [s \in Sets |-> "none"], overran |-> FALSE]

Init ==
  /\ lock = NoRun
  /\ queue \in Orders
  /\ fetched = {}
  /\ claims = {}
  /\ run = [r \in Runs |-> Idle]
  /\ faults = 0
  /\ overruns = 0

Working(r) == run[r].pc \in {"select", "claim", "search", "pages", "failure", "release"}

(* The sets of a run at some point of their way.                            *)
In(r, part) == {s \in Sets : run[r].part[s] = part}

Moved(r, batch, part) ==
  [run[r] EXCEPT !.part = [s \in Sets |-> IF s \in batch THEN part ELSE @[s]]]

Move(r, record) == run' = [run EXCEPT ![r] = record]
MoveTo(r, pc) == Move(r, [run[r] EXCEPT !.pc = pc])

Fault == faults < MaxFaults /\ faults' = faults + 1 /\ UNCHANGED overruns

-----------------------------------------------------------------------------
(* The run lock.                                                            *)

(* acquire_backfill_run_lock: refused, the run ends at once; an answer that *)
(* is lost ends it too, outside the try that would release.                 *)
Acquire(r) ==
  /\ run[r].pc = "idle" /\ lock = NoRun
  /\ lock' = r
  /\ \/ MoveTo(r, "select") /\ UNCHANGED bounds
     \/ UNCHANGED run /\ Fault
  /\ UNCHANGED registry

\* Mutant: whoever releases frees the lock.
ReleasedBlind(r) == NoRun

(* release_backfill_run_lock: only the holder's own.                        *)
Released(r) == IF lock = r THEN NoRun ELSE lock

(* In the finally block; a release that fails leaves it to the lease.       *)
Release(r) ==
  /\ run[r].pc = "release"
  /\ Move(r, Idle)
  /\ \/ lock' = Released(r) /\ UNCHANGED bounds
     \/ UNCHANGED lock /\ Fault
  /\ UNCHANGED registry

-----------------------------------------------------------------------------
(* claim_rows: a SELECT and a PATCH by id.                                  *)

Waiting == Sets \ fetched

Place(s) == CHOOSE i \in DOMAIN queue : queue[i] = s

\* Mutant: the set tried last first, nulls last.
BeforeLatest(s, t) == Tier[s] < Tier[t] \/ (Tier[s] = Tier[t] /\ Place(t) < Place(s))

(* order by priority_tier, last_fetched_at nulls first.                     *)
Before(s, t) == Tier[s] < Tier[t] \/ (Tier[s] = Tier[t] /\ Place(s) < Place(t))

\* Mutant: no filter on last_fetch_status.
ClaimableDone == Sets \ claims

(* Not claimed, or not for long, and not a success already.                 *)
Claimable == Waiting \ claims

(* The first Limit of them, in order.                                       *)
IsFirst(rows) ==
  /\ Len(rows) = (IF Cardinality(Claimable) < Limit THEN Cardinality(Claimable) ELSE Limit)
  /\ \A i, j \in DOMAIN rows : i < j => Before(rows[i], rows[j])
  /\ \A i \in DOMAIN rows, s \in Claimable \ ToSet(rows) : Before(rows[i], s)

Select(r) ==
  /\ run[r].pc = "select"
  /\ \E n \in 0..Limit : \E rows \in [1..n -> Claimable] :
       /\ IsFirst(rows)
       /\ IF rows = <<>> THEN MoveTo(r, "release")
          ELSE Move(r, [Moved(r, ToSet(rows), "picked") EXCEPT !.pc = "claim", !.rows = rows])
  /\ UNCHANGED <<lock, registry, bounds>>

Claim(r) ==
  /\ run[r].pc = "claim"
  /\ claims' = claims \cup In(r, "picked")
  /\ Move(r, [Moved(r, In(r, "picked"), "todo") EXCEPT !.pc = "search"])
  /\ UNCHANGED <<lock, queue, fetched, bounds>>

-----------------------------------------------------------------------------
(* The sets of the run.                                                     *)

Sites == {Sports, Sets \ Sports}

Work(r) == UNCHANGED <<lock, registry, bounds>>

(* The first site's sets, searched for by name: the whole set is found, and *)
(* its rows are written or not, or it goes on to the slow path.             *)
Search(r) ==
  /\ run[r].pc = "search"
  /\ \E s \in In(r, "todo") \cap Sports, part \in {"won", "lost", "missed"} :
       Move(r, Moved(r, {s}, part))
  /\ Work(r)

(* cap_slow_path_rows: of the sets missed the first go on, in the order they *)
(* were claimed in, and those beyond the cap stay claimed.                  *)
SearchEnds(r) ==
  /\ run[r].pc = "search" /\ In(r, "todo") \cap Sports = {}
  /\ LET missed == SelectSeq(run[r].rows, LAMBDA s : run[r].part[s] = "missed")
         deferred == {missed[i] : i \in {j \in DOMAIN missed : j > SlowLimit}}
     IN Move(r, [run[r] EXCEPT !.pc = "pages", !.rows = <<>>,
                   !.part = [s \in Sets |-> IF s \in deferred THEN "none"
                                            ELSE IF @[s] = "missed" THEN "todo" ELSE @[s]]])
  /\ Work(r)

(* The console_uid is known, or read from the set's page, or it is lost: no *)
(* such page, no answer, or a breaker that several refusals have tripped.   *)
Resolve(r) ==
  /\ run[r].pc = "pages"
  /\ \E s \in In(r, "todo"), part \in {"resolved", "lost"} : Move(r, Moved(r, {s}, part))
  /\ Work(r)

Resolved(r, site) == In(r, "resolved") \cap site

(* A slot is granted: fetch the CSV of one site's sets, check its families, *)
(* write it. All of them succeeded or all of them failed.                   *)
Load(r, site) ==
  /\ run[r].pc = "pages" /\ In(r, "todo") = {} /\ Resolved(r, site) # {}
  /\ \E part \in {"won", "lost"} : Move(r, Moved(r, Resolved(r, site), part))
  /\ Work(r)

(* No slot: the site's sets stay claimed.                                   *)
LoadRefused(r, site) ==
  /\ run[r].pc = "pages" /\ In(r, "todo") = {} /\ Resolved(r, site) # {}
  /\ Move(r, Moved(r, Resolved(r, site), "none"))
  /\ Work(r)

-----------------------------------------------------------------------------
(* The outcome.                                                             *)

\* Mutant: the sets keep their old places too.
RequeuedTwice(batch) == {queue \o q : q \in [1..Cardinality(batch) -> batch]}

(* last_fetched_at = now: the batch goes to the end, in any order, and the  *)
(* others keep theirs.                                                      *)
Requeued(batch) ==
  {q \in Orders : \A i \in 2..Len(q) :
     q[i] \in batch \/ (q[i - 1] \notin batch /\ Place(q[i - 1]) < Place(q[i]))}

(* Its sets settled, the run marks: one PATCH for all successes,            *)
Settled(r) == run[r].pc = "pages" /\ In(r, "todo") = {} /\ In(r, "resolved") = {}

MarkSuccess(r) ==
  /\ Settled(r)
  /\ queue' \in Requeued(In(r, "won"))
  /\ fetched' = fetched \cup In(r, "won")
  /\ claims' = claims \ In(r, "won")
  /\ Move(r, [Moved(r, In(r, "won"), "none") EXCEPT !.pc = "failure"])
  /\ UNCHANGED <<lock, bounds>>

(* and one for each failure.                                                *)
MarkFailure(r) ==
  /\ run[r].pc = "failure"
  /\ \E s \in In(r, "lost") :
       /\ queue' \in Requeued({s})
       /\ fetched' = fetched \ {s}
       /\ claims' = claims \ {s}
       /\ Move(r, Moved(r, {s}, "none"))
  /\ UNCHANGED <<lock, bounds>>

MarksEnd(r) ==
  /\ run[r].pc = "failure" /\ In(r, "lost") = {}
  /\ MoveTo(r, "release")
  /\ Work(r)

(* A request of the run fails, before or after it took effect; what it      *)
(* changed and what the run still held is left to the leases.               *)
RunFails(r) ==
  /\ \/ run[r].pc = "select" /\ UNCHANGED registry
     \/ /\ run[r].pc = "claim"
        /\ claims' \in {claims, claims \cup In(r, "picked")}
        /\ UNCHANGED <<queue, fetched>>
     \/ run[r].pc = "pages" /\ UNCHANGED registry
     \/ /\ Settled(r) /\ In(r, "won") # {}
        /\ \/ UNCHANGED registry
           \/ /\ queue' \in Requeued(In(r, "won"))
              /\ fetched' = fetched \cup In(r, "won")
              /\ claims' = claims \ In(r, "won")
     \/ /\ run[r].pc = "failure"
        /\ \E s \in In(r, "lost") :
             \/ UNCHANGED registry
             \/ /\ queue' \in Requeued({s})
                /\ fetched' = fetched \ {s}
                /\ claims' = claims \ {s}
  /\ MoveTo(r, "release")
  /\ Fault
  /\ UNCHANGED lock

-----------------------------------------------------------------------------
(* Time and death.                                                          *)

Crash(r) ==
  /\ run[r].pc # "idle"
  /\ Fault
  /\ Move(r, Idle)
  /\ UNCHANGED <<lock, registry>>

(* Three hours since the lock was taken.                                    *)
LeaseEnds ==
  /\ lock # NoRun
  /\ lock' = NoRun
  /\ IF Working(lock)
     THEN /\ overruns < MaxOverruns /\ overruns' = overruns + 1
          /\ Move(lock, [run[lock] EXCEPT !.overran = TRUE])
     ELSE UNCHANGED <<overruns, run>>
  /\ UNCHANGED <<registry, faults>>

(* Half an hour since a set was claimed.                                    *)
ClaimEnds(s) ==
  /\ s \in claims
  /\ claims' = claims \ {s}
  /\ UNCHANGED <<lock, queue, fetched, run, bounds>>

Step(r) ==
  \/ Select(r) \/ Claim(r) \/ Search(r) \/ SearchEnds(r) \/ Resolve(r)
  \/ \E site \in Sites : Load(r, site) \/ LoadRefused(r, site)
  \/ MarkSuccess(r) \/ MarkFailure(r) \/ MarksEnd(r) \/ Release(r)

Next ==
  \/ \E r \in Runs : Acquire(r) \/ Step(r) \/ RunFails(r) \/ Crash(r)
  \/ LeaseEnds
  \/ \E s \in Sets : ClaimEnds(s)

Spec == Init /\ [][Next]_vars

(* The cron starts runs again and again, a run that lives goes on, leases   *)
(* end, and the limiter does not refuse a slot to the same set forever.     *)
LoadOf(s) == \E r \in Runs, site \in Sites : s \in Resolved(r, site) /\ Load(r, site)

Fairness ==
  /\ WF_vars(\E r \in Runs : Acquire(r))
  /\ \A r \in Runs : WF_vars(Step(r))
  /\ WF_vars(LeaseEnds)
  /\ \A s \in Sets : WF_vars(ClaimEnds(s)) /\ SF_vars(LoadOf(s))

FairSpec == Spec /\ Fairness

-----------------------------------------------------------------------------
(* Properties.                                                             *)

Pcs == {"idle", "select", "claim", "search", "pages", "failure", "release"}
Parts == {"none", "picked", "todo", "missed", "resolved", "won", "lost"}
RunRecord == [pc : Pcs, rows : Seq(Sets), part : [Sets -> Parts], overran : BOOLEAN]

(* Types; every set keeps one place in the queue.                           *)
TypeOK ==
  /\ lock \in Runs \cup {NoRun}
  /\ queue \in Orders
  /\ fetched \subseteq Sets
  /\ claims \subseteq Sets
  /\ run \in [Runs -> RunRecord]
  /\ faults \in 0..MaxFaults
  /\ overruns \in 0..MaxOverruns

(* Two runs are never at work at once unless one of them outlived its       *)
(* lease; and a run that did cannot, when it finally cleans up, release the *)
(* lock "out from under" the run that took it over (migration 20260811).    *)
OneRunPerLease ==
  \A r, q \in Runs : r # q /\ Working(r) /\ Working(q) => run[r].overran \/ run[q].overran

(* The registry is a work queue of its runs, as long as none overran: the   *)
(* lock makes up for claim_rows, whose SELECT and PATCH are two requests,   *)
(* and for claims that end while their run still works.                     *)
Holds(r, s) == Working(r) /\ run[r].pc # "release" /\ run[r].part[s] \notin {"none", "picked"}
Owner == [s \in Sets |-> IF \E r \in Runs : Holds(r, s)
                         THEN CHOOSE r \in Runs : Holds(r, s) ELSE NoRun]

Registry == INSTANCE WorkQueue WITH
  Workers <- Runs, Nobody <- NoRun, owner <- Owner,
  done <- fetched, excused <- overruns > 0

SharedAsQueue == Registry!Spec

(* A set comes up again and again until it is fetched with success, once    *)
(* the tiers above it are: crashes, lost answers, deferrals and slots that  *)
(* are refused for a time keep none out for good.                           *)
TiersAboveDone(s) == \A t \in Sets : Tier[t] < Tier[s] => t \notin Waiting
Tried(s) == s \notin Waiting \/ \E r \in Runs : run[r].part[s] \in {"won", "lost"}
EverySetTried == \A s \in Sets : (<>[]TiersAboveDone(s)) => []<>Tried(s)
=============================================================================
