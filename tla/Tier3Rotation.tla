-------------------------- MODULE Tier3Rotation --------------------------
(***************************************************************************)
(* refresh_sportscardspro_rotation.py: runs that refresh completed sets in *)
(* turn. A run lists the sets that have waited longest, fetches them batch *)
(* by batch with one request each, writes and stamps every batch. A batch  *)
(* the vendor refuses is halved again and again, to salvage its healthy    *)
(* sets and to strike the dead ones; three strikes park a set.             *)
(*                                                                         *)
(* A set's place in the queue stands for tier3_refreshed_at. A dead set is *)
(* refused with a status of its own; in an outage every request fails with *)
(* a transient status or none.                                             *)
(***************************************************************************)
EXTENDS Integers, FiniteSets, SequencesExt

CONSTANTS
  Runs,          \* runs, each started again and again
  Sets,          \* registry_id of the completed sportscardspro sets
  Dead,          \* those the vendor cannot serve
  BatchSize,     \* --batch-size
  MaxRequests,   \* --max-requests
  Budgets,       \* --max-isolation-requests a run may be started with
  MaxFailures,   \* TIER3_MAX_FAILURES
  Threshold,     \* RATE_LIMIT_BREAKER_THRESHOLD
  MaxFaults,     \* bound: throttled, failed or wrongly answered requests
  MaxOutages     \* bound: outages of the vendor

ASSUME Tier3RotationAssumption ==
  /\ IsFiniteSet(Runs)
  /\ Sets \subseteq Nat /\ IsFiniteSet(Sets)
  /\ Dead \subseteq Sets
  /\ Budgets \subseteq Nat
  /\ {BatchSize, MaxRequests, MaxFailures, Threshold} \subseteq Nat \ {0}
  /\ {MaxFaults, MaxOutages} \subseteq Nat

VARIABLES
  queue,       \* the sets, longest since their stamp first
  failures,    \* tier3_failure_count
  run,         \* the runs
  outage,
  faults,
  outages

registry == <<queue, failures>>
world == <<outage, faults, outages>>
vars == <<registry, run, world>>

(* rows: sets still to be requested; chunk: the batch at work; segments:    *)
(* parts of it still to be probed, kept when the budget leaves some;        *)
(* budget, probes: allowed and left; got: the sets of the files at hand;    *)
(* dead: those refused alone; throttled: the breaker's count.               *)
Idle == [pc |-> "idle", rows |-> <<>>, chunk |-> <<>>, segments |-> <<>>,
         budget |-> 0, probes |-> 0, got |-> {}, dead |-> {}, throttled |-> 0]

(* The orders the sets may be in, and the one that a relation gives them.   *)
Orders == {q \in [1..Cardinality(Sets) -> Sets] : ToSet(q) = Sets}
InOrder(R(_, _)) == {q \in Orders : \A i \in 2..Len(q) : R(q[i - 1], q[i])}

ById(s, t) == s < t

Init ==
  /\ queue \in InOrder(ById)
  /\ failures = [s \in Sets |-> 0]
  /\ run = [r \in Runs |-> Idle]
  /\ outage = FALSE
  /\ faults = 0
  /\ outages = 0

Move(r, record) == run' = [run EXCEPT ![r] = record]

(* On to the next batch; what was found out about this one is dropped.      *)
Dropped(j) == [j EXCEPT !.pc = "batch", !.chunk = <<>>, !.segments = <<>>,
                        !.probes = 0, !.got = {}, !.dead = {}]

Throttled(j) == [Dropped(j) EXCEPT !.throttled = @ + 1]

Fault == faults < MaxFaults /\ faults' = faults + 1 /\ UNCHANGED <<outage, outages>>

-----------------------------------------------------------------------------
(* The queue.                                                               *)

\* Mutant: one set too many.
FirstsOffByOne(seq, n) == SubSeq(seq, 1, IF Len(seq) <= n THEN Len(seq) ELSE n + 1)

Firsts(seq, n) == SubSeq(seq, 1, IF Len(seq) < n THEN Len(seq) ELSE n)
Rest(seq, n) == SubSeq(seq, Len(Firsts(seq, n)) + 1, Len(seq))

Place(s) == CHOOSE i \in DOMAIN queue : queue[i] = s

\* Mutant: the set stamped last comes first.
BeforeLatest(s, t) ==
  \/ failures[s] < failures[t]
  \/ failures[s] = failures[t] /\ Place(t) < Place(s)

(* order by tier3_failure_count, tier3_refreshed_at nulls first.            *)
Before(s, t) ==
  \/ failures[s] < failures[t]
  \/ failures[s] = failures[t] /\ Place(s) < Place(t)

Limit == MaxRequests * BatchSize

(* The sets below the limit of strikes; those at it come last in the order. *)
Listed == {s \in Sets : failures[s] < MaxFailures}
RotationRows == {Firsts(Firsts(q, Cardinality(Listed)), Limit) : q \in InOrder(Before)}

(* tier3_refreshed_at = now: the batch goes to the end, by registry_id, and *)
(* the others keep their order.                                             *)
Stamped(batch) ==
  InOrder(LAMBDA s, t : \/ s \notin batch /\ (t \in batch \/ Place(s) < Place(t))
                        \/ {s, t} \subseteq batch /\ s < t)

-----------------------------------------------------------------------------
(* A run.                                                                   *)

Start(r) ==
  /\ run[r].pc = "idle" /\ Listed # {}
  /\ \E rows \in RotationRows, b \in Budgets :
       Move(r, [Idle EXCEPT !.pc = "batch", !.rows = rows, !.budget = b])
  /\ UNCHANGED <<registry, world>>

Chunk(r) == Firsts(run[r].rows, BatchSize)

(* The job at work on its next batch.                                       *)
Taken(r) == [run[r] EXCEPT !.chunk = Chunk(r), !.rows = Rest(@, BatchSize)]

(* Nothing is left, or the breaker tripped, or the limiter refuses a slot.  *)
Ends(r) ==
  /\ run[r].pc = "batch"
  /\ Move(r, Idle)
  /\ UNCHANGED <<registry, world>>

MayRequest(r) == run[r].pc = "batch" /\ run[r].rows # <<>> /\ run[r].throttled < Threshold

Healthy(sets) == sets \cap Dead = {}

(* The request of a batch, with its retries: served,                        *)
Fetched(r) ==
  /\ MayRequest(r) /\ ~outage /\ Healthy(ToSet(Chunk(r)))
  /\ Move(r, [Taken(r) EXCEPT !.pc = "write", !.got = ToSet(Chunk(r)), !.throttled = 0])
  /\ UNCHANGED <<registry, world>>

(* refused for what it asks for: isolate,                                   *)
Refused(r) ==
  /\ MayRequest(r) /\ ~outage /\ ~Healthy(ToSet(Chunk(r)))
  /\ Move(r, [Taken(r) EXCEPT !.pc = "isolate", !.segments = <<Chunk(r)>>,
                              !.probes = run[r].budget])
  /\ UNCHANGED <<registry, world>>

\* Mutant: a transient failure is isolated too.
OutageIsolated(r) ==
  /\ MayRequest(r) /\ outage
  /\ Move(r, [Taken(r) EXCEPT !.pc = "isolate", !.segments = <<Chunk(r)>>,
                              !.probes = run[r].budget])
  /\ UNCHANGED <<registry, world>>

(* failed by an outage, which says nothing about its sets,                  *)
OutageMet(r) ==
  /\ MayRequest(r) /\ outage
  /\ Move(r, Dropped(Taken(r)))
  /\ UNCHANGED <<registry, world>>

(* or refused as one too many.                                              *)
FetchThrottled(r) ==
  /\ MayRequest(r) /\ Fault
  /\ Move(r, Throttled(Taken(r)))
  /\ UNCHANGED registry

-----------------------------------------------------------------------------
(* _isolate_failed_batch, request by request; the recursion is the list of  *)
(* segments still to be probed, the batch itself first.                     *)

Segment(r) == Head(run[r].segments)
Probing(r) == run[r].pc = "isolate" /\ run[r].segments # <<>> /\ run[r].probes > 0

Probed(r) == [run[r] EXCEPT !.probes = @ - 1, !.segments = Tail(@)]

SegmentServed(r) ==
  /\ Probing(r) /\ ~outage /\ Healthy(ToSet(Segment(r)))
  /\ Move(r, [Probed(r) EXCEPT !.got = @ \cup ToSet(Segment(r))])
  /\ UNCHANGED <<registry, world>>

\* Mutant: the second half begins one set late.
HalvesOffByOne(seq) ==
  <<SubSeq(seq, 1, Len(seq) \div 2), SubSeq(seq, Len(seq) \div 2 + 2, Len(seq))>>

Halves(seq) ==
  <<SubSeq(seq, 1, Len(seq) \div 2), SubSeq(seq, Len(seq) \div 2 + 1, Len(seq))>>

(* A set alone is taken to be dead, whatever failed.                        *)
SegmentFails(r) ==
  /\ Probing(r) /\ (outage \/ ~Healthy(ToSet(Segment(r))))
  /\ Move(r, IF Len(Segment(r)) = 1
             THEN [Probed(r) EXCEPT !.dead = @ \cup ToSet(Segment(r))]
             ELSE [Probed(r) EXCEPT !.segments = Halves(Segment(r)) \o @])
  /\ UNCHANGED <<registry, world>>

(* _ThrottleAbort.                                                          *)
IsolationThrottled(r) ==
  /\ Probing(r) /\ Fault
  /\ Move(r, Throttled(run[r]))
  /\ UNCHANGED registry

Struck(r) == [s \in Sets |-> IF s \in run[r].dead THEN failures[s] + 1 ELSE failures[s]]

(* Every segment is settled, or the budget is spent; the dead sets get a    *)
(* strike, and the rest of the batch goes on if there is a file for some.   *)
Isolated(r) == run[r].pc = "isolate" /\ (run[r].segments = <<>> \/ run[r].probes = 0)

IsolationEnds(r) ==
  /\ Isolated(r)
  /\ failures' = Struck(r)
  /\ Move(r, IF run[r].got = {} THEN Dropped(run[r])
             ELSE [run[r] EXCEPT !.pc = "write", !.throttled = 0])
  /\ UNCHANGED <<queue, world>>

-----------------------------------------------------------------------------
(* Writing and stamping.                                                    *)

(* live_chunk.                                                              *)
Live(r) == ToSet(run[r].chunk) \ run[r].dead

Write(r) ==
  /\ run[r].pc = "write"
  /\ Move(r, [run[r] EXCEPT !.pc = "stamp"])
  /\ UNCHANGED <<registry, world>>

(* The file is not what was asked for, or a chunk cannot be written.        *)
WriteRefused(r) ==
  /\ run[r].pc = "write" /\ Fault
  /\ Move(r, Dropped(run[r]))
  /\ UNCHANGED registry

(* mark_tier3_refreshed.                                                    *)
Stamp(r) ==
  /\ run[r].pc = "stamp"
  /\ queue' \in Stamped(Live(r))
  /\ failures' = [s \in Sets |-> IF s \in Live(r) THEN 0 ELSE failures[s]]
  /\ Move(r, Dropped(run[r]))
  /\ UNCHANGED world

(* A run is killed, or a request to the registry raises: the strikes or the *)
(* stamps it was sending may be kept.                                       *)
Dies(r) ==
  /\ run[r].pc # "idle" /\ Fault
  /\ Move(r, Idle)
  /\ \/ UNCHANGED registry
     \/ Isolated(r) /\ failures' = Struck(r) /\ UNCHANGED queue
     \/ /\ run[r].pc = "stamp"
        /\ queue' \in Stamped(Live(r))
        /\ failures' = [s \in Sets |-> IF s \in Live(r) THEN 0 ELSE failures[s]]

-----------------------------------------------------------------------------

OutageBegins ==
  /\ ~outage /\ outages < MaxOutages
  /\ outage' = TRUE
  /\ outages' = outages + 1
  /\ UNCHANGED <<registry, run, faults>>

OutageEnds ==
  /\ outage
  /\ outage' = FALSE
  /\ UNCHANGED <<registry, run, faults, outages>>

Request(r) == Fetched(r) \/ Refused(r) \/ OutageMet(r)

Step(r) ==
  \/ Request(r) \/ Ends(r)
  \/ SegmentServed(r) \/ SegmentFails(r) \/ IsolationEnds(r)
  \/ Write(r) \/ Stamp(r)

Next ==
  \/ \E r \in Runs :
       \/ Start(r) \/ Step(r)
       \/ FetchThrottled(r) \/ IsolationThrottled(r) \/ WriteRefused(r) \/ Dies(r)
  \/ OutageBegins \/ OutageEnds

Spec == Init /\ [][Next]_vars

(* The batches a run has still to request.                                  *)
Left(r) == (Len(run[r].rows) + BatchSize - 1) \div BatchSize

(* The cron starts runs again and again, a run that lives goes on, outages  *)
(* end, and the limiter does not refuse the slot of the same batch of every *)
(* run for ever.                                                            *)
Fairness ==
  /\ \A r \in Runs : WF_vars(Start(r)) /\ WF_vars(Step(r))
  /\ \A r \in Runs, n \in 1..MaxRequests : SF_vars(Request(r) /\ Left(r) = n)
  /\ WF_vars(OutageEnds)

FairSpec == Spec /\ Fairness

-----------------------------------------------------------------------------
(* Properties.                                                             *)

Pcs == {"idle", "batch", "isolate", "write", "stamp"}
RunRecord == [pc : Pcs, rows : Seq(Sets), chunk : Seq(Sets), segments : Seq(Seq(Sets)),
              budget : Nat, probes : Nat, got : SUBSET Sets, dead : SUBSET Sets,
              throttled : 0..Threshold]

(* Types; every set keeps one place in the queue, no batch exceeds its      *)
(* size.                                                                    *)
TypeOK ==
  /\ queue \in Orders
  /\ failures \in [Sets -> Nat]
  /\ run \in [Runs -> RunRecord]
  /\ \A r \in Runs : Len(run[r].chunk) <= BatchSize
  /\ outage \in BOOLEAN
  /\ faults \in 0..MaxFaults
  /\ outages \in 0..MaxOutages

(* The parts of a refused batch that no request was made for.               *)
Unprobed(r) == UNION {ToSet(run[r].segments[i]) : i \in DOMAIN run[r].segments}

(* "Each set is stamped after a successful write"                           *)
(* (refresh_sportscardspro_rotation.py:18) is not true of a refused batch,  *)
(* which is stamped without its dead sets. What is stamped without a file   *)
(* of its own are the parts that a spent budget left unprobed, and no other *)
(* set, whatever was refused or failed in between.                          *)
StampsEarned ==
  \A r \in Runs : run[r].pc = "stamp" =>
    /\ Live(r) \subseteq run[r].got \cup Unprobed(r)
    /\ Unprobed(r) # {} => run[r].probes = 0

(* An outage costs a healthy set one strike at most for each run it finds   *)
(* in the middle of an isolation, however long it lasts: "a passing 503     *)
(* could silently shrink the queue" (same file, line 273) if the batches    *)
(* it fails were isolated.                                                  *)
OutagesForgiven ==
  \A s \in Sets \ Dead : failures[s] <= outages * Cardinality(Runs)

(* "Rotating through EVERY completed sportscardspro set" (line 13): every   *)
(* healthy set is refreshed again and again. But one with strikes left over *)
(* from an outage may wait as long as there is a batch of sets with fewer,  *)
(* one whose batch has a dead set may be among the parts left unprobed each *)
(* time, and where batches of which no part was served, so that they keep   *)
(* their place, fill the whole list, the others wait.                       *)
Ahead(s) == {t \in Sets : failures[t] < failures[s]}
SetAside(s) == failures[s] >= MaxFailures \/ Cardinality(Ahead(s)) >= BatchSize
Refreshed(s) == \E r \in Runs : run[r].pc = "stamp" /\ s \in run[r].got
CutShort(r) == Isolated(r) /\ Unprobed(r) # {} /\ ~Healthy(ToSet(run[r].chunk))
LeftUnprobed(s) == \E r \in Runs : CutShort(r) /\ s \in Unprobed(r)
InList(s) == s \in Listed /\ Cardinality({t \in Listed : Before(t, s)}) < Limit
Held(r) == CutShort(r) /\ run[r].got = {}
CrowdedOut(s) == <>[]~InList(s) /\ []<>(\E r \in Runs : Held(r))

EveryHealthySetTurns ==
  \A s \in Sets \ Dead :
    []<>Refreshed(s) \/ <>[]SetAside(s) \/ []<>LeftUnprobed(s) \/ CrowdedOut(s)
=============================================================================
