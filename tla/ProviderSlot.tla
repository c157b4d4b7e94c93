-------------------------- MODULE ProviderSlot --------------------------
(***************************************************************************)
(* The account-wide slot for one vendor endpoint. Jobs of several classes  *)
(* ask acquire_provider_slot, a transaction that serialises on one row,    *)
(* keeps the safety interval between grants and, when the interval is      *)
(* over, decides which class may take the next slot. SharedRateLimiter is  *)
(* the client: it naps and asks again, gives up, or, when the database     *)
(* fails, paces itself alone.                                              *)
(*                                                                         *)
(* Time is a tick, timestamps are ages. now() of a transaction is taken    *)
(* when it begins; it may wait MaxLag ticks for the row lock.              *)
(***************************************************************************)
EXTENDS Integers, FiniteSets

CONSTANTS
  Callers,          \* the jobs
  Classes,          \* slot classes of the key
  Essential,        \* the classes of kind essential; the others are bulk
  NoClass,          \* p_class null: keys without a policy (kicksdb:api)
  ClassOf,          \* the class a job declares
  Entitlement,      \* daily_entitlement of each class, Uncapped for null
  Uncapped,
  Interval,         \* min_interval_seconds
  ActiveWindow,     \* c_active_window
  PolicyRetry,      \* retry_after of POLICY_BLOCKED
  MaxNap,           \* _MAX_SINGLE_SLEEP_SECONDS
  MaxWait,          \* BULK_MAX_SLOT_WAIT_SECONDS
  Fallback,         \* fallback_interval_seconds
  Published,        \* the vendor's limit
  Day,              \* ticks of a day
  MaxLag,           \* how long a transaction may wait for the row lock
  Jitter,           \* how late a sleeper may wake
  CallDelay,        \* how long after its grant a job may send its request
  MaxFaults         \* bound: strays and crashes

ASSUME ProviderSlotAssumption ==
  /\ Essential \subseteq Classes
  /\ NoClass \notin Classes
  /\ ClassOf \in [Callers -> Classes \cup {NoClass}]
  /\ Uncapped \notin Nat
  /\ Entitlement \in [Classes -> Nat \cup {Uncapped}]
  /\ {Interval, ActiveWindow, PolicyRetry, MaxNap, Fallback, Published, Day} \subseteq Nat \ {0}
  /\ {MaxWait, MaxLag, Jitter, CallDelay, MaxFaults} \subseteq Nat
  \* the ten seconds of 610 over 600 must cover what lies between grant and request
  /\ Published + MaxLag + CallDelay <= Interval
  /\ MaxLag < Day

VARIABLES
  sinceGrant,   \* age of last_acquired_at
  sinceAsk,     \* age of last_request_at of each class
  used,         \* used_today of each class
  quotaDay,     \* quota_date of the classes: today, yesterday or older
  hour,         \* time of day
  granted,      \* grants each class really had today
  sinceCall,    \* age of the last request the vendor saw
  job,          \* the jobs
  strays,       \* requests sent without asking, or without an answer
  crashes       \* jobs that died

slotVars == <<sinceGrant, sinceAsk, used, quotaDay, granted>>
vars == <<slotVars, hour, sinceCall, job, strays, crashes>>

\* Ages saturate where nothing tells them apart any more.
GrantHorizon == Interval + MaxLag
AskHorizon == ActiveWindow + MaxLag
LocalHorizon == Fallback
Older(age, horizon) == IF age < horizon THEN age + 1 ELSE horizon

Bulk == Classes \ Essential

Sleeping == {"napping", "pacing", "retrying"}

(* A job outside acquire(), with a fresh SharedRateLimiter.                 *)
Idle == [pc |-> "idle", timer |-> 0, waited |-> 0, local |-> LocalHorizon]

(* The job at a point of its code, with a deadline.                         *)
At(j, pc, timer) == [j EXCEPT !.pc = pc, !.timer = timer]

FaultsLeft == strays + crashes < MaxFaults

Init ==
  /\ sinceGrant = GrantHorizon
  /\ sinceAsk = [k \in Classes |-> AskHorizon]
  /\ used = [k \in Classes |-> 0]
  /\ quotaDay = "older"
  /\ hour = 0
  /\ granted = [k \in Classes |-> 0]
  /\ sinceCall = Published
  /\ job = [c \in Callers |-> Idle]
  /\ strays = 0
  /\ crashes = 0

-----------------------------------------------------------------------------
(* acquire_provider_slot, seen by the transaction of job c, whose now() is  *)
(* job[c].timer ticks back.                                                 *)

Lag(c) == job[c].timer

VToday(c) == IF Lag(c) > hour THEN "yesterday" ELSE "today"

\* Mutant: every transaction rolls the counters.
RolledEachTime(c) == [k \in Classes |-> 0]

(* Every class of the key is rolled to the transaction's day.               *)
Rolled(c) == IF quotaDay = VToday(c) THEN used ELSE [k \in Classes |-> 0]

\* Mutant: the vendor's interval, without the margin.
GateWaitNoMargin(c) == Published - (sinceGrant - Lag(c))

GateWait(c) == Interval - (sinceGrant - Lag(c))

Spent(c, k) == Entitlement[k] # Uncapped /\ Rolled(c)[k] >= Entitlement[k]

\* Mutant: a class with calls left holds bulk off whether it asks or not.
EssentialUnmet(c) == \E k \in Essential : ~Spent(c, k)

(* Asked within the window, with calls left of its entitlement.             *)
EssentialActive(c) ==
  \E k \in Essential : sinceAsk[k] - Lag(c) < ActiveWindow /\ ~Spent(c, k)

(* The safety gate, then the policy for bulk classes.                       *)
Verdict(c) ==
  IF GateWait(c) > 0 THEN "RATE_LIMITED"
  ELSE IF ClassOf[c] \in Bulk /\ Spent(c, ClassOf[c]) THEN "QUOTA_EXHAUSTED"
  ELSE IF ClassOf[c] \in Bulk /\ EssentialActive(c) THEN "POLICY_BLOCKED"
  ELSE "GRANTED"

RetryAfter(c) == IF Verdict(c) = "RATE_LIMITED" THEN GateWait(c) ELSE PolicyRetry

Charged(counts, k) == [x \in Classes |-> IF x = k THEN counts[x] + 1 ELSE counts[x]]

Asked(c) == [k \in Classes |-> IF k = ClassOf[c] THEN Lag(c) ELSE sinceAsk[k]]

(* Which grants belong to today, whatever the counters say.                 *)
Counted(c) ==
  IF VToday(c) = "today" THEN Charged(granted, ClassOf[c]) ELSE granted

\* Mutant: an ask that is refused leaves no sign of life.
CommitSilently(c) ==
  /\ quotaDay' = VToday(c)
  /\ IF Verdict(c) = "GRANTED"
     THEN /\ sinceGrant' = Lag(c)
          /\ sinceAsk' = Asked(c)
          /\ used' = Charged(Rolled(c), ClassOf[c])
          /\ granted' = Counted(c)
     ELSE /\ used' = Rolled(c)
          /\ UNCHANGED <<sinceGrant, sinceAsk, granted>>

\* Mutant: a refused ask counts as the last grant.
CommitStampsRefusals(c) ==
  /\ quotaDay' = VToday(c)
  /\ sinceAsk' = Asked(c)
  /\ sinceGrant' = Lag(c)
  /\ IF Verdict(c) = "GRANTED"
     THEN /\ used' = Charged(Rolled(c), ClassOf[c])
          /\ granted' = Counted(c)
     ELSE /\ used' = Rolled(c)
          /\ UNCHANGED granted

(* The tables after the transaction: the roll and the liveness signal are   *)
(* kept whatever the verdict.                                               *)
Commit(c) ==
  /\ quotaDay' = VToday(c)
  /\ sinceAsk' = Asked(c)
  /\ IF Verdict(c) = "GRANTED"
     THEN /\ sinceGrant' = Lag(c)
          /\ used' = Charged(Rolled(c), ClassOf[c])
          /\ granted' = Counted(c)
     ELSE /\ used' = Rolled(c)
          /\ UNCHANGED <<sinceGrant, granted>>

-----------------------------------------------------------------------------
(* SharedRateLimiter.acquire.                                               *)

Acquire(c) ==
  /\ job[c].pc = "idle"
  /\ job' = [job EXCEPT ![c] = At([@ EXCEPT !.waited = 0], "asking", 0)]
  /\ UNCHANGED <<slotVars, hour, sinceCall, strays, crashes>>

Granted(c) ==
  /\ job[c].pc = "asking" /\ Verdict(c) = "GRANTED"
  /\ Commit(c)
  /\ job' = [job EXCEPT ![c] = At([@ EXCEPT !.local = 0], "calling", 0)]
  /\ UNCHANGED <<hour, sinceCall, strays, crashes>>

(* Only bulk callers pass max_wait_seconds.                                 *)
GivesUp(c) ==
  \/ Verdict(c) = "QUOTA_EXHAUSTED"
  \/ ClassOf[c] \in Bulk /\ job[c].waited + RetryAfter(c) > MaxWait

(* Refused for good: the run skips its calls and ends.                      *)
Skipped(c) ==
  /\ job[c].pc = "asking" /\ Verdict(c) # "GRANTED" /\ GivesUp(c)
  /\ Commit(c)
  /\ job' = [job EXCEPT ![c] = Idle]
  /\ UNCHANGED <<hour, sinceCall, strays, crashes>>

\* Mutant: the whole wait in one sleep.
NapWhole(c) == RetryAfter(c)

Nap(c) == IF RetryAfter(c) < MaxNap THEN RetryAfter(c) ELSE MaxNap

\* How long it napped so far; only a bulk caller's is ever compared.
Waited(c) == IF ClassOf[c] \in Bulk THEN job[c].waited + Nap(c) ELSE 1

Refused(c) ==
  /\ job[c].pc = "asking" /\ Verdict(c) # "GRANTED" /\ ~GivesUp(c)
  /\ Commit(c)
  /\ job' = [job EXCEPT ![c] = At([@ EXCEPT !.waited = Waited(c)], "napping", Nap(c))]
  /\ UNCHANGED <<hour, sinceCall, strays, crashes>>

AskAgain(c) ==
  /\ job[c].pc = "napping" /\ job[c].timer <= 0
  /\ job' = [job EXCEPT ![c] = At(@, "asking", 0)]
  /\ UNCHANGED <<slotVars, hour, sinceCall, strays, crashes>>

(* No answer from the database, whether or not the transaction committed:   *)
(* pace locally, from this job's own last slot.                             *)
AskFails(c) ==
  /\ job[c].pc = "asking" /\ FaultsLeft
  /\ strays' = strays + 1
  /\ Commit(c) \/ UNCHANGED slotVars
  /\ job' = [job EXCEPT ![c] = At(@, "pacing", Fallback - job[c].local)]
  /\ UNCHANGED <<hour, sinceCall, crashes>>

LocalSlot(c) ==
  /\ job[c].pc = "pacing" /\ job[c].timer <= 0
  /\ job' = [job EXCEPT ![c] = At([@ EXCEPT !.local = 0], "calling", 0)]
  /\ UNCHANGED <<slotVars, hour, sinceCall, strays, crashes>>

(* The request itself.                                                      *)
Call(c) ==
  /\ job[c].pc = "calling"
  /\ sinceCall' = 0
  /\ job' = [job EXCEPT ![c] = At(@, "idle", 0)]
  /\ UNCHANGED <<slotVars, hour, strays, crashes>>

(* fetch_batch_csv_file_with_retry: the vendor refused, sleep and request   *)
(* again, without asking for another slot.                                  *)
CallRefused(c) ==
  /\ job[c].pc = "calling" /\ ClassOf[c] \in Bulk /\ FaultsLeft
  /\ strays' = strays + 1
  /\ sinceCall' = 0
  /\ job' = [job EXCEPT ![c] = At(@, "retrying", Fallback)]
  /\ UNCHANGED <<slotVars, hour, crashes>>

RetryCall(c) ==
  /\ job[c].pc = "retrying" /\ job[c].timer <= 0
  /\ job' = [job EXCEPT ![c] = At(@, "calling", 0)]
  /\ UNCHANGED <<slotVars, hour, sinceCall, strays, crashes>>

(* The run is over; the next one starts with a limiter of its own.          *)
RunEnds(c) ==
  /\ job[c].pc = "idle" /\ job[c] # Idle
  /\ job' = [job EXCEPT ![c] = Idle]
  /\ UNCHANGED <<slotVars, hour, sinceCall, strays, crashes>>

Crash(c) ==
  /\ FaultsLeft /\ job[c].pc # "idle"
  /\ crashes' = crashes + 1
  /\ job' = [job EXCEPT ![c] = Idle]
  /\ UNCHANGED <<slotVars, hour, sinceCall, strays>>

(* One tick: transactions, sleepers and granted jobs keep their deadlines.  *)
Passes(j) ==
  [j EXCEPT !.local = Older(@, LocalHorizon),
            !.timer = CASE j.pc \in {"asking", "calling"} -> @ + 1
                        [] j.pc \in Sleeping -> @ - 1
                        [] OTHER -> @]

OnTime(j) ==
  /\ j.pc = "asking" => j.timer < MaxLag
  /\ j.pc = "calling" => j.timer < CallDelay
  /\ j.pc \in Sleeping => j.timer > -Jitter

Tick ==
  /\ \A c \in Callers : OnTime(job[c])
  /\ job' = [c \in Callers |-> Passes(job[c])]
  /\ sinceGrant' = Older(sinceGrant, GrantHorizon)
  /\ sinceAsk' = [k \in Classes |-> Older(sinceAsk[k], AskHorizon)]
  /\ sinceCall' = Older(sinceCall, Published)
  /\ IF hour + 1 = Day
     THEN /\ hour' = 0
          /\ quotaDay' = IF quotaDay = "today" THEN "yesterday" ELSE "older"
          /\ granted' = [k \in Classes |-> 0]
     ELSE /\ hour' = hour + 1
          /\ UNCHANGED <<quotaDay, granted>>
  /\ UNCHANGED <<used, strays, crashes>>

Step(c) ==
  \/ Granted(c) \/ Skipped(c) \/ Refused(c) \/ AskAgain(c)
  \/ LocalSlot(c) \/ RetryCall(c) \/ Call(c)

Next ==
  \/ \E c \in Callers : Acquire(c) \/ Step(c) \/ AskFails(c) \/ CallRefused(c)
                        \/ RunEnds(c) \/ Crash(c)
  \/ Tick

Spec == Init /\ [][Next]_vars

(* Time passes (a tick has room for finitely many steps, hence SF), a job   *)
(* that lives does what is due, and the cron starts the                     *)
(* bulk jobs again and again.                                               *)
Fairness ==
  /\ SF_vars(Tick)
  /\ \A c \in Callers : WF_vars(Step(c))
  /\ \A c \in Callers : ClassOf[c] \in Bulk => WF_vars(Acquire(c))

FairSpec == Spec /\ Fairness

-----------------------------------------------------------------------------
(* Properties.                                                             *)

Pcs == {"idle", "asking", "napping", "pacing", "retrying", "calling"}
JobRecord == [pc : Pcs, timer : Int, waited : Nat, local : 0..LocalHorizon]

DeadlineOK(j) ==
  /\ j.pc = "asking" => j.timer \in 0..MaxLag
  /\ j.pc = "calling" => j.timer \in 0..CallDelay
  /\ j.pc = "napping" => j.timer \in -Jitter..MaxNap
  /\ j.pc \in {"pacing", "retrying"} => j.timer \in -Jitter..Fallback

(* Types; every deadline is kept.                                           *)
TypeOK ==
  /\ sinceGrant \in 0..GrantHorizon
  /\ sinceAsk \in [Classes -> 0..AskHorizon]
  /\ used \in [Classes -> Nat]
  /\ quotaDay \in {"today", "yesterday", "older"}
  /\ hour \in 0..Day - 1
  /\ granted \in [Classes -> Nat]
  /\ sinceCall \in 0..Published
  /\ job \in [Callers -> JobRecord]
  /\ \A c \in Callers : DeadlineOK(job[c])
  /\ strays \in Nat /\ crashes \in Nat
  /\ strays + crashes <= MaxFaults

Calling(c) == job[c].pc = "calling"

(* Whenever a job may send its request, the vendor's published interval has *)
(* passed since the last request of any job, and no other job may send one: *)
(* two jobs "cannot both be granted" (migration 20260902) and the ten       *)
(* seconds of 610 over 600 cover lock waits and the way to the vendor.      *)
CallsSpaced ==
  \A c \in Callers : Calling(c) =>
    sinceCall >= Published /\ \A d \in Callers \ {c} : ~Calling(d)

(* The same, as long as every job asked and got its answer.                 *)
AnsweredCallsSpaced == strays = 0 => CallsSpaced

(* A job that asked, was refused and has not given up.                      *)
Waiting(c) ==
  \/ job[c].pc = "napping"
  \/ job[c].pc = "asking" /\ job[c].waited > 0

(* No bulk job takes a slot from under an essential job that waits for one  *)
(* with calls left: naps and late wake-ups stay within the activity window  *)
(* (migration 20260905: "bulk would take the slot it is waiting for").      *)
EssentialFirst ==
  [][\A b, e \in Callers :
       /\ ClassOf[b] \in Bulk /\ job[b].pc = "asking" /\ job'[b].pc = "calling"
       /\ ClassOf[e] \in Essential /\ Waiting(e)
       => Spent(b, ClassOf[e])]_vars

(* daily_entitlement of a bulk class is "a HARD daily cap"                  *)
(* (20260905_provider_slot_classes.sql:50), which one more call may exceed: *)
(* a transaction that began before midnight and waited for the row lock     *)
(* rolls the counters back to yesterday, over the grant that today has seen *)
(* by then.                                                                 *)
MaxForgotten == IF MaxLag = 0 THEN 0 ELSE 1
BulkCapped ==
  \A k \in Bulk : Entitlement[k] # Uncapped => granted[k] <= Entitlement[k] + MaxForgotten

(* What the vendor sees of all jobs together is one account that keeps to   *)
(* the published limit, until a request goes out that no answer allowed:    *)
(* "A provider's limit applies to the ACCOUNT" (_shared_rate_limiter.py:3). *)
Vendor == INSTANCE VendorLimit WITH since <- sinceCall, excused <- strays > 0
WithinVendorLimit == Vendor!Spec

(* An essential job does not wait for ever, whatever the bulk jobs do: when *)
(* its entitlement is used up it races them, but only until midnight.       *)
EssentialServed ==
  \A c \in Callers : ClassOf[c] \in Essential => (Waiting(c) ~> ~Waiting(c))

(* "A crashed essential job cannot park bulk forever": once no essential    *)
(* job is at work bulk jobs are granted slots again and again.              *)
EssentialsGone == \A c \in Callers : ClassOf[c] \in Essential => job[c].pc = "idle"
BulkCalls == \E c \in Callers : ClassOf[c] \in Bulk /\ Calling(c)
BulkResumes == (<>[]EssentialsGone) => []<>BulkCalls

(* Neither class of jobs keeps the other waiting for good.                  *)
NobodyStarves == EssentialServed /\ BulkResumes
=============================================================================
