----------------------- MODULE ProviderSlotProofs -----------------------
(***************************************************************************)
(* What holds of ProviderSlot for every number of jobs and classes and     *)
(* every choice of the intervals: the types, the spacing of the requests   *)
(* the vendor sees and the priority of essential jobs.                     *)
(***************************************************************************)
EXTENDS ProviderSlot, TLAPS

(* The numbers among the constants, and the order the margins impose.       *)
LEMMA Numbers ==
  /\ Interval \in Nat /\ ActiveWindow \in Nat /\ PolicyRetry \in Nat /\ MaxNap \in Nat
  /\ Fallback \in Nat /\ Published \in Nat /\ Day \in Nat
  /\ Interval > 0 /\ PolicyRetry > 0 /\ MaxNap > 0 /\ Published > 0 /\ Day > 0
  /\ MaxWait \in Nat /\ MaxLag \in Nat /\ Jitter \in Nat /\ CallDelay \in Nat
  /\ MaxFaults \in Nat
  /\ Published + MaxLag + CallDelay <= Interval
BY ProviderSlotAssumption

(* The shared state, and the part of it one transaction writes.             *)
SlotTypeOK ==
  /\ sinceGrant \in 0..GrantHorizon
  /\ sinceAsk \in [Classes -> 0..AskHorizon]
  /\ used \in [Classes -> Nat]
  /\ quotaDay \in {"today", "yesterday", "older"}
  /\ granted \in [Classes -> Nat]

(* The jobs.                                                                *)
JobsTypeOK ==
  /\ job \in [Callers -> JobRecord]
  /\ \A c \in Callers : DeadlineOK(job[c])

(* The clock, the vendor and the counters that bound the runs.              *)
RestTypeOK ==
  /\ hour \in 0..Day - 1
  /\ sinceCall \in 0..Published
  /\ strays \in Nat /\ crashes \in Nat
  /\ strays + crashes <= MaxFaults

(* TypeOK in three parts, in the state before a step and after it.          *)
LEMMA TypeParts ==
  /\ TypeOK <=> SlotTypeOK /\ JobsTypeOK /\ RestTypeOK
  /\ TypeOK' <=> SlotTypeOK' /\ JobsTypeOK' /\ RestTypeOK'
BY DEF TypeOK, SlotTypeOK, JobsTypeOK, RestTypeOK

(* A transaction keeps the types of the tables, granted or refused.         *)
LEMMA CommitTypes ==
  ASSUME TypeOK, NEW c \in Callers, job[c].pc = "asking", Commit(c)
  PROVE  SlotTypeOK'
<1>1. Lag(c) \in 0..MaxLag /\ Lag(c) \in Nat
  BY Numbers DEF TypeOK, DeadlineOK, Lag
<1>2. Lag(c) \in 0..GrantHorizon /\ Lag(c) \in 0..AskHorizon
  BY <1>1, Numbers DEF GrantHorizon, AskHorizon
<1>3. VToday(c) \in {"today", "yesterday", "older"}
  BY DEF VToday
<1>4. Rolled(c) \in [Classes -> Nat]
  BY DEF Rolled, TypeOK
<1>5. Charged(Rolled(c), ClassOf[c]) \in [Classes -> Nat]
  BY <1>4 DEF Charged
<1>6. Counted(c) \in [Classes -> Nat]
  BY DEF Counted, Charged, TypeOK
<1>7. Asked(c) \in [Classes -> 0..AskHorizon]
  BY <1>2 DEF Asked, TypeOK
<1>8. QED
  BY <1>2, <1>3, <1>4, <1>5, <1>6, <1>7 DEF Commit, SlotTypeOK, TypeOK

(* A wait the client is told is a positive number of ticks.                 *)
LEMMA NapRange ==
  ASSUME TypeOK, NEW c \in Callers, job[c].pc = "asking"
  PROVE  /\ GateWait(c) \in Int
         /\ Nap(c) \in 1..MaxNap
         /\ Waited(c) \in Nat \ {0}
<1>1. Lag(c) \in Nat /\ sinceGrant \in Nat /\ job[c].waited \in Nat
  BY Numbers DEF TypeOK, DeadlineOK, Lag, GrantHorizon, JobRecord
<1>2. GateWait(c) \in Int
  BY <1>1, Numbers DEF GateWait
<1>3. RetryAfter(c) \in Nat \ {0}
  <2>1. CASE Verdict(c) = "RATE_LIMITED"
    <3>1. GateWait(c) > 0
      BY <2>1 DEF Verdict
    <3>2. QED
      BY <1>2, <2>1, <3>1 DEF RetryAfter
  <2>2. CASE Verdict(c) # "RATE_LIMITED"
    BY <2>2, Numbers DEF RetryAfter
  <2>3. QED
    BY <2>1, <2>2
<1>4. Nap(c) \in 1..MaxNap
  BY <1>3, Numbers DEF Nap
<1>5. QED
  BY <1>1, <1>2, <1>4 DEF Waited

(* A job moved to another point of its code.                                *)
LEMMA AtTypes ==
  ASSUME NEW r \in JobRecord, NEW p \in Pcs, NEW t \in Int
  PROVE  /\ At(r, p, t) \in JobRecord
         /\ At(r, p, t).pc = p /\ At(r, p, t).timer = t /\ At(r, p, t).waited = r.waited
BY DEF JobRecord, At

(* A job whose wait so far is rewritten.                                    *)
LEMMA WaitedTypes ==
  ASSUME NEW r \in JobRecord, NEW w \in Nat
  PROVE  [r EXCEPT !.waited = w] \in JobRecord /\ [r EXCEPT !.waited = w].waited = w
BY DEF JobRecord

(* A job whose own last slot is rewritten.                                  *)
LEMMA LocalTypes ==
  ASSUME NEW r \in JobRecord, NEW l \in 0..LocalHorizon
  PROVE  [r EXCEPT !.local = l] \in JobRecord
BY DEF JobRecord

(* A job outside acquire() is well typed and has no deadline.               *)
LEMMA IdleOK == Idle \in JobRecord /\ DeadlineOK(Idle) /\ Idle.pc = "idle"
BY Numbers DEF Idle, JobRecord, Pcs, DeadlineOK, LocalHorizon

(* The job an action leaves behind, and that it touches no other.           *)
Moved(c, pc, timer) ==
  /\ job' = [job EXCEPT ![c] = job'[c]]
  /\ job'[c] \in JobRecord /\ job'[c].pc = pc /\ job'[c].timer = timer

(* An action that rewrites a job with At moves it there.                    *)
LEMMA MovesTo ==
  ASSUME TypeOK, NEW c \in Callers, NEW r \in JobRecord, NEW pc \in Pcs, NEW t \in Int,
         job' = [job EXCEPT ![c] = At(r, pc, t)]
  PROVE  Moved(c, pc, t) /\ job'[c].waited = r.waited
<1>1. job'[c] = At(r, pc, t)
  BY DEF TypeOK
<1>2. job' = [job EXCEPT ![c] = job'[c]]
  BY <1>1
<1>3. QED
  BY <1>1, <1>2, AtTypes DEF Moved

(* What each action does to its job.                                        *)
LEMMA Moves ==
  ASSUME TypeOK, NEW c \in Callers
  PROVE  /\ Acquire(c) => Moved(c, "asking", 0) /\ job'[c].waited = 0
         /\ Granted(c) => Moved(c, "calling", 0)
         /\ Refused(c) => Moved(c, "napping", Nap(c)) /\ Nap(c) \in 1..MaxNap
         /\ AskAgain(c) => Moved(c, "asking", 0)
         /\ LocalSlot(c) \/ RetryCall(c) => Moved(c, "calling", 0)
         /\ Call(c) => Moved(c, "idle", 0)
         /\ AskFails(c) => \E t \in 0..Fallback : Moved(c, "pacing", t)
         /\ CallRefused(c) => Moved(c, "retrying", Fallback)
         /\ Skipped(c) \/ RunEnds(c) \/ Crash(c) => Moved(c, "idle", 0)
<1>0. job[c] \in JobRecord /\ job[c].local \in 0..Fallback
  BY DEF TypeOK, JobRecord, LocalHorizon
<1>n. 0 \in Nat /\ 0 \in 0..LocalHorizon
  BY Numbers DEF LocalHorizon
<1>t. 0 \in Int /\ Fallback \in Int /\ Fallback \in Nat
  BY Numbers
<1>p. /\ "asking" \in Pcs /\ "calling" \in Pcs /\ "napping" \in Pcs /\ "idle" \in Pcs
      /\ "pacing" \in Pcs /\ "retrying" \in Pcs
  BY DEF Pcs
<1>l. [job[c] EXCEPT !.local = 0] \in JobRecord
  BY <1>0, <1>n, LocalTypes
<1>1. ASSUME Acquire(c) PROVE Moved(c, "asking", 0) /\ job'[c].waited = 0
  <2> DEFINE r == [job[c] EXCEPT !.waited = 0]
  <2>1. r \in JobRecord /\ r.waited = 0
    BY <1>0, <1>n, WaitedTypes
  <2>2. job' = [job EXCEPT ![c] = At(r, "asking", 0)]
    BY <1>1 DEF Acquire
  <2> HIDE DEF r
  <2>3. Moved(c, "asking", 0) /\ job'[c].waited = r.waited
    BY <1>p, <1>t, <2>1, <2>2, MovesTo
  <2>4. QED
    BY <2>1, <2>3
<1>2. ASSUME Granted(c) \/ LocalSlot(c) PROVE Moved(c, "calling", 0)
  <2>1. job' = [job EXCEPT ![c] = At([job[c] EXCEPT !.local = 0], "calling", 0)]
    BY <1>2 DEF Granted, LocalSlot
  <2>2. QED
    BY <1>l, <1>p, <1>t, <2>1, MovesTo
<1>3. ASSUME Refused(c) PROVE Moved(c, "napping", Nap(c)) /\ Nap(c) \in 1..MaxNap
  <2>1. Nap(c) \in 1..MaxNap /\ Nap(c) \in Int /\ Waited(c) \in Nat
    BY <1>3, NapRange, Numbers DEF Refused
  <2> DEFINE r == [job[c] EXCEPT !.waited = Waited(c)]
  <2>2. r \in JobRecord
    BY <1>0, <2>1, WaitedTypes
  <2>3. job' = [job EXCEPT ![c] = At(r, "napping", Nap(c))]
    BY <1>3 DEF Refused
  <2> HIDE DEF r
  <2>4. QED
    BY <1>p, <2>1, <2>2, <2>3, MovesTo
<1>4. ASSUME AskAgain(c) PROVE Moved(c, "asking", 0)
  BY <1>0, <1>p, <1>t, <1>4, MovesTo DEF AskAgain
<1>5. ASSUME RetryCall(c) PROVE Moved(c, "calling", 0)
  BY <1>0, <1>p, <1>t, <1>5, MovesTo DEF RetryCall
<1>6. ASSUME Call(c) PROVE Moved(c, "idle", 0)
  BY <1>0, <1>p, <1>t, <1>6, MovesTo DEF Call
<1>7. ASSUME AskFails(c) PROVE \E t \in 0..Fallback : Moved(c, "pacing", t)
  <2>1. Fallback - job[c].local \in 0..Fallback /\ Fallback - job[c].local \in Int
    BY <1>0, <1>t
  <2> DEFINE t == Fallback - job[c].local
  <2>2. job' = [job EXCEPT ![c] = At(job[c], "pacing", t)]
    BY <1>7 DEF AskFails
  <2> HIDE DEF t
  <2>3. t \in 0..Fallback /\ t \in Int
    BY <2>1 DEF t
  <2>4. Moved(c, "pacing", t)
    BY <1>0, <1>p, <2>2, <2>3, MovesTo
  <2>5. QED
    BY <2>3, <2>4
<1>8. ASSUME CallRefused(c) PROVE Moved(c, "retrying", Fallback)
  BY <1>0, <1>p, <1>t, <1>8, MovesTo DEF CallRefused
<1>9. ASSUME Skipped(c) \/ RunEnds(c) \/ Crash(c) PROVE Moved(c, "idle", 0)
  <2>1. job' = [job EXCEPT ![c] = Idle]
    BY <1>9 DEF Skipped, RunEnds, Crash
  <2>2. job'[c] = Idle
    BY <2>1 DEF TypeOK
  <2>3. Idle.timer = 0
    BY DEF Idle
  <2>4. QED
    BY <2>1, <2>2, <2>3, IdleOK DEF Moved
<1>10. QED
  BY <1>1, <1>2, <1>3, <1>4, <1>5, <1>6, <1>7, <1>8, <1>9

(* Rewriting one job well, and the tables well, keeps the types.            *)
LEMMA JobStep ==
  ASSUME TypeOK, NEW c \in Callers, NEW pc, NEW timer, Moved(c, pc, timer),
         DeadlineOK(job'[c]), SlotTypeOK', RestTypeOK'
  PROVE  TypeOK'
<1>1. JobsTypeOK'
  BY DEF TypeOK, JobsTypeOK, Moved
<1>2. QED
  BY <1>1, TypeParts

(* Every step of a job keeps the types: one case per action.                *)
LEMMA JobTypes ==
  ASSUME TypeOK, NEW c \in Callers,
         Acquire(c) \/ Step(c) \/ AskFails(c) \/ CallRefused(c) \/ RunEnds(c) \/ Crash(c)
  PROVE  TypeOK'
<1>s. ASSUME UNCHANGED slotVars PROVE SlotTypeOK'
  BY <1>s DEF slotVars, SlotTypeOK, TypeOK
<1>1. CASE Acquire(c)
  <2>1. Moved(c, "asking", 0)
    BY <1>1, Moves
  <2>2. DeadlineOK(job'[c])
    BY <2>1, Numbers DEF Moved, DeadlineOK
  <2>3. SlotTypeOK'
    BY <1>1, <1>s DEF Acquire
  <2>4. RestTypeOK'
    BY <1>1, Numbers DEF Acquire, RestTypeOK, TypeOK
  <2>5. QED
    BY <2>1, <2>2, <2>3, <2>4, JobStep
<1>2. CASE Granted(c)
  <2>1. Moved(c, "calling", 0)
    BY <1>2, Moves
  <2>2. DeadlineOK(job'[c])
    BY <2>1, Numbers DEF Moved, DeadlineOK
  <2>3. SlotTypeOK'
    BY <1>2, CommitTypes DEF Granted
  <2>4. RestTypeOK'
    BY <1>2, Numbers DEF Granted, RestTypeOK, TypeOK
  <2>5. QED
    BY <2>1, <2>2, <2>3, <2>4, JobStep
<1>3. CASE Skipped(c)
  <2>1. Moved(c, "idle", 0)
    BY <1>3, Moves
  <2>2. DeadlineOK(job'[c])
    BY <2>1, Numbers DEF Moved, DeadlineOK
  <2>3. SlotTypeOK'
    BY <1>3, CommitTypes DEF Skipped
  <2>4. RestTypeOK'
    BY <1>3, Numbers DEF Skipped, RestTypeOK, TypeOK
  <2>5. QED
    BY <2>1, <2>2, <2>3, <2>4, JobStep
<1>4. CASE Refused(c)
  <2>1. Moved(c, "napping", Nap(c)) /\ Nap(c) \in 1..MaxNap
    BY <1>4, Moves
  <2>2. DeadlineOK(job'[c])
    BY <2>1, Numbers DEF Moved, DeadlineOK
  <2>3. SlotTypeOK'
    BY <1>4, CommitTypes DEF Refused
  <2>4. RestTypeOK'
    BY <1>4, Numbers DEF Refused, RestTypeOK, TypeOK
  <2>5. QED
    BY <2>1, <2>2, <2>3, <2>4, JobStep
<1>5. CASE AskAgain(c)
  <2>1. Moved(c, "asking", 0)
    BY <1>5, Moves
  <2>2. DeadlineOK(job'[c])
    BY <2>1, Numbers DEF Moved, DeadlineOK
  <2>3. SlotTypeOK'
    BY <1>5, <1>s DEF AskAgain
  <2>4. RestTypeOK'
    BY <1>5, Numbers DEF AskAgain, RestTypeOK, TypeOK
  <2>5. QED
    BY <2>1, <2>2, <2>3, <2>4, JobStep
<1>6. CASE LocalSlot(c)
  <2>1. Moved(c, "calling", 0)
    BY <1>6, Moves
  <2>2. DeadlineOK(job'[c])
    BY <2>1, Numbers DEF Moved, DeadlineOK
  <2>3. SlotTypeOK'
    BY <1>6, <1>s DEF LocalSlot
  <2>4. RestTypeOK'
    BY <1>6, Numbers DEF LocalSlot, RestTypeOK, TypeOK
  <2>5. QED
    BY <2>1, <2>2, <2>3, <2>4, JobStep
<1>7. CASE RetryCall(c)
  <2>1. Moved(c, "calling", 0)
    BY <1>7, Moves
  <2>2. DeadlineOK(job'[c])
    BY <2>1, Numbers DEF Moved, DeadlineOK
  <2>3. SlotTypeOK'
    BY <1>7, <1>s DEF RetryCall
  <2>4. RestTypeOK'
    BY <1>7, Numbers DEF RetryCall, RestTypeOK, TypeOK
  <2>5. QED
    BY <2>1, <2>2, <2>3, <2>4, JobStep
<1>8. CASE Call(c)
  <2>1. Moved(c, "idle", 0)
    BY <1>8, Moves
  <2>2. DeadlineOK(job'[c])
    BY <2>1, Numbers DEF Moved, DeadlineOK
  <2>3. SlotTypeOK'
    BY <1>8, <1>s DEF Call
  <2>4. RestTypeOK'
    BY <1>8, Numbers DEF Call, RestTypeOK, TypeOK
  <2>5. QED
    BY <2>1, <2>2, <2>3, <2>4, JobStep
<1>9. CASE AskFails(c)
  <2>1. PICK t \in 0..Fallback : Moved(c, "pacing", t)
    BY <1>9, Moves
  <2>2. DeadlineOK(job'[c])
    BY <2>1, Numbers DEF Moved, DeadlineOK
  <2>3. SlotTypeOK'
    BY <1>9, <1>s, CommitTypes DEF AskFails
  <2>4. RestTypeOK'
    BY <1>9, Numbers DEF AskFails, FaultsLeft, RestTypeOK, TypeOK
  <2>5. QED
    BY <2>1, <2>2, <2>3, <2>4, JobStep
<1>10. CASE CallRefused(c)
  <2>1. Moved(c, "retrying", Fallback)
    BY <1>10, Moves
  <2>2. DeadlineOK(job'[c])
    BY <2>1, Numbers DEF Moved, DeadlineOK
  <2>3. SlotTypeOK'
    BY <1>10, <1>s DEF CallRefused
  <2>4. RestTypeOK'
    BY <1>10, Numbers DEF CallRefused, FaultsLeft, RestTypeOK, TypeOK
  <2>5. QED
    BY <2>1, <2>2, <2>3, <2>4, JobStep
<1>11. CASE RunEnds(c)
  <2>1. Moved(c, "idle", 0)
    BY <1>11, Moves
  <2>2. DeadlineOK(job'[c])
    BY <2>1, Numbers DEF Moved, DeadlineOK
  <2>3. SlotTypeOK'
    BY <1>11, <1>s DEF RunEnds
  <2>4. RestTypeOK'
    BY <1>11, Numbers DEF RunEnds, RestTypeOK, TypeOK
  <2>5. QED
    BY <2>1, <2>2, <2>3, <2>4, JobStep
<1>12. CASE Crash(c)
  <2>1. Moved(c, "idle", 0)
    BY <1>12, Moves
  <2>2. DeadlineOK(job'[c])
    BY <2>1, Numbers DEF Moved, DeadlineOK
  <2>3. SlotTypeOK'
    BY <1>12, <1>s DEF Crash
  <2>4. RestTypeOK'
    BY <1>12, Numbers DEF Crash, FaultsLeft, RestTypeOK, TypeOK
  <2>5. QED
    BY <2>1, <2>2, <2>3, <2>4, JobStep
<1>13. QED
  BY <1>1, <1>2, <1>3, <1>4, <1>5, <1>6, <1>7, <1>8, <1>9, <1>10, <1>11, <1>12 DEF Step

(* What one tick does to a job that is on time.                             *)
LEMMA PassesOK ==
  ASSUME NEW j \in JobRecord, DeadlineOK(j), OnTime(j)
  PROVE  /\ Passes(j) \in JobRecord /\ DeadlineOK(Passes(j))
         /\ Passes(j).pc = j.pc /\ Passes(j).waited = j.waited
         /\ j.pc \in {"asking", "calling"} => Passes(j).timer = j.timer + 1
         /\ j.pc = "napping" => Passes(j).timer = j.timer - 1
<1> USE Numbers
<1> DEFINE l == Older(j.local, LocalHorizon)
           t == CASE j.pc \in {"asking", "calling"} -> j.timer + 1
                  [] j.pc \in Sleeping -> j.timer - 1
                  [] OTHER -> j.timer
<1>1. Passes(j) = [j EXCEPT !.local = l, !.timer = t]
  BY DEF Passes
<1>2. l \in 0..LocalHorizon
  BY DEF JobRecord, Older, LocalHorizon
<1>3. /\ t \in Int
      /\ j.pc \in {"asking", "calling"} => t = j.timer + 1
      /\ j.pc \in Sleeping => t = j.timer - 1
  BY DEF JobRecord, Sleeping
<1> HIDE DEF l, t
<1>4. Passes(j) \in JobRecord /\ Passes(j).pc = j.pc /\ Passes(j).waited = j.waited
      /\ Passes(j).timer = t
  BY <1>1, <1>2, <1>3 DEF JobRecord
<1>5. DeadlineOK(Passes(j))
  BY <1>3, <1>4 DEF DeadlineOK, OnTime, Sleeping, JobRecord
<1>6. QED
  BY <1>3, <1>4, <1>5 DEF Sleeping

(* A tick keeps the types, because nobody is late when it comes.            *)
LEMMA TickTypes == TypeOK /\ Tick => TypeOK'
<1> SUFFICES ASSUME TypeOK, Tick PROVE TypeOK'
  OBVIOUS
<1> USE Numbers
<1>1. SlotTypeOK'
  BY DEF TypeOK, Tick, SlotTypeOK, Older, GrantHorizon, AskHorizon
<1>2. JobsTypeOK'
  BY PassesOK DEF TypeOK, Tick, JobsTypeOK
<1>3. RestTypeOK'
  BY DEF TypeOK, Tick, RestTypeOK, Older
<1>4. QED
  BY <1>1, <1>2, <1>3, TypeParts

(* TypeOK is inductive.                                                     *)
LEMMA NextTypeOK == TypeOK /\ [Next]_vars => TypeOK'
<1>1. TypeOK /\ UNCHANGED vars => TypeOK'
  BY DEF vars, slotVars, TypeOK
<1>2. QED
  BY <1>1, JobTypes, TickTypes DEF Next

(* Types, and deadlines kept: no transaction outlasts its lock wait, no     *)
(* sleeper oversleeps, no grant goes unused for longer than CallDelay.      *)
THEOREM TypeCorrect == Spec => []TypeOK
<1>1. Init => TypeOK
  BY Numbers, IdleOK DEF Init, TypeOK, GrantHorizon, AskHorizon
<1>2. QED
  BY <1>1, NextTypeOK, PTL DEF Spec

-----------------------------------------------------------------------------
(* Spacing. The recorded grant is at most MaxLag older than the real one,   *)
(* the request at most CallDelay younger: so the last request is at most    *)
(* MaxLag + CallDelay ticks younger than last_acquired_at says, and a       *)
(* holder of the slot is the one that took it last.                         *)
SpacedInv ==
  strays = 0 =>
    /\ CallsSpaced
    /\ \A c \in Callers : job[c].pc \notin {"pacing", "retrying"}
    /\ \A c \in Callers : Calling(c) => sinceGrant <= job[c].timer + MaxLag
    /\ sinceCall >= Published \/ sinceGrant <= sinceCall + MaxLag + CallDelay

(* SpacedInv is inductive: one case per group of actions.                   *)
LEMMA NextSpaced == TypeOK /\ SpacedInv /\ [Next]_vars => SpacedInv'
<1> SUFFICES ASSUME TypeOK, SpacedInv, [Next]_vars, strays' = 0 PROVE SpacedInv'
  BY DEF SpacedInv
<1> USE Numbers DEF SpacedInv, CallsSpaced, Calling
<1>0. /\ \A c \in Callers : job[c] \in JobRecord /\ DeadlineOK(job[c]) /\ job[c].timer \in Int
      /\ job \in [Callers -> JobRecord]
      /\ sinceGrant \in Nat /\ sinceCall \in 0..Published /\ strays \in Nat
  BY DEF TypeOK, JobRecord, GrantHorizon
<1>1. ASSUME NEW c \in Callers, Acquire(c) \/ AskAgain(c) \/ RunEnds(c) \/ Crash(c)
      PROVE  SpacedInv'
  <2>1. /\ strays = 0 /\ UNCHANGED <<sinceGrant, sinceCall>>
        /\ \A d \in Callers : job'[d] = job[d] \/ job'[d].pc \in {"idle", "asking"}
    BY <1>0, <1>1, Moves DEF Acquire, AskAgain, RunEnds, Crash, slotVars, Moved
  <2>2. QED
    BY <1>0, <2>1
<1>2. ASSUME NEW c \in Callers, Skipped(c) \/ Refused(c) PROVE SpacedInv'
  <2>1. /\ strays = 0 /\ UNCHANGED <<sinceGrant, sinceCall>>
        /\ \A d \in Callers : job'[d] = job[d] \/ job'[d].pc \in {"idle", "napping"}
    BY <1>0, <1>2, Moves DEF Skipped, Refused, Commit, Moved
  <2>2. QED
    BY <1>0, <2>1
<1>3. ASSUME NEW c \in Callers, Granted(c) PROVE SpacedInv'
  <2>1. Lag(c) \in 0..MaxLag
    BY <1>0, <1>3 DEF Granted, DeadlineOK, Lag
  <2>2. sinceGrant >= Interval
    <3>1. ~(GateWait(c) > 0)
      BY <1>3 DEF Granted, Verdict
    <3>2. QED
      BY <1>0, <2>1, <3>1 DEF GateWait
  <2>3. strays = 0 /\ UNCHANGED sinceCall /\ sinceGrant' = Lag(c)
    BY <1>3 DEF Granted, Commit
  <2>4. sinceCall >= Published
    BY <1>0, <2>2, <2>3
  <2>5. \A d \in Callers : ~Calling(d)
    BY <1>0, <2>2, <2>3 DEF DeadlineOK
  <2>6. \A d \in Callers : /\ d # c => job'[d] = job[d]
                           /\ d = c => job'[d].pc = "calling" /\ job'[d].timer = 0
    BY <1>0, <1>3, Moves DEF Moved
  <2>7. QED
    BY <1>0, <2>1, <2>3, <2>4, <2>5, <2>6
<1>4. ASSUME NEW c \in Callers, LocalSlot(c) \/ RetryCall(c) PROVE FALSE
  BY <1>4 DEF LocalSlot, RetryCall
<1>5. ASSUME NEW c \in Callers, Call(c) PROVE SpacedInv'
  <2>1. /\ strays = 0 /\ UNCHANGED sinceGrant /\ sinceCall' = 0
        /\ \A d \in Callers : /\ d # c => job'[d] = job[d]
                              /\ d = c => job'[d].pc = "idle"
    BY <1>0, <1>5, Moves DEF Call, slotVars, Moved
  <2>2. \A d \in Callers : job'[d].pc # "calling"
    BY <1>0, <1>5, <2>1 DEF Call
  <2>3. sinceGrant <= MaxLag + CallDelay
    BY <1>0, <1>5, <2>1 DEF Call, DeadlineOK
  <2>4. QED
    BY <1>0, <2>1, <2>2, <2>3
<1>6. ASSUME NEW c \in Callers, AskFails(c) \/ CallRefused(c) PROVE FALSE
  BY <1>0, <1>6 DEF AskFails, CallRefused
<1>7. CASE Tick
  <2>1. \A c \in Callers :
          /\ job'[c].pc = job[c].pc
          /\ job[c].pc = "calling" => job'[c].timer = job[c].timer + 1
    BY <1>0, <1>7, PassesOK DEF Tick
  <2>2. /\ strays = 0
        /\ sinceCall' = Older(sinceCall, Published)
        /\ sinceGrant' = Older(sinceGrant, GrantHorizon)
    BY <1>7 DEF Tick
  <2>3. sinceGrant' <= sinceGrant + 1 /\ sinceGrant' \in Nat
    BY <1>0, <2>2 DEF Older, TypeOK, GrantHorizon
  <2>4. sinceCall' \in Nat /\ (sinceCall' = sinceCall + 1 \/ sinceCall' >= Published)
    BY <1>0, <2>2 DEF Older
  <2>5. sinceCall >= Published => sinceCall' >= Published
    BY <1>0, <2>2 DEF Older
  <2>6. QED
    BY <1>0, <2>1, <2>2, <2>3, <2>4, <2>5
<1>8. CASE UNCHANGED vars
  BY <1>8 DEF vars, slotVars
<1>9. QED
  BY <1>1, <1>2, <1>3, <1>4, <1>5, <1>6, <1>7, <1>8 DEF Next, Step

(* While every ask is answered the vendor never sees two requests closer    *)
(* than its published interval, for any number of jobs and classes: the     *)
(* margin of the interval covers lock waits and the way to the vendor.      *)
THEOREM RequestsSpaced == Spec => []AnsweredCallsSpaced
<1>1. Init => SpacedInv
  BY Numbers, IdleOK DEF Init, SpacedInv, CallsSpaced, Calling
<1>2. SpacedInv => AnsweredCallsSpaced
  BY DEF SpacedInv, AnsweredCallsSpaced
<1>3. QED
  BY <1>1, <1>2, NextSpaced, TypeCorrect, PTL DEF Spec

-----------------------------------------------------------------------------
(* Refinement. A request is allowed, or the account has an excuse by then;  *)
(* an ask without an answer is an excuse; a tick passes.                    *)
LEMMA StepsForVendor == TypeOK /\ SpacedInv /\ [Next]_vars => [Vendor!Next]_(Vendor!vars)
<1> SUFFICES ASSUME TypeOK, SpacedInv, [Next]_vars PROVE [Vendor!Next]_(Vendor!vars)
  OBVIOUS
<1>0. sinceCall \in 0..Published /\ strays \in Nat /\ Published \in Nat \ {0}
  BY Numbers DEF TypeOK
<1>1. ASSUME NEW c \in Callers, Call(c) \/ CallRefused(c) PROVE Vendor!Request
  <2>1. sinceCall' = 0 /\ (strays > 0 => strays' > 0)
    BY <1>0, <1>1 DEF Call, CallRefused
  <2>2. sinceCall >= Published \/ strays' > 0
    BY <1>0, <1>1 DEF Call, CallRefused, SpacedInv, CallsSpaced, Calling
  <2>3. QED
    BY <2>1, <2>2 DEF Vendor!Request, Vendor!Due
<1>2. ASSUME NEW c \in Callers, AskFails(c) PROVE Vendor!Excuse
  BY <1>0, <1>2 DEF AskFails, Vendor!Excuse
<1>3. ASSUME NEW c \in Callers,
             Acquire(c) \/ Granted(c) \/ Skipped(c) \/ Refused(c) \/ AskAgain(c)
               \/ LocalSlot(c) \/ RetryCall(c) \/ RunEnds(c) \/ Crash(c)
      PROVE  UNCHANGED <<sinceCall, strays>>
  BY <1>3 DEF Acquire, Granted, Skipped, Refused, AskAgain, LocalSlot, RetryCall, RunEnds, Crash
<1>4. CASE Tick
  <2>1. sinceCall' = Older(sinceCall, Published) /\ strays' = strays
    BY <1>4 DEF Tick
  <2>2. CASE sinceCall < Published
    BY <1>0, <2>1, <2>2 DEF Older, Vendor!Passes, Vendor!Next
  <2>3. CASE sinceCall = Published
    BY <1>0, <2>1, <2>3 DEF Older, Vendor!vars
  <2>4. QED
    BY <1>0, <2>2, <2>3
<1>5. UNCHANGED <<sinceCall, strays>> => UNCHANGED Vendor!vars
  BY DEF Vendor!vars
<1>6. CASE UNCHANGED vars
  BY <1>5, <1>6 DEF vars
<1>7. QED
  BY <1>1, <1>2, <1>3, <1>4, <1>5, <1>6 DEF Next, Step, Vendor!Next

(* All jobs together are an account that keeps to the vendor's limit until  *)
(* it has an excuse: the slot implements VendorLimit, for any number of     *)
(* jobs and classes.                                                        *)
THEOREM KeepsVendorLimit == Spec => WithinVendorLimit
<1>1. Init => Vendor!Init
  BY Numbers DEF Init, Vendor!Init
<1>2. Init => SpacedInv
  BY Numbers, IdleOK DEF Init, SpacedInv, CallsSpaced, Calling
<1>3. QED
  BY <1>1, <1>2, NextSpaced, StepsForVendor, TypeCorrect, PTL
     DEF Spec, WithinVendorLimit, Vendor!Spec

-----------------------------------------------------------------------------
(* Priority. A waiting job's last sign of life is as old as its nap and its *)
(* lateness, at most, plus the lock wait of the ask that left it.           *)
AliveInv ==
  \A c \in Callers : ClassOf[c] \in Classes =>
    /\ job[c].pc = "napping" =>
         sinceAsk[ClassOf[c]] <= MaxNap - job[c].timer + MaxLag
    /\ job[c].pc = "asking" /\ job[c].waited > 0 =>
         sinceAsk[ClassOf[c]] <= MaxNap + Jitter + MaxLag + job[c].timer

(* AliveInv is inductive: one case per group of actions.                    *)
LEMMA NextAlive == TypeOK /\ AliveInv /\ [Next]_vars => AliveInv'
<1> SUFFICES ASSUME TypeOK, AliveInv, [Next]_vars PROVE AliveInv'
  OBVIOUS
<1> USE Numbers DEF AliveInv
<1>0. /\ \A c \in Callers : /\ job[c] \in JobRecord /\ DeadlineOK(job[c])
                            /\ job[c].timer \in Int /\ job[c].waited \in Nat
      /\ job \in [Callers -> JobRecord]
      /\ sinceAsk \in [Classes -> Nat]
  BY DEF TypeOK, JobRecord, AskHorizon
<1>1. ASSUME NEW c \in Callers,
             Acquire(c) \/ LocalSlot(c) \/ RetryCall(c) \/ Call(c) \/ CallRefused(c)
               \/ RunEnds(c) \/ Crash(c)
      PROVE  AliveInv'
  <2>1. /\ UNCHANGED sinceAsk
        /\ \A d \in Callers : \/ job'[d] = job[d]
                              \/ job'[d].pc \notin {"napping", "asking"}
                              \/ job'[d].pc = "asking" /\ job'[d].waited = 0
    BY <1>0, <1>1, Moves DEF Acquire, LocalSlot, RetryCall, Call, CallRefused, RunEnds,
                             Crash, slotVars, Moved
  <2>2. QED
    BY <1>0, <2>1
<1>2. ASSUME NEW c \in Callers, AskAgain(c) PROVE AliveInv'
  <2>1. /\ UNCHANGED sinceAsk
        /\ \A d \in Callers : /\ d # c => job'[d] = job[d]
                              /\ d = c => job'[d].pc = "asking" /\ job'[d].timer = 0
        /\ job[c].pc = "napping" /\ job[c].timer >= -Jitter
    <3>1. Moved(c, "asking", 0)
      BY <1>2, Moves
    <3>2. job[c].pc = "napping" /\ job[c].timer >= -Jitter
      BY <1>0, <1>2 DEF AskAgain, DeadlineOK
    <3>3. QED
      BY <1>0, <1>2, <3>1, <3>2 DEF AskAgain, slotVars, Moved
  <2>2. QED
    BY <1>0, <2>1
<1>3. ASSUME NEW c \in Callers, job[c].pc = "asking", Commit(c),
             \A d \in Callers : d # c => job'[d] = job[d],
             job'[c].pc # "asking",
             job'[c].pc = "napping" => job'[c].timer <= MaxNap /\ job'[c].timer \in Int
      PROVE  AliveInv'
  <2>1. Lag(c) \in 0..MaxLag
    BY <1>0, <1>3 DEF DeadlineOK, Lag
  <2>2. sinceAsk' = [k \in Classes |-> IF k = ClassOf[c] THEN Lag(c) ELSE sinceAsk[k]]
    BY <1>3 DEF Commit, Asked
  <2>3. ASSUME NEW d \in Callers, ClassOf[d] \in Classes
        PROVE  /\ job'[d].pc = "napping" =>
                    sinceAsk'[ClassOf[d]] <= MaxNap - job'[d].timer + MaxLag
               /\ job'[d].pc = "asking" /\ job'[d].waited > 0 =>
                    sinceAsk'[ClassOf[d]] <= MaxNap + Jitter + MaxLag + job'[d].timer
    <3>1. CASE d = c
      BY <1>3, <2>1, <2>2, <2>3, <3>1
    <3>2. CASE d # c /\ ClassOf[d] = ClassOf[c]
      <4>1. job'[d] = job[d] /\ sinceAsk'[ClassOf[d]] = Lag(c)
        BY <1>3, <2>2, <2>3, <3>2
      <4>2. /\ job[d].pc = "napping" => job[d].timer <= MaxNap
            /\ job[d].pc = "asking" => job[d].timer >= 0
        BY <1>0 DEF DeadlineOK
      <4>3. QED
        BY <1>0, <2>1, <4>1, <4>2
    <3>3. CASE d # c /\ ClassOf[d] # ClassOf[c]
      BY <1>0, <1>3, <2>2, <2>3, <3>3
    <3>4. QED
      BY <3>1, <3>2, <3>3
  <2>4. QED
    BY <2>3
<1>4. ASSUME NEW c \in Callers, Granted(c) \/ Skipped(c) \/ Refused(c) \/ AskFails(c)
      PROVE  AliveInv'
  <2>1. /\ job[c].pc = "asking" /\ \A d \in Callers : d # c => job'[d] = job[d]
        /\ job'[c].pc \in {"calling", "idle", "napping", "pacing"}
    BY <1>0, <1>4, Moves DEF Granted, Skipped, Refused, AskFails, Moved
  <2>2. CASE Refused(c)
    <3>1. job'[c].timer = Nap(c) /\ Nap(c) \in 1..MaxNap
      BY <2>2, Moves DEF Moved
    <3>2. QED
      BY <1>3, <2>1, <2>2, <3>1 DEF Refused
  <2>3. CASE Granted(c) \/ Skipped(c)
    <3>1. job'[c].pc # "napping" /\ Commit(c)
      BY <2>3, Moves DEF Granted, Skipped, Moved
    <3>2. QED
      BY <1>3, <2>1, <3>1
  <2>4. CASE AskFails(c)
    <3>1. job'[c].pc = "pacing"
      BY <2>4, Moves DEF Moved
    <3>2. CASE Commit(c)
      BY <1>3, <2>1, <3>1, <3>2
    <3>3. CASE UNCHANGED slotVars
      BY <1>0, <2>1, <3>1, <3>3 DEF slotVars
    <3>4. QED
      BY <2>4, <3>2, <3>3 DEF AskFails
  <2>5. QED
    BY <1>4, <2>2, <2>3, <2>4
<1>5. CASE Tick
  <2>1. \A c \in Callers :
          /\ job'[c].pc = job[c].pc /\ job'[c].waited = job[c].waited
          /\ job[c].pc = "asking" => job'[c].timer = job[c].timer + 1
          /\ job[c].pc = "napping" => job'[c].timer = job[c].timer - 1
    BY <1>0, <1>5, PassesOK DEF Tick
  <2>2. \A k \in Classes : sinceAsk'[k] <= sinceAsk[k] + 1 /\ sinceAsk'[k] \in Nat
    BY <1>5 DEF Tick, Older, TypeOK, AskHorizon
  <2>3. QED
    BY <1>0, <2>1, <2>2
<1>6. CASE UNCHANGED vars
  BY <1>6 DEF vars, slotVars
<1>7. QED
  BY <1>1, <1>2, <1>4, <1>5, <1>6 DEF Next, Step

(* The arithmetic that c_active_window has to satisfy.                      *)
WindowFits == MaxNap + Jitter + 2 * MaxLag < ActiveWindow

(* A bulk job is granted a slot while an essential one waits: only when     *)
(* the class of the latter has no calls left.                               *)
LEMMA PriorityStep ==
  ASSUME WindowFits, TypeOK, AliveInv, [Next]_vars,
         NEW b \in Callers, NEW e \in Callers,
         ClassOf[b] \in Bulk, job[b].pc = "asking", job'[b].pc = "calling",
         ClassOf[e] \in Essential, Waiting(e)
  PROVE  Spent(b, ClassOf[e])
<1> USE Numbers
<1>0. /\ \A c \in Callers : /\ job[c] \in JobRecord /\ DeadlineOK(job[c])
                            /\ job[c].timer \in Int
      /\ job \in [Callers -> JobRecord]
      /\ sinceAsk \in [Classes -> Nat]
      /\ ClassOf[e] \in Classes
  BY ProviderSlotAssumption DEF TypeOK, JobRecord, AskHorizon
<1>1. Granted(b)
  <2>1. ASSUME NEW c \in Callers, Acquire(c) \/ Skipped(c) \/ Refused(c) \/ AskAgain(c)
                 \/ LocalSlot(c) \/ RetryCall(c) \/ Call(c) \/ AskFails(c) \/ CallRefused(c)
                 \/ RunEnds(c) \/ Crash(c)
        PROVE  FALSE
    <3>1. /\ \A d \in Callers : d # c => job'[d] = job[d]
          /\ job'[c].pc = "calling" => job[c].pc \in {"pacing", "retrying"}
      BY <1>0, <2>1, Moves DEF Moved, LocalSlot, RetryCall
    <3>2. QED
      BY <3>1
  <2>2. ASSUME NEW c \in Callers, Granted(c), c # b PROVE FALSE
    BY <1>0, <2>2 DEF Granted
  <2>3. CASE Tick
    BY <1>0, <2>3, PassesOK DEF Tick
  <2>4. CASE UNCHANGED vars
    BY <2>4 DEF vars
  <2>5. QED
    BY <2>1, <2>2, <2>3, <2>4 DEF Next, Step
<1>2. ~EssentialActive(b)
  BY <1>1 DEF Granted, Verdict
<1>3. sinceAsk[ClassOf[e]] <= MaxNap + Jitter + 2 * MaxLag
  BY <1>0 DEF Waiting, AliveInv, DeadlineOK
<1>4. Lag(b) \in Nat
  BY <1>0 DEF Lag, DeadlineOK
<1>5. sinceAsk[ClassOf[e]] - Lag(b) < ActiveWindow
  BY <1>0, <1>3, <1>4 DEF WindowFits
<1>6. QED
  BY <1>2, <1>5 DEF EssentialActive

(* No bulk job is granted the slot an essential job waits for while that    *)
(* class has calls left, provided naps, late wake-ups and lock waits fit in *)
(* the activity window: the inequality migration 20260905 asks for.         *)
THEOREM PriorityHolds == ASSUME WindowFits PROVE Spec => EssentialFirst
<1>1. Init => AliveInv
  BY IdleOK DEF Init, AliveInv
<1>2. TypeOK /\ AliveInv /\ [Next]_vars =>
        [\A b, e \in Callers :
           /\ ClassOf[b] \in Bulk /\ job[b].pc = "asking" /\ job'[b].pc = "calling"
           /\ ClassOf[e] \in Essential /\ Waiting(e)
           => Spent(b, ClassOf[e])]_vars
  BY PriorityStep
<1>3. QED
  BY <1>1, <1>2, NextAlive, TypeCorrect, PTL DEF Spec, EssentialFirst

-----------------------------------------------------------------------------
(* The daily cap. Counters can be rolled back to yesterday only as long as  *)
(* a transaction of yesterday may still wait for the lock; the gate lets    *)
(* one grant of today through in that time, so no more than one is          *)
(* forgotten.                                                               *)
UsedToday(k) == IF quotaDay = "today" THEN used[k] ELSE 0
Early == hour < MaxLag
CapInv ==
  /\ \A k \in Bulk : Entitlement[k] # Uncapped => used[k] <= Entitlement[k]
  /\ ~Early => \A k \in Classes : granted[k] <= UsedToday(k) + MaxForgotten
  /\ Early => \A k \in Classes : granted[k] <= 1 /\ (granted[k] > 0 => sinceGrant <= hour)

(* A transaction keeps the counters of capped classes within the cap, and   *)
(* forgets at most one of today's grants.                                   *)
LEMMA CommitCapped ==
  ASSUME TypeOK, CapInv, NEW c \in Callers, job[c].pc = "asking", Commit(c), hour' = hour
  PROVE  CapInv'
<1>1. /\ Lag(c) \in Nat /\ Lag(c) <= MaxLag /\ hour \in Nat /\ sinceGrant \in Nat
      /\ used \in [Classes -> Nat] /\ granted \in [Classes -> Nat] /\ Bulk \subseteq Classes
      /\ MaxLag \in Nat /\ Interval \in Nat /\ Interval > MaxLag
  BY Numbers DEF TypeOK, DeadlineOK, Lag, GrantHorizon, Bulk
<1>2. Rolled(c) \in [Classes -> Nat]
      /\ \A k \in Classes : Rolled(c)[k] \in {0, used[k]}
  BY <1>1 DEF Rolled
<1>3. ASSUME NEW k \in Bulk, Entitlement[k] # Uncapped PROVE used'[k] <= Entitlement[k]
  <2>1. Entitlement[k] \in Nat /\ Rolled(c)[k] <= Entitlement[k] /\ Rolled(c)[k] \in Nat
    BY <1>1, <1>2, <1>3, ProviderSlotAssumption DEF CapInv
  <2>2. CASE Verdict(c) = "GRANTED" /\ ClassOf[c] = k
    <3>1. ~Spent(c, k)
      BY <1>3, <2>2 DEF Verdict
    <3>2. Rolled(c)[k] < Entitlement[k]
      BY <1>3, <2>1, <3>1 DEF Spent
    <3> QED
      BY <1>1, <1>3, <2>1, <2>2, <3>2 DEF Commit, Charged
  <2>3. CASE ~(Verdict(c) = "GRANTED" /\ ClassOf[c] = k)
    BY <1>1, <1>3, <2>1, <2>3 DEF Commit, Charged
  <2> QED
    BY <2>2, <2>3
<1>4. ASSUME ~Early, NEW k \in Classes PROVE granted'[k] <= UsedToday(k)' + MaxForgotten
  <2>1. VToday(c) = "today"
    BY <1>1, <1>4 DEF Early, VToday
  <2>2. Rolled(c)[k] = UsedToday(k) /\ UsedToday(k) \in Nat /\ granted[k] \in Nat
        /\ MaxForgotten \in Nat
    BY <1>1, <1>4, <2>1 DEF Rolled, UsedToday, MaxForgotten
  <2>3. granted[k] <= UsedToday(k) + MaxForgotten
    BY <1>4 DEF CapInv
  <2>4. quotaDay' = "today" /\ UsedToday(k)' = used'[k]
    BY <2>1 DEF Commit, UsedToday
  <2>5. CASE Verdict(c) = "GRANTED" /\ ClassOf[c] = k
    <3>1. granted'[k] = granted[k] + 1 /\ used'[k] = Rolled(c)[k] + 1
      BY <1>4, <2>1, <2>5 DEF Commit, Counted, Charged
    <3> QED
      BY <2>2, <2>3, <2>4, <3>1
  <2>6. CASE ~(Verdict(c) = "GRANTED" /\ ClassOf[c] = k)
    <3>1. granted'[k] = granted[k] /\ used'[k] = Rolled(c)[k]
      BY <1>4, <2>1, <2>6 DEF Commit, Counted, Charged
    <3> QED
      BY <2>2, <2>3, <2>4, <3>1
  <2> QED
    BY <2>5, <2>6
<1>5. ASSUME Early, NEW k \in Classes
      PROVE  granted'[k] <= 1 /\ (granted'[k] > 0 => sinceGrant' <= hour)
  <2>1. granted[k] \in Nat /\ granted[k] <= 1 /\ (granted[k] > 0 => sinceGrant <= hour)
    BY <1>1, <1>5 DEF CapInv
  <2>2. CASE Verdict(c) # "GRANTED"
    BY <2>1, <2>2 DEF Commit
  <2>3. CASE Verdict(c) = "GRANTED"
    <3>1. sinceGrant >= Interval
      <4>1. ~(GateWait(c) > 0)
        BY <2>3 DEF Verdict
      <4> QED
        BY <1>1, <4>1 DEF GateWait
    <3>2. granted[k] = 0
      BY <1>1, <1>5, <2>1, <3>1 DEF Early
    <3>3. CASE VToday(c) = "today"
      <4>1. Lag(c) <= hour
        BY <1>1, <3>3 DEF VToday
      <4>2. granted'[k] <= 1 /\ sinceGrant' = Lag(c)
        BY <1>5, <2>3, <3>2, <3>3 DEF Commit, Counted, Charged
      <4> QED
        BY <4>1, <4>2
    <3>4. CASE VToday(c) # "today"
      <4>1. granted'[k] = 0
        BY <2>3, <3>2, <3>4 DEF Commit, Counted
      <4> QED
        BY <4>1
    <3> QED
      BY <3>3, <3>4
  <2> QED
    BY <2>2, <2>3
<1> QED
  BY <1>3, <1>4, <1>5 DEF CapInv, Early, MaxForgotten

LEMMA TickCapped ==
  ASSUME TypeOK, CapInv, Tick
  PROVE  CapInv'
<1>1. /\ hour \in 0..Day - 1 /\ sinceGrant \in 0..GrantHorizon /\ MaxLag \in Nat /\ Day \in Nat
      /\ used \in [Classes -> Nat] /\ granted \in [Classes -> Nat]
      /\ sinceGrant' <= sinceGrant + 1 /\ sinceGrant' \in Nat /\ used' = used
      /\ quotaDay' # "today" \/ (quotaDay' = quotaDay /\ hour + 1 # Day)
  BY Numbers DEF TypeOK, Tick, Older, GrantHorizon
<1>2. CASE hour + 1 = Day
  <2>1. hour' = 0 /\ \A k \in Classes : granted'[k] = 0
    BY <1>2 DEF Tick
  <2>2. \A k \in Classes : 0 <= UsedToday(k)' + MaxForgotten
    BY <1>1 DEF UsedToday, MaxForgotten
  <2> QED
    BY <1>1, <2>1, <2>2 DEF CapInv, MaxForgotten
<1>3. CASE hour + 1 # Day
  <2>1. hour' = hour + 1 /\ granted' = granted /\ quotaDay' = quotaDay
    BY <1>3 DEF Tick
  <2>2. ASSUME NEW k \in Classes
        PROVE  UsedToday(k)' = UsedToday(k) /\ UsedToday(k) \in Nat /\ granted[k] \in Nat
    BY <1>1, <2>1 DEF UsedToday
  <2>3. ~Early' => \A k \in Classes : granted'[k] <= UsedToday(k)' + MaxForgotten
    <3>1. CASE ~Early
      BY <2>1, <2>2, <3>1 DEF CapInv
    <3>2. CASE Early
      <4>1. MaxForgotten = 1
        BY <1>1, <3>2 DEF Early, MaxForgotten
      <4> QED
        BY <2>1, <2>2, <3>2, <4>1 DEF CapInv
    <3> QED
      BY <3>1, <3>2
  <2>4. Early' => \A k \in Classes : granted'[k] <= 1 /\ (granted'[k] > 0 => sinceGrant' <= hour')
    <3>1. Early' => Early
      BY <1>1, <2>1 DEF Early
    <3> QED
      BY <1>1, <2>1, <2>2, <3>1 DEF CapInv, Early
  <2> QED
    BY <1>1, <2>3, <2>4 DEF CapInv, MaxForgotten
<1> QED
  BY <1>2, <1>3

LEMMA NextCapped == TypeOK /\ CapInv /\ [Next]_vars => CapInv'
<1> SUFFICES ASSUME TypeOK, CapInv, [Next]_vars PROVE CapInv'
  OBVIOUS
<1>1. UNCHANGED <<slotVars, hour>> => CapInv'
  BY DEF slotVars, CapInv, Early, UsedToday, MaxForgotten
<1>2. ASSUME NEW c \in Callers, Granted(c) \/ Skipped(c) \/ Refused(c) PROVE CapInv'
  BY <1>2, CommitCapped DEF Granted, Skipped, Refused
<1>3. ASSUME NEW c \in Callers, AskFails(c) PROVE CapInv'
  BY <1>1, <1>3, CommitCapped DEF AskFails
<1>4. ASSUME NEW c \in Callers, Acquire(c) \/ AskAgain(c) \/ LocalSlot(c) \/ RetryCall(c)
               \/ Call(c) \/ CallRefused(c) \/ RunEnds(c) \/ Crash(c)
      PROVE  CapInv'
  BY <1>1, <1>4 DEF Acquire, AskAgain, LocalSlot, RetryCall, Call, CallRefused, RunEnds, Crash
<1> QED
  BY <1>1, <1>2, <1>3, <1>4, TickCapped DEF Next, Step, vars

(* A bulk class exceeds its daily entitlement by no more than the one call  *)
(* that a transaction of yesterday may wipe from the counters; by none, if  *)
(* transactions do not wait for the lock.                                   *)
THEOREM CapHolds == Spec => []BulkCapped
<1>1. Init => CapInv
  BY ProviderSlotAssumption DEF Init, CapInv, Bulk, UsedToday, MaxForgotten
<1>2. TypeOK /\ CapInv => BulkCapped
  <2> SUFFICES ASSUME TypeOK, CapInv, NEW k \in Bulk, Entitlement[k] # Uncapped
               PROVE  granted[k] <= Entitlement[k] + MaxForgotten
    BY DEF BulkCapped
  <2>1. /\ k \in Classes /\ Entitlement[k] \in Nat /\ used[k] \in Nat /\ granted[k] \in Nat
        /\ used[k] <= Entitlement[k] /\ hour \in Int /\ MaxLag \in Nat
    BY ProviderSlotAssumption, Numbers DEF Bulk, TypeOK, CapInv
  <2>2. CASE Early
    <3>1. MaxForgotten = 1 /\ granted[k] <= 1
      BY <2>1, <2>2, Numbers DEF Early, MaxForgotten, CapInv, TypeOK
    <3> QED
      BY <2>1, <3>1
  <2>3. CASE ~Early
    <3>1. granted[k] <= UsedToday(k) + MaxForgotten /\ MaxForgotten \in Nat
      BY <2>1, <2>3 DEF CapInv, MaxForgotten
    <3> QED
      BY <2>1, <3>1 DEF UsedToday
  <2> QED
    BY <2>2, <2>3
<1> QED
  BY <1>1, <1>2, NextCapped, TypeCorrect, PTL DEF Spec
=============================================================================
