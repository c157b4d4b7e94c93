--------------------------- MODULE Subscriptions ---------------------------
(***************************************************************************)
(* What one user may do: the entitlement row that the stores, the app and  *)
(* the admins write (subscription_service.py, subscription_webhooks.py,    *)
(* api_subscription.py, admin_user_service.py), and the monthly cap on the *)
(* scans of a free plan (check_and_bump_scan_usage).                       *)
(*                                                                         *)
(* Google's notification names a purchase token and is answered by asking  *)
(* Google again; Apple's carries the transaction it is about. Both stores  *)
(* deliver at least once, in any order, until they get a 2xx; an answer of *)
(* Google's that the token is invalid gets one too. The routes             *)
(* that handle them and /subscription/verify are async without an await in *)
(* the part that matters, so one is at work at a time; admins and scans    *)
(* run in threads of their own. The two paid plans are one.                *)
(***************************************************************************)
EXTENDS Integers, FiniteSets, Functions

CONSTANTS
  Tokens,       \* Google purchase tokens, bought in turn: 1..n
  Periods,      \* billing periods of Apple's subscription: 1..n
  Scans,        \* analyze requests at work at a time
  Days,         \* of one month: 1..n
  Limit,        \* subscription_free_monthly_scan_limit
  MaxInputs,    \* bound: requests and changes from outside
  MaxFaults     \* bound: requests to a store or the database that fail

ASSUME SubscriptionsAssumption ==
  /\ \A S \in {Tokens, Periods, Days} : 1 \in S /\ S \subseteq Nat \ {0}
  /\ IsFiniteSet(Days)
  /\ {Limit, MaxInputs, MaxFaults} \subseteq Nat

VARIABLES
  google,     \* subscriptionState of each token
  apple,      \* the latest transaction of the subscription
  now,        \* the billing period that runs
  inbox,      \* notifications not answered with a 2xx yet
  row,        \* user_subscriptions
  handler,    \* the request between asking a store and the upsert
  newest,     \* newest transaction ever applied (history)
  overtaken,  \* the last one applied was older than that (history)
  disowned,   \* tokens Google called invalid since it last signalled a change of
              \* them or had them granted (history)
  scan,       \* scan requests at the quota
  usage,      \* user_scan_usage, per day
  today,
  inputs,
  faults

stores == <<google, apple, now>>
entitled == <<row, handler, newest, overtaken, disowned>>
quota == <<scan, usage, today>>
vars == <<stores, inbox, entitled, quota, inputs, faults>>

States == {"ACTIVE", "IN_GRACE_PERIOD", "CANCELED", "EXPIRED"}
Unsold == "none"

Tx == [period : {0} \cup Periods, state : {"paid", "refunded"}]
NoTx == [period |-> 0, state |-> "paid"]

(* The order in which Apple signs them.                                     *)
Rank(tx) == 2 * tx.period + (IF tx.state = "paid" THEN 0 ELSE 1)

OfGoogle(t) == [store |-> "google_play", token |-> t, tx |-> NoTx]
OfApple(tx) == [store |-> "app_store", token |-> 0, tx |-> tx]
Events == {OfGoogle(t) : t \in Tokens} \cup {OfApple(tx) : tx \in Tx}

(* _DEFAULT_ENTITLEMENT.                                                    *)
Unclaimed == [plan |-> "free", status |-> "active"]
NoRow == [source |-> "none", grant |-> Unclaimed, token |-> 0, otid |-> FALSE]
NoRequest == [kind |-> "idle", event |-> OfApple(NoTx), grant |-> Unclaimed]
NoScan == [pc |-> "idle", day |-> 0, used |-> 0]

Init ==
  /\ google = [t \in Tokens |-> Unsold]
  /\ apple = NoTx
  /\ now = 1
  /\ inbox = {}
  /\ row = NoRow
  /\ handler = NoRequest
  /\ newest = NoTx
  /\ overtaken = FALSE
  /\ disowned = {}
  /\ scan = [s \in Scans |-> NoScan]
  /\ usage = [d \in Days |-> 0]
  /\ today = 1
  /\ inputs = 0
  /\ faults = 0

Input == inputs < MaxInputs /\ inputs' = inputs + 1 /\ UNCHANGED faults
Fault == faults < MaxFaults /\ faults' = faults + 1 /\ UNCHANGED inputs
Work == UNCHANGED <<inputs, faults>>

-----------------------------------------------------------------------------
(* The stores.                                                              *)

(* A token is bought, the next one when the last is known to Google, or its *)
(* state changes; Google signals it.                                        *)
GoogleChanges(t) ==
  /\ \E s \in States \ {google[t]} :
       /\ google[t] = Unsold => s = "ACTIVE" /\ \A u \in 1..(t - 1) : google[u] # Unsold
       /\ google' = [google EXCEPT ![t] = s]
  /\ inbox' = inbox \cup {OfGoogle(t)}
  /\ disowned' = disowned \ {t}
  /\ UNCHANGED <<apple, now, row, handler, newest, overtaken, quota>>
  /\ Input

(* SUBSCRIBED, DID_RENEW, REFUND.                                           *)
AppleSigns ==
  /\ \/ apple.period < now /\ apple' = [period |-> now, state |-> "paid"]
     \/ apple # NoTx /\ apple.state = "paid" /\ apple' = [apple EXCEPT !.state = "refunded"]
  /\ inbox' = inbox \cup {OfApple(apple')}
  /\ UNCHANGED <<google, now, entitled, quota>>
  /\ Input

(* EXPIRED, with the transaction it has.                                    *)
PeriodEnds ==
  /\ now + 1 \in Periods
  /\ now' = now + 1
  /\ inbox' = IF apple = NoTx THEN inbox ELSE inbox \cup {OfApple(apple)}
  /\ UNCHANGED <<google, apple, entitled, quota>>
  /\ Input

(* A notification is delivered once more, however old.                      *)
Redelivered(e) ==
  /\ \/ e.store = "google_play" /\ google[e.token] # Unsold
     \/ e.store = "app_store" /\ e.tx # NoTx /\ Rank(e.tx) <= Rank(apple)
  /\ inbox' = inbox \cup {e}
  /\ UNCHANGED <<stores, entitled, quota>>
  /\ Input

-----------------------------------------------------------------------------
(* The entitlement.                                                         *)

(* GooglePlayEntitlement.is_active and _status_from_google_state.           *)
GoogleGrant(state) ==
  [plan |-> IF state = "EXPIRED" THEN "free" ELSE "pro",
   status |-> CASE state = "ACTIVE" -> "active"
                [] state = "IN_GRACE_PERIOD" -> "in_grace"
                [] state = "CANCELED" -> "canceled"
                [] OTHER -> "expired"]

\* Mutant: a refunded transaction is active until its period ends.
AppleActiveUntilEnd(tx) == tx.period = now

(* AppleEntitlement.is_active, at the time it is asked.                     *)
AppleActive(tx) == tx.state = "paid" /\ tx.period = now

AppleGrant(tx) ==
  [plan |-> IF AppleActive(tx) THEN "pro" ELSE "free",
   status |-> IF tx.state = "refunded" THEN "canceled"
              ELSE IF AppleActive(tx) THEN "active" ELSE "expired"]

GrantOf(e) == IF e.store = "google_play" THEN GoogleGrant(google[e.token]) ELSE AppleGrant(e.tx)

(* _user_id_for_column.                                                     *)
Known(e) == IF e.store = "google_play" THEN row.token = e.token ELSE row.otid

Begin(kind, e) == handler' = [kind |-> kind, event |-> e, grant |-> GrantOf(e)]

\* Mutant: a notification that finds another request at work is acknowledged.
NotifiedUnlessBusy(e) ==
  /\ e \in inbox
  /\ inbox' = inbox \ {e}
  /\ IF handler.kind = "idle" /\ Known(e) THEN Begin("webhook", e) ELSE UNCHANGED handler
  /\ UNCHANGED <<stores, row, newest, overtaken, disowned, quota>>
  /\ Work

(* A webhook: a notification no row refers to is acknowledged.              *)
Notified(e) ==
  /\ handler.kind = "idle" /\ e \in inbox
  /\ inbox' = inbox \ {e}
  /\ IF Known(e) THEN Begin("webhook", e) ELSE UNCHANGED handler
  /\ UNCHANGED <<stores, row, newest, overtaken, disowned, quota>>
  /\ Work

(* /subscription/verify, with a token that was bought or the newest         *)
(* transaction.                                                             *)
AppVerifies(e) ==
  /\ handler.kind = "idle"
  /\ \/ e.store = "google_play" /\ google[e.token] # Unsold
     \/ e.store = "app_store" /\ e.tx = apple /\ apple # NoTx
  /\ Begin("verify", e)
  /\ UNCHANGED <<stores, inbox, row, newest, overtaken, disowned, quota>>
  /\ Input

\* Mutant: the row keeps the token it has.
UpsertFirstToken(e, grant) ==
  /\ row' = [source |-> e.store, grant |-> grant,
             token |-> IF row.token = 0 THEN e.token ELSE row.token,
             otid |-> row.otid \/ e.store = "app_store"]
  /\ disowned' = disowned \ {e.token}
  /\ UNCHANGED <<newest, overtaken>>

(* The upsert: resolution=merge-duplicates keeps the columns the request    *)
(* does not name, the other store's token or transaction id among them. No  *)
(* token is 0, the one of a transaction of Apple's.                         *)
Upsert(e, grant) ==
  /\ row' = [source |-> e.store, grant |-> grant,
             token |-> IF e.store = "google_play" THEN e.token ELSE row.token,
             otid |-> row.otid \/ e.store = "app_store"]
  /\ disowned' = disowned \ {e.token}
  /\ IF e.store = "app_store"
     THEN /\ overtaken' = (Rank(e.tx) < Rank(newest))
          /\ newest' = IF overtaken' THEN newest ELSE e.tx
     ELSE UNCHANGED <<newest, overtaken>>

Grants ==
  /\ handler.kind # "idle"
  /\ Upsert(handler.event, handler.grant)
  /\ handler' = NoRequest
  /\ UNCHANGED <<stores, inbox, quota>>
  /\ Work

\* Mutant: a webhook that fails is acknowledged.
UnansweredNever == {}

(* Not a 2xx: the store delivers it again.                                  *)
Unanswered == IF handler.kind = "webhook" THEN {handler.event} ELSE {}

(* The request fails, before or after the row was written.                  *)
GrantFails ==
  /\ handler.kind # "idle"
  /\ Upsert(handler.event, handler.grant) \/ UNCHANGED <<row, newest, overtaken, disowned>>
  /\ inbox' = inbox \cup Unanswered
  /\ handler' = NoRequest
  /\ UNCHANGED <<stores, quota>>
  /\ Fault

(* Google answers that the token is invalid (400, 404): the notification is *)
(* acknowledged and the row stays as it is.                                 *)
Refused(e) ==
  /\ handler.kind = "idle" /\ e \in inbox
  /\ e.store = "google_play" /\ Known(e)
  /\ inbox' = inbox \ {e}
  /\ disowned' = disowned \cup {e.token}
  /\ UNCHANGED <<stores, row, handler, newest, overtaken, quota>>
  /\ Fault

(* override_subscription.                                                   *)
AdminOverrides(plan) ==
  /\ row' = [row EXCEPT !.source = "admin_override",
                        !.grant = [plan |-> plan, status |-> "active"]]
  /\ UNCHANGED <<stores, inbox, handler, newest, overtaken, disowned, quota>>
  /\ Input

-----------------------------------------------------------------------------
(* The quota.                                                               *)

Outside == UNCHANGED <<stores, inbox, entitled>>
Used == SumFunction(usage)

MoveScan(s, r) == scan' = [scan EXCEPT ![s] = r]

(* check_scan_allowed reads the plan; a free one goes on to the function,   *)
(* whose transaction keeps the day it began on.                             *)
ScanStarts(s) ==
  /\ scan[s].pc = "idle" /\ row.grant.plan = "free"
  /\ MoveScan(s, [NoScan EXCEPT !.pc = "lock", !.day = today])
  /\ Outside /\ UNCHANGED <<usage, today>>
  /\ Input

Holds(s, d) == scan[s].pc \in {"sum", "bump"} /\ scan[s].day = d

\* Mutant: the row is not locked.
FreeAlways(d) == TRUE

(* The row of a day is locked until the transaction that has it ends.       *)
Free(d) == \A s \in Scans : ~Holds(s, d)

ScanLocks(s) ==
  /\ scan[s].pc = "lock" /\ Free(scan[s].day)
  /\ MoveScan(s, [scan[s] EXCEPT !.pc = "sum"])
  /\ Outside /\ UNCHANGED <<usage, today>>
  /\ Work

ScanSums(s) ==
  /\ scan[s].pc = "sum"
  /\ MoveScan(s, [scan[s] EXCEPT !.pc = "bump", !.used = Used])
  /\ Outside /\ UNCHANGED <<usage, today>>
  /\ Work

Bumped(s) ==
  IF scan[s].used >= Limit THEN usage ELSE [usage EXCEPT ![scan[s].day] = @ + 1]

ScanCommits(s) ==
  /\ scan[s].pc = "bump"
  /\ usage' = Bumped(s)
  /\ MoveScan(s, NoScan)
  /\ Outside /\ UNCHANGED today
  /\ Work

(* The scan goes ahead uncounted, or counted when only the answer is lost.  *)
ScanFailsOpen(s) ==
  /\ scan[s].pc # "idle"
  /\ \/ UNCHANGED usage
     \/ scan[s].pc = "bump" /\ usage' = Bumped(s)
  /\ MoveScan(s, NoScan)
  /\ Outside /\ UNCHANGED today
  /\ Fault

(* reset_scan_usage waits for the rows that are locked.                     *)
AdminResets ==
  /\ \A d \in Days : Free(d)
  /\ usage' = [d \in Days |-> 0]
  /\ Outside /\ UNCHANGED <<scan, today>>
  /\ Input

Midnight ==
  /\ today + 1 \in Days
  /\ today' = today + 1
  /\ Outside /\ UNCHANGED <<scan, usage>>
  /\ Input

-----------------------------------------------------------------------------
Next ==
  \/ AppleSigns \/ PeriodEnds \/ Grants \/ GrantFails \/ AdminResets \/ Midnight
  \/ \E t \in Tokens : GoogleChanges(t)
  \/ \E e \in Events : Redelivered(e) \/ Notified(e) \/ Refused(e) \/ AppVerifies(e)
  \/ \E plan \in {"free", "pro"} : AdminOverrides(plan)
  \/ \E s \in Scans : \/ ScanStarts(s) \/ ScanLocks(s) \/ ScanSums(s)
                      \/ ScanCommits(s) \/ ScanFailsOpen(s)

Spec == Init /\ [][Next]_vars

(* The stores deliver what was not acknowledged, and a request that began   *)
(* ends.                                                                    *)
Fairness ==
  /\ WF_vars(Grants)
  /\ \A e \in Events : WF_vars(Notified(e))

FairSpec == Spec /\ Fairness
-----------------------------------------------------------------------------
(* Properties.                                                             *)

Grant == [plan : {"free", "pro"}, status : {"active", "in_grace", "canceled", "expired"}]
Sources == {"none", "google_play", "app_store", "admin_override"}
Row == [source : Sources, grant : Grant, token : {0} \cup Tokens, otid : BOOLEAN]
Request == [kind : {"idle", "webhook", "verify"}, event : Events, grant : Grant]
Scan == [pc : {"idle", "lock", "sum", "bump"}, day : {0} \cup Days, used : Nat]

(* Types; and a plan that is paid for has a status that says so, one from   *)
(* Apple even "active".                                                     *)
TypeOK ==
  /\ google \in [Tokens -> States \cup {Unsold}]
  /\ apple \in Tx
  /\ now \in Periods
  /\ inbox \subseteq Events
  /\ row \in Row
  /\ row.grant.plan = "pro" => row.grant.status # "expired"
  /\ row.grant.plan = "pro" /\ row.source = "app_store" => row.grant.status = "active"
  /\ handler \in Request
  /\ newest \in Tx
  /\ overtaken \in BOOLEAN
  /\ disowned \subseteq Tokens
  /\ scan \in [Scans -> Scan]
  /\ usage \in [Days -> Nat]
  /\ today \in Days
  /\ inputs \in 0..MaxInputs
  /\ faults \in 0..MaxFaults

(* "A hard, predictable monthly cost ceiling" (003_scan_usage_monthly.sql   *)
(* :3-4), exceeded by at most one scan per day change: only the row of one  *)
(* day is locked while the sum of the month is read.                        *)
MonthCapped == Used <= Limit + Cardinality(Days) - 1

(* A notification that is still to be answered with a 2xx.                  *)
Underway(e) ==
  \/ e \in inbox
  \/ handler.kind = "webhook" /\ handler.event = e

(* "The update being lost" (subscription_webhooks.py:63): a row that says   *)
(* Google granted it says what Google says of its token, or a notification  *)
(* about it is still to be answered, whoever else writes and whatever else  *)
(* fails, unless Google called the token invalid when it was asked and has  *)
(* signalled nothing about it since. Such an answer is acknowledged and     *)
(* leaves the plan as it is for good (:56-59).                              *)
GoogleHeard ==
  row.source = "google_play" =>
    \/ row.grant = GoogleGrant(google[row.token])
    \/ Underway(OfGoogle(row.token))
    \/ row.token \in disowned

(* A row of Apple's says what Apple's latest transaction says, or that one  *)
(* is on its way, unless an older transaction came in after a newer one.    *)
AppleHeard ==
  row.source = "app_store" =>
    \/ row.grant = AppleGrant(apple)
    \/ Underway(OfApple(apple))
    \/ overtaken

(* No store is left unheard.                                                *)
StoresHeard == GoogleHeard /\ AppleHeard

(* A row that stays Google's settles on what Google says of its token, or   *)
(* is left as it was by Google's last word, that the token is invalid.      *)
OfToken(t) == row.source = "google_play" /\ row.token = t
GoogleSettles ==
  \A t \in Tokens : <>[]OfToken(t) =>
    <>[](row.grant = GoogleGrant(google[t])) \/ <>[](t \in disowned)
=============================================================================
