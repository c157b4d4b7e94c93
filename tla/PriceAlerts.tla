---------------------------- MODULE PriceAlerts ----------------------------
(***************************************************************************)
(* From the price of a portfolio item to the push about it. The batch      *)
(* sweep (batch_repricing_service.py) and the admins of the review queue   *)
(* (admin_review_queue_service.py) rewrite items, each from a copy of the  *)
(* row it read before; the pipeline of POST /admin/push/price-alerts/run   *)
(* evaluates the alerts on them (price_alert_evaluation_service.py) and    *)
(* pushes the triggered ones (price_alert_push_service.py).                *)
(*                                                                         *)
(* The sweep and the admins run in threads of their own. The pipeline is   *)
(* an async route without an await, so one runs at a time. Alerts are of   *)
(* one kind, "rises above", and fewer than the limits of both queries.     *)
(***************************************************************************)
EXTENDS Integers, FiniteSets

CONSTANTS
  Items,
  Alerts,
  ItemOf,        \* portfolio_item_id of an alert
  Devices,       \* of the one user
  Prices,
  Crossing,      \* the prices at or above every target_amount
  NoPrice,
  MaxFaults      \* bound: requests that raise, and restarts

ASSUME PriceAlertsAssumption ==
  /\ ItemOf \in [Alerts -> Items]
  /\ Crossing \subseteq Prices
  /\ NoPrice \notin Prices
  /\ MaxFaults \in Nat

VARIABLES
  item,       \* raw_json of the items: estimatedValue and needsReview
  sweep,      \* reprice_all: the page it read, and the rows still to do
  admin,      \* one request to the review queue
  status,     \* of each alert
  device,     \* push_device_registrations, enabled
  pipe,       \* the pipeline
  told,       \* how often an alert was pushed to a device since it was armed
  faults

vars == <<item, sweep, admin, status, device, pipe, told, faults>>
pricing == <<item, sweep, admin>>
alerts == <<status, device, pipe, told>>

Raw == [value : Prices \cup {NoPrice}, review : BOOLEAN]
NoRaw == [value |-> NoPrice, review |-> FALSE]

NoSweep == [page |-> [i \in Items |-> NoRaw], left |-> {}]
NoRequest == [on |-> {}, raw |-> NoRaw]
NoPipe == [pc |-> "idle", todo |-> {}, on |-> {}, send |-> {}, sent |-> FALSE]

Nobody == [d \in Devices |-> 0]

Init ==
  /\ item \in [Items -> Raw]
  /\ sweep = NoSweep
  /\ admin = NoRequest
  /\ status = [a \in Alerts |-> "active"]
  /\ device \in SUBSET Devices
  /\ pipe = NoPipe
  /\ told = [a \in Alerts |-> Nobody]
  /\ faults = 0

-----------------------------------------------------------------------------
(* reprice_all.                                                             *)

(* _fetch_items_page.                                                       *)
SweepReads ==
  /\ sweep.left = {}
  /\ sweep' = [page |-> item, left |-> Items]
  /\ UNCHANGED <<item, admin, alerts, faults>>

Swept(i) == IF sweep.left = {i} THEN NoSweep ELSE [sweep EXCEPT !.left = @ \ {i}]

(* _persist: the row's raw_json as the page had it, with the price that is  *)
(* available by now.                                                        *)
SweepWrites(i) ==
  /\ i \in sweep.left
  /\ \E price \in Prices :
       item' = [item EXCEPT ![i] = [sweep.page[i] EXCEPT !.value = price]]
  /\ sweep' = Swept(i)
  /\ UNCHANGED <<admin, alerts, faults>>

(* No price is available, or pricing or writing it raised: the next row.    *)
SweepSkips(i) ==
  /\ i \in sweep.left
  /\ sweep' = Swept(i)
  /\ UNCHANGED <<item, admin, alerts, faults>>

-----------------------------------------------------------------------------
(* The review queue.                                                        *)

(* update_item_data reads the row,                                          *)
AdminReads(i) ==
  /\ admin.on = {}
  /\ admin' = [on |-> {i}, raw |-> item[i]]
  /\ UNCHANGED <<item, sweep, alerts, faults>>

(* and merges into the raw_json it read the keys of assign_item, of         *)
(* mark_reviewed, of override_price, or of retry_pricing, which leaves the  *)
(* item up for review unless it is sure of a price.                         *)
Merged(raw) ==
  {raw, [raw EXCEPT !.review = FALSE], [value |-> NoPrice, review |-> TRUE]}
    \cup [value : Prices, review : BOOLEAN]

AdminWrites(i) ==
  /\ i \in admin.on
  /\ item' \in {[item EXCEPT ![i] = raw] : raw \in Merged(admin.raw)}
  /\ admin' = NoRequest
  /\ UNCHANGED <<sweep, alerts, faults>>

(* The app saves an item, or registers or disables a device.                *)
AppSaves(i) ==
  /\ item' \in {[item EXCEPT ![i] = raw] : raw \in Raw}
  /\ UNCHANGED <<sweep, admin, alerts, faults>>

AppRegisters(d) ==
  /\ device' = IF d \in device THEN device \ {d} ELSE device \cup {d}
  /\ UNCHANGED <<pricing, status, pipe, told, faults>>

-----------------------------------------------------------------------------
(* evaluate_and_flag.                                                       *)

Quiet == UNCHANGED <<pricing, device, faults>>
Fault == faults < MaxFaults /\ faults' = faults + 1 /\ UNCHANGED <<pricing, device>>

(* _evaluate: estimatedValue, or else the column estimated_value_high,      *)
(* which may say either.                                                    *)
Verdicts(a) ==
  LET value == item[ItemOf[a]].value
  IN IF value = NoPrice THEN BOOLEAN ELSE {value \in Crossing}

(* The alerts and the items are read; those to flag and to re-arm follow.   *)
Evaluate ==
  /\ pipe.pc = "idle"
  /\ \E crossed \in [Alerts -> BOOLEAN] :
       /\ \A a \in Alerts : crossed[a] \in Verdicts(a)
       /\ pipe' = [NoPipe EXCEPT !.pc = "flag", !.todo =
            {a \in Alerts : \/ status[a] = "active" /\ crossed[a]
                            \/ status[a] = "notified" /\ ~crossed[a]}]
  /\ UNCHANGED <<status, told>>
  /\ Quiet

(* _flag_triggered or _rearm, by id.                                        *)
Flag(a) ==
  /\ pipe.pc = "flag" /\ a \in pipe.todo
  /\ status' = [status EXCEPT ![a] = IF @ = "active" THEN "triggered" ELSE "active"]
  /\ told' = [told EXCEPT ![a] = IF status[a] = "active" THEN @ ELSE Nobody]
  /\ pipe' = [pipe EXCEPT !.todo = @ \ {a}]
  /\ Quiet

(* dispatch_triggered_alerts: also when the evaluation raised, or when the  *)
(* caller left it out.                                                      *)
Dispatch ==
  /\ \/ pipe.pc = "idle" /\ Quiet
     \/ pipe.pc = "flag" /\ pipe.todo = {} /\ Quiet
     \/ pipe.pc = "flag" /\ pipe.todo # {} /\ Fault
  /\ pipe' = [NoPipe EXCEPT !.pc = "next", !.todo = {a \in Alerts : status[a] = "triggered"}]
  /\ UNCHANGED <<status, told>>

-----------------------------------------------------------------------------
(* dispatch_triggered_alerts.                                               *)

\* Mutant: the status of the delivery.
SkippedAsLogged == "skipped"

\* Mutant: an alert nobody could be told of is marked too.
SkippedAsNotified == "notified"

(* The delivery is logged as skipped, the alert keeps its status.           *)
Skipped == "triggered"

FetchDevices(a) ==
  /\ pipe.pc = "next" /\ a \in pipe.todo
  /\ pipe' = [pipe EXCEPT !.todo = @ \ {a}, !.on = {a}, !.send = device, !.sent = FALSE,
                !.pc = IF device = {} THEN "next" ELSE "send"]
  /\ status' = [status EXCEPT ![a] = IF device = {} THEN Skipped ELSE @]
  /\ UNCHANGED told
  /\ Quiet

Told(a, d) == [told EXCEPT ![a][d] = @ + 1]

(* _send_fcm accepted, and logged.                                          *)
Push(a, d) ==
  /\ pipe.pc = "send" /\ a \in pipe.on /\ d \in pipe.send
  /\ told' = Told(a, d)
  /\ pipe' = [pipe EXCEPT !.send = @ \ {d}, !.sent = TRUE]
  /\ UNCHANGED status
  /\ Quiet

(* Refused, or without a token: logged as failed.                           *)
PushRefused(a, d) ==
  /\ pipe.pc = "send" /\ a \in pipe.on /\ d \in pipe.send
  /\ pipe' = [pipe EXCEPT !.send = @ \ {d}]
  /\ UNCHANGED <<status, told>>
  /\ Quiet

\* Mutant: the alert is armed again at once.
MarkedActive == "active"

(* _mark_notified.                                                          *)
Marked == "notified"

Mark(a) ==
  /\ pipe.pc = "send" /\ a \in pipe.on /\ pipe.send = {}
  /\ status' = [status EXCEPT ![a] = IF pipe.sent THEN Marked ELSE @]
  /\ pipe' = [pipe EXCEPT !.pc = "next", !.sent = FALSE]
  /\ UNCHANGED told
  /\ Quiet

DispatchEnds ==
  /\ pipe.pc = "next" /\ pipe.todo = {}
  /\ pipe' = NoPipe
  /\ UNCHANGED <<status, told>>
  /\ Quiet

(* A send, a log or a mark raises, after a push that did go out or not, or  *)
(* the API restarts: nothing catches it before the route does.              *)
DispatchRaises ==
  /\ pipe.pc \in {"next", "send"}
  /\ \/ UNCHANGED told
     \/ \E a \in pipe.on, d \in pipe.send : told' = Told(a, d)
  /\ pipe' = NoPipe
  /\ UNCHANGED status
  /\ Fault

Pipeline ==
  \/ Evaluate \/ Dispatch \/ DispatchEnds
  \/ \E a \in Alerts : Flag(a) \/ FetchDevices(a) \/ Mark(a)
  \/ \E a \in Alerts, d \in Devices : Push(a, d) \/ PushRefused(a, d)

Next ==
  \/ SweepReads
  \/ \E i \in Items : SweepWrites(i) \/ SweepSkips(i) \/ AppSaves(i)
                      \/ AdminReads(i) \/ AdminWrites(i)
  \/ \E d \in Devices : AppRegisters(d)
  \/ Pipeline
  \/ DispatchRaises

Spec == Init /\ [][Next]_vars

(* The cron calls the route every six hours, with the evaluation, and FCM   *)
(* accepts a push for a device that stays.                                  *)
Fairness ==
  /\ WF_vars(Pipeline)
  /\ SF_vars(Evaluate)
  /\ \A a \in Alerts : SF_vars(\E d \in Devices : Push(a, d))

FairSpec == Spec /\ Fairness
-----------------------------------------------------------------------------
(* Properties.                                                             *)

(* Types; and the statuses an alert may have, in which the queries of the   *)
(* evaluator and of the dispatcher find it again.                           *)
TypeOK ==
  /\ item \in [Items -> Raw]
  /\ sweep \in [page : [Items -> Raw], left : SUBSET Items]
  /\ admin \in [on : SUBSET Items, raw : Raw]
  /\ status \in [Alerts -> {"active", "triggered", "notified"}]
  /\ device \subseteq Devices
  /\ pipe \in [pc : {"idle", "flag", "next", "send"}, todo : SUBSET Alerts,
               on : SUBSET Alerts, send : SUBSET Devices, sent : BOOLEAN]
  /\ told \in [Alerts -> [Devices -> Nat]]
  /\ faults \in 0..MaxFaults

(* Once armed, an alert is pushed to a device one time: "the next scheduled *)
(* run does not re-push it" (price_alert_push_service.py:134). A dispatch   *)
(* that raises half-way leaves the alert triggered and costs one push more. *)
NotifyOnce == \A a \in Alerts, d \in Devices : told[a][d] <= 1 + faults

(* As long as its price has crossed and a device is there, an alert that is *)
(* triggered, or could be, is pushed in the end: neither a device that came *)
(* late nor a run that raised loses it.                                     *)
Due(a) == item[ItemOf[a]].value \in Crossing /\ device # {}
Done(a) == status[a] = "notified" /\ \E d \in Devices : told[a][d] > 0
EveryCrossingPushed == \A a \in Alerts : (<>[]Due(a)) => <>[]Done(a)

(* "The scheduled repricing sweep only ever writes pricing into             *)
(* raw_json.pricing/raw_json.estimatedValue" (admin_review_queue_service.py *)
(* :608): it leaves the review flags of an item alone. The code does not    *)
(* keep it: batch_repricing_service.py writes back all of the raw_json that *)
(* it read a page earlier.                                                  *)
SweepOnlyPrices ==
  [][\A i \in Items : SweepWrites(i) => item'[i].review = item[i].review]_vars
=============================================================================
