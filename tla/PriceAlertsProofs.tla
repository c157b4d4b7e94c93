------------------------ MODULE PriceAlertsProofs ------------------------
(***************************************************************************)
(* Proofs about PriceAlerts: nobody is told twice of one crossing, but for *)
(* the dispatches that raised.                                             *)
(***************************************************************************)
EXTENDS PriceAlerts, TLAPS

(* The pushes an alert may have behind it when it is armed, and triggered,  *)
(* and during its dispatch; and that a dispatch works on one alert at a     *)
(* time, with those it has yet to reach still triggered. NotifyOnce alone   *)
(* does not say that an alert in the dispatch was pushed once less.         *)
Sending(a, d) == pipe.pc = "send" /\ a \in pipe.on /\ d \notin pipe.send /\ pipe.sent

Allowed(a, d) ==
  /\ status[a] = "active" => told[a][d] = 0
  /\ status[a] = "triggered" /\ ~Sending(a, d) => told[a][d] <= faults
  /\ told[a][d] <= faults + 1

PipeInv ==
  /\ pipe.pc = "flag" => \A a \in pipe.todo : status[a] \in {"active", "notified"}
  /\ pipe.pc \in {"next", "send"} => \A a \in pipe.todo : status[a] = "triggered"
  /\ pipe.pc = "next" => pipe.send = {}
  /\ pipe.pc = "send" =>
       /\ \A a \in pipe.on : status[a] = "triggered" /\ a \notin pipe.todo
       /\ \A a, b \in pipe.on : a = b

IInv ==
  /\ TypeOK
  /\ PipeInv
  /\ \A a \in Alerts, d \in Devices : Allowed(a, d)

Pcs == {"idle", "flag", "next", "send"}
Pipe == [pc : Pcs, todo : SUBSET Alerts, on : SUBSET Alerts, send : SUBSET Devices,
         sent : BOOLEAN]

-----------------------------------------------------------------------------
(* Types.                                                                   *)

LEMMA InitTyped == PriceAlertsAssumption /\ Init => TypeOK
BY DEF PriceAlertsAssumption, Init, TypeOK, Raw, NoRaw, NoSweep, NoRequest, NoPipe, Nobody

(* The items, the sweep and the admin.                                      *)
ItemsOK ==
  /\ item \in [Items -> Raw]
  /\ sweep \in [page : [Items -> Raw], left : SUBSET Items]
  /\ admin \in [on : SUBSET Items, raw : Raw]

NoSweepTyped == NoSweep \in [page : [Items -> Raw], left : SUBSET Items]

LEMMA Empty == NoRaw \in Raw /\ NoSweepTyped /\ NoRequest \in [on : SUBSET Items, raw : Raw]
BY DEF NoRaw, Raw, NoSweepTyped, NoSweep, NoRequest

LEMMA SweptTyped ==
  ASSUME ItemsOK, NEW i \in Items
  PROVE  Swept(i) \in [page : [Items -> Raw], left : SUBSET Items]
BY Empty DEF Swept, ItemsOK, NoSweepTyped

LEMMA MergedTyped ==
  ASSUME NEW raw \in Raw
  PROVE  Merged(raw) \subseteq Raw
<1>1. ASSUME NEW r \in Raw, NEW review \in BOOLEAN PROVE [r EXCEPT !.review = review] \in Raw
  BY <1>1 DEF Raw
<1>2. [raw EXCEPT !.review = FALSE] \in Raw
  BY <1>1
<1>3. ASSUME NEW value \in Prices \cup {NoPrice}, NEW review \in BOOLEAN
      PROVE  [value |-> value, review |-> review] \in Raw
  BY <1>3 DEF Raw
<1>4. [value |-> NoPrice, review |-> TRUE] \in Raw
  BY <1>3
<1>5. [value : Prices, review : BOOLEAN] \subseteq Raw
  BY DEF Raw
<1> QED
  BY <1>2, <1>4, <1>5 DEF Merged

PricingStep ==
  \/ SweepReads
  \/ \E i \in Items : SweepWrites(i) \/ SweepSkips(i) \/ AppSaves(i)
                      \/ AdminReads(i) \/ AdminWrites(i)

LEMMA PricingKeepsItems == ItemsOK /\ PricingStep => ItemsOK'
<1> SUFFICES ASSUME ItemsOK, PricingStep PROVE ItemsOK'
  OBVIOUS
<1>1. CASE SweepReads
  BY <1>1 DEF ItemsOK, SweepReads
<1>2. ASSUME NEW i \in Items, SweepWrites(i) PROVE ItemsOK'
  <2>1. PICK price \in Prices :
          item' = [item EXCEPT ![i] = [sweep.page[i] EXCEPT !.value = price]]
    BY <1>2 DEF SweepWrites
  <2>2. sweep.page[i] \in Raw
    BY DEF ItemsOK
  <2>3. [sweep.page[i] EXCEPT !.value = price] \in Raw
    BY <2>2 DEF Raw
  <2>4. item' \in [Items -> Raw]
    BY <2>1, <2>3 DEF ItemsOK
  <2> QED
    BY <2>4, <1>2, SweptTyped DEF SweepWrites, ItemsOK
<1>3. ASSUME NEW i \in Items, SweepSkips(i) PROVE ItemsOK'
  BY <1>3, SweptTyped DEF SweepSkips, ItemsOK
<1>4. ASSUME NEW i \in Items, AppSaves(i) PROVE ItemsOK'
  BY <1>4 DEF AppSaves, ItemsOK
<1>5. ASSUME NEW i \in Items, AdminReads(i) PROVE ItemsOK'
  BY <1>5 DEF AdminReads, ItemsOK
<1>6. ASSUME NEW i \in Items, AdminWrites(i) PROVE ItemsOK'
  <2>1. Merged(admin.raw) \subseteq Raw
    BY MergedTyped DEF ItemsOK
  <2> QED
    BY <2>1, <1>6, Empty DEF AdminWrites, ItemsOK
<1> QED
  BY <1>1, <1>2, <1>3, <1>4, <1>5, <1>6 DEF PricingStep

-----------------------------------------------------------------------------
(* The pipeline.                                                            *)

(* All of the invariant but the items.                                      *)
AlertsOK ==
  /\ status \in [Alerts -> {"active", "triggered", "notified"}]
  /\ device \subseteq Devices
  /\ pipe \in Pipe
  /\ told \in [Alerts -> [Devices -> Nat]]
  /\ faults \in 0..MaxFaults

AInv == AlertsOK /\ PipeInv /\ \A a \in Alerts, d \in Devices : Allowed(a, d)

LEMMA Split == IInv <=> ItemsOK /\ AInv
BY DEF IInv, TypeOK, ItemsOK, AInv, AlertsOK, Pipe, Pcs

(* What an update of the pipeline's record changes.                         *)
LEMMA Moved ==
  ASSUME NEW p \in Pipe, NEW pc \in Pcs, NEW todo \in SUBSET Alerts
  PROVE  LET q == [p EXCEPT !.pc = pc, !.todo = todo]
         IN q \in Pipe /\ q.pc = pc /\ q.todo = todo /\ q.on = p.on /\ q.send = p.send
BY DEF Pipe

LEMMA NoPipeTyped == NoPipe \in Pipe /\ NoPipe.pc = "idle" /\ NoPipe.send = {}
BY DEF NoPipe, Pipe, Pcs

(* A run that has a list of alerts before it, and none yet in hand.         *)
LEMMA Filled ==
  ASSUME NEW pc \in Pcs, NEW todo \in SUBSET Alerts
  PROVE  LET q == [NoPipe EXCEPT !.pc = pc, !.todo = todo]
         IN q \in Pipe /\ q.pc = pc /\ q.todo = todo /\ q.send = {}
BY DEF Pipe, NoPipe

LEMMA SentUpdated ==
  ASSUME NEW p \in Pipe, NEW send \in SUBSET Devices, NEW sent \in BOOLEAN
  PROVE  LET q == [p EXCEPT !.send = send, !.sent = sent]
         IN q \in Pipe /\ q.pc = p.pc /\ q.todo = p.todo /\ q.on = p.on /\ q.send = send
            /\ q.sent = sent
BY DEF Pipe

LEMMA MarkUpdated ==
  ASSUME NEW p \in Pipe, NEW pc \in Pcs, NEW sent \in BOOLEAN
  PROVE  LET q == [p EXCEPT !.pc = pc, !.sent = sent]
         IN q \in Pipe /\ q.pc = pc /\ q.todo = p.todo /\ q.on = p.on /\ q.send = p.send
BY DEF Pipe

LEMMA EvaluateKeeps ==
  ASSUME AInv, Evaluate
  PROVE  AInv'
<1>1. PICK crossed \in [Alerts -> BOOLEAN] :
        pipe' = [NoPipe EXCEPT !.pc = "flag", !.todo =
                   {a \in Alerts : \/ status[a] = "active" /\ crossed[a]
                                   \/ status[a] = "notified" /\ ~crossed[a]}]
  BY Zenon DEF Evaluate
<1> DEFINE todo == {a \in Alerts : \/ status[a] = "active" /\ crossed[a]
                                   \/ status[a] = "notified" /\ ~crossed[a]}
<1>5. todo \in SUBSET Alerts /\ \A a \in todo : status[a] \in {"active", "notified"}
  OBVIOUS
<1>6. pipe' = [NoPipe EXCEPT !.pc = "flag", !.todo = todo]
  BY <1>1
<1> HIDE DEF todo
<1>3. pipe' \in Pipe /\ pipe'.pc = "flag" /\ pipe'.todo = todo
  BY <1>5, <1>6, Moved, NoPipeTyped DEF Pcs
<1>4. UNCHANGED <<status, told, device, faults>>
  BY DEF Evaluate, Quiet
<1>7. pipe.pc = "idle"
  BY DEF Evaluate
<1>8. AlertsOK'
  BY <1>3, <1>4 DEF AInv, AlertsOK
<1>9. PipeInv'
  BY <1>3, <1>4, <1>5 DEF PipeInv
<1>10. ASSUME NEW a \in Alerts, NEW d \in Devices PROVE Allowed(a, d)'
  BY <1>3, <1>4, <1>7 DEF AInv, Allowed, Sending
<1> QED
  BY <1>8, <1>9, <1>10 DEF AInv

LEMMA FlagKeeps ==
  ASSUME AInv, NEW a \in Alerts, Flag(a)
  PROVE  AInv'
<1>1. /\ pipe.pc = "flag" /\ a \in pipe.todo
      /\ status[a] \in {"active", "notified"}
      /\ pipe' = [pipe EXCEPT !.todo = @ \ {a}]
      /\ UNCHANGED <<device, faults>>
  BY DEF AInv, PipeInv, Flag, Quiet
<1>2. pipe' \in Pipe /\ pipe'.pc = "flag" /\ pipe'.todo = pipe.todo \ {a}
  BY <1>1 DEF AInv, AlertsOK, Pipe, Pcs
<1>3. CASE status[a] = "active"
  <2>1. status' = [status EXCEPT ![a] = "triggered"] /\ told' = told
    BY <1>3 DEF Flag, AInv, AlertsOK
  <2>2. AlertsOK'
    BY <2>1, <1>1, <1>2 DEF AInv, AlertsOK
  <2>3. PipeInv'
    BY <2>1, <1>1, <1>2 DEF AInv, AlertsOK, PipeInv
  <2>4. ASSUME NEW b \in Alerts, NEW d \in Devices PROVE Allowed(b, d)'
    BY <2>1, <1>1, <1>2, <1>3 DEF AInv, AlertsOK, Allowed, Sending
  <2> QED
    BY <2>2, <2>3, <2>4 DEF AInv
<1>4. CASE status[a] = "notified"
  <2>1. status' = [status EXCEPT ![a] = "active"] /\ told' = [told EXCEPT ![a] = Nobody]
    BY <1>4 DEF Flag, AInv, AlertsOK
  <2>2. AlertsOK'
    BY <2>1, <1>1, <1>2 DEF AInv, AlertsOK, Nobody
  <2>3. PipeInv'
    BY <2>1, <1>1, <1>2 DEF AInv, AlertsOK, PipeInv
  <2>4. ASSUME NEW b \in Alerts, NEW d \in Devices PROVE Allowed(b, d)'
    BY <2>1, <1>1, <1>2, <1>4 DEF AInv, AlertsOK, Allowed, Sending, Nobody
  <2> QED
    BY <2>2, <2>3, <2>4 DEF AInv
<1> QED
  BY <1>1, <1>3, <1>4

LEMMA DispatchKeeps ==
  ASSUME PriceAlertsAssumption, AInv, Dispatch
  PROVE  AInv'
<1> DEFINE todo == {a \in Alerts : status[a] = "triggered"}
<1>1. /\ pipe.pc # "send"
      /\ pipe' = [NoPipe EXCEPT !.pc = "next", !.todo = todo]
      /\ UNCHANGED <<status, told, device>>
      /\ faults' \in 0..MaxFaults /\ faults <= faults'
  BY DEF Dispatch, Quiet, Fault, AInv, AlertsOK, PriceAlertsAssumption
<1>2. todo \in SUBSET Alerts /\ \A a \in todo : status[a] = "triggered"
  OBVIOUS
<1>7. pipe' = [NoPipe EXCEPT !.pc = "next", !.todo = todo]
  BY <1>1
<1> HIDE DEF todo
<1>3. pipe' \in Pipe /\ pipe'.pc = "next" /\ pipe'.todo = todo /\ pipe'.send = {}
  BY <1>2, <1>7, Filled DEF Pcs
<1>4. AlertsOK'
  BY <1>1, <1>3 DEF AInv, AlertsOK
<1>5. PipeInv'
  BY <1>1, <1>2, <1>3 DEF PipeInv
<1>6. ASSUME NEW a \in Alerts, NEW d \in Devices PROVE Allowed(a, d)'
  BY <1>1, <1>3 DEF AInv, AlertsOK, Allowed, Sending
<1> QED
  BY <1>4, <1>5, <1>6 DEF AInv

LEMMA FetchDevicesKeeps ==
  ASSUME AInv, NEW a \in Alerts, FetchDevices(a)
  PROVE  AInv'
BY DEF AInv, AlertsOK, PipeInv, Allowed, Sending, FetchDevices, Quiet, Pipe, Pcs, Skipped

LEMMA PushKeeps ==
  ASSUME AInv, NEW a \in Alerts, NEW d \in Devices, Push(a, d)
  PROVE  AInv'
<1>1. /\ pipe.pc = "send" /\ a \in pipe.on /\ d \in pipe.send /\ status[a] = "triggered"
      /\ told' = [told EXCEPT ![a][d] = @ + 1]
      /\ pipe' = [pipe EXCEPT !.send = @ \ {d}, !.sent = TRUE]
      /\ UNCHANGED <<status, device, faults>>
  BY DEF AInv, PipeInv, Push, Told, Quiet
<1>3. pipe \in Pipe /\ pipe.send \ {d} \in SUBSET Devices
  BY DEF AInv, AlertsOK, Pipe
<1>4. /\ pipe' \in Pipe /\ pipe'.pc = "send" /\ pipe'.todo = pipe.todo /\ pipe'.on = pipe.on
      /\ pipe'.send = pipe.send \ {d} /\ pipe'.sent
  BY <1>1, <1>3, SentUpdated
<1>5. told' \in [Alerts -> [Devices -> Nat]]
  BY <1>1 DEF AInv, AlertsOK
<1>6. ASSUME NEW b \in Alerts, NEW e \in Devices PROVE Allowed(b, e)'
  <2>1. told'[b][e] = IF b = a /\ e = d THEN told[b][e] + 1 ELSE told[b][e]
    BY <1>1 DEF AInv, AlertsOK
  <2>2. Allowed(b, e) /\ told[b][e] \in Nat /\ faults \in Nat
    BY DEF AInv, AlertsOK
  <2>3. CASE b = a
    BY <2>1, <2>2, <2>3, <1>1, <1>4 DEF Allowed, Sending
  <2>4. CASE b # a
    <3>1. b \notin pipe.on
      BY <2>4, <1>1 DEF AInv, PipeInv
    <3> QED
      BY <3>1, <2>1, <2>2, <2>4, <1>1, <1>4 DEF Allowed, Sending
  <2> QED
    BY <2>3, <2>4
<1>7. PipeInv'
  BY <1>1, <1>4 DEF AInv, PipeInv
<1> QED
  BY <1>1, <1>4, <1>5, <1>6, <1>7 DEF AInv, AlertsOK

LEMMA PushRefusedKeeps ==
  ASSUME AInv, NEW a \in Alerts, NEW d \in Devices, PushRefused(a, d)
  PROVE  AInv'
BY DEF AInv, AlertsOK, PipeInv, Allowed, Sending, PushRefused, Quiet, Pipe, Pcs

LEMMA MarkKeeps ==
  ASSUME AInv, NEW a \in Alerts, Mark(a)
  PROVE  AInv'
<1>1. /\ pipe.pc = "send" /\ a \in pipe.on /\ pipe.send = {} /\ status[a] = "triggered"
      /\ status' = [status EXCEPT ![a] = IF pipe.sent THEN "notified" ELSE @]
      /\ pipe' = [pipe EXCEPT !.pc = "next", !.sent = FALSE]
      /\ UNCHANGED <<told, device, faults>>
  BY DEF AInv, PipeInv, Mark, Marked, Quiet
<1>3. pipe \in Pipe
  BY DEF AInv, AlertsOK
<1>4. pipe' \in Pipe /\ pipe'.pc = "next" /\ pipe'.todo = pipe.todo /\ pipe'.send = pipe.send
  BY <1>1, <1>3, MarkUpdated DEF Pcs
<1>5. CASE pipe.sent
  <2>1. status' = [status EXCEPT ![a] = "notified"]
    BY <1>1, <1>5
  <2>2. ASSUME NEW b \in Alerts, NEW e \in Devices PROVE Allowed(b, e)'
    <3>1. CASE b = a
      BY <3>1, <2>1, <1>1 DEF AInv, AlertsOK, Allowed
    <3>2. CASE b # a
      <4>1. b \notin pipe.on
        BY <3>2, <1>1 DEF AInv, PipeInv
      <4> QED
        BY <4>1, <3>2, <2>1, <1>1 DEF AInv, AlertsOK, Allowed, Sending
    <3> QED
      BY <3>1, <3>2
  <2>3. PipeInv'
    BY <2>1, <1>1, <1>4 DEF AInv, AlertsOK, PipeInv
  <2> QED
    BY <2>1, <2>2, <2>3, <1>1, <1>4 DEF AInv, AlertsOK
<1>6. CASE ~pipe.sent
  <2>1. status' = status
    BY <1>1, <1>6 DEF AInv, AlertsOK
  <2> QED
    BY <2>1, <1>1, <1>4, <1>6 DEF AInv, AlertsOK, PipeInv, Allowed, Sending
<1> QED
  BY <1>5, <1>6

LEMMA DispatchEndsKeeps == AInv /\ DispatchEnds => AInv'
BY DEF AInv, AlertsOK, PipeInv, Allowed, Sending, DispatchEnds, Quiet, Pipe, Pcs, NoPipe

LEMMA DispatchRaisesKeeps ==
  ASSUME PriceAlertsAssumption, AInv, DispatchRaises
  PROVE  AInv'
<1>1. /\ pipe' = NoPipe /\ faults' = faults + 1 /\ faults' \in 0..MaxFaults
      /\ UNCHANGED <<status, device>>
      /\ \/ told' = told
         \/ \E a \in pipe.on, d \in pipe.send :
              pipe.pc = "send" /\ told' = [told EXCEPT ![a][d] = @ + 1]
  BY DEF DispatchRaises, Told, Fault, AInv, AlertsOK, PipeInv, PriceAlertsAssumption
<1>2. pipe' \in Pipe /\ pipe'.pc = "idle"
  BY <1>1 DEF NoPipe, Pipe, Pcs
<1>3. PipeInv'
  BY <1>2 DEF PipeInv
<1>4. faults \in Nat
  BY DEF AInv, AlertsOK
<1>5. CASE told' = told
  BY <1>1, <1>2, <1>3, <1>4, <1>5 DEF AInv, AlertsOK, Allowed, Sending
<1>6. ASSUME NEW a \in pipe.on, NEW d \in pipe.send, pipe.pc = "send",
             told' = [told EXCEPT ![a][d] = @ + 1]
      PROVE  AInv'
  <2>1. a \in Alerts /\ d \in Devices /\ status[a] = "triggered"
    BY <1>6 DEF AInv, AlertsOK, Pipe, PipeInv
  <2>2. told' \in [Alerts -> [Devices -> Nat]]
    BY <1>6, <2>1 DEF AInv, AlertsOK
  <2>3. ASSUME NEW b \in Alerts, NEW e \in Devices PROVE Allowed(b, e)'
    <3>1. told'[b][e] = IF b = a /\ e = d THEN told[b][e] + 1 ELSE told[b][e]
      BY <1>6, <2>1 DEF AInv, AlertsOK
    <3>2. Allowed(b, e) /\ told[b][e] \in Nat
      BY DEF AInv, AlertsOK
    <3> QED
      BY <3>1, <3>2, <2>1, <1>1, <1>2, <1>4, <1>6 DEF Allowed, Sending
  <2> QED
    BY <1>1, <1>2, <1>3, <2>2, <2>3 DEF AInv, AlertsOK
<1> QED
  BY <1>1, <1>5, <1>6

LEMMA OthersKeep ==
  AInv /\ UNCHANGED <<status, pipe, told, faults>> /\ device' \subseteq Devices => AInv'
BY DEF AInv, AlertsOK, PipeInv, Allowed, Sending

-----------------------------------------------------------------------------
(* All actions together.                                                    *)

LEMMA PipelineKeeps == PriceAlertsAssumption /\ AInv /\ Pipeline => AInv'
BY EvaluateKeeps, FlagKeeps, DispatchKeeps, FetchDevicesKeeps, PushKeeps, PushRefusedKeeps,
   MarkKeeps, DispatchEndsKeeps DEF Pipeline

LEMMA PipelineLeavesItems == ItemsOK /\ (Pipeline \/ DispatchRaises) => ItemsOK'
BY DEF ItemsOK, Pipeline, Evaluate, Dispatch, DispatchEnds, DispatchRaises, Flag, FetchDevices,
       Mark, Push, PushRefused, Quiet, Fault, pricing

LEMMA PricingLeavesAlerts == PricingStep => UNCHANGED <<alerts, faults>>
BY DEF PricingStep, SweepReads, SweepWrites, SweepSkips, AppSaves, AdminReads, AdminWrites

LEMMA InvariantStep == PriceAlertsAssumption /\ IInv /\ [Next]_vars => IInv'
<1> SUFFICES ASSUME PriceAlertsAssumption, IInv, [Next]_vars PROVE IInv'
  OBVIOUS
<1>1. ItemsOK /\ AInv
  BY Split
<1>2. CASE PricingStep
  <2>1. AInv'
    BY <1>1, <1>2, PricingLeavesAlerts, OthersKeep DEF alerts, AInv, AlertsOK
  <2> QED
    BY <2>1, <1>1, <1>2, PricingKeepsItems, Split, PTL
<1>3. CASE Pipeline \/ DispatchRaises
  <2>1. AInv'
    BY <1>1, <1>3, PipelineKeeps, DispatchRaisesKeeps
  <2> QED
    BY <2>1, <1>1, <1>3, PipelineLeavesItems, Split, PTL
<1>4. CASE \E d \in Devices : AppRegisters(d)
  <2>1. AInv'
    BY <1>1, <1>4, OthersKeep DEF AppRegisters, AInv, AlertsOK
  <2>2. ItemsOK'
    BY <1>1, <1>4 DEF AppRegisters, pricing, ItemsOK
  <2> QED
    BY <2>1, <2>2, Split, PTL
<1>5. CASE UNCHANGED vars
  <2>1. AInv'
    BY <1>1, <1>5, OthersKeep DEF vars, AInv, AlertsOK
  <2>2. ItemsOK'
    BY <1>1, <1>5 DEF vars, ItemsOK
  <2> QED
    BY <2>1, <2>2, Split, PTL
<1> QED
  BY <1>2, <1>3, <1>4, <1>5 DEF Next, PricingStep

LEMMA InitHolds == PriceAlertsAssumption /\ Init => IInv
BY InitTyped DEF IInv, Init, PipeInv, Allowed, Sending, NoPipe, Nobody

(* Types hold for any items, alerts, devices and number of failures.        *)
THEOREM TypeCorrect == Spec => []TypeOK
<1>1. IInv => TypeOK
  BY DEF IInv
<1> QED
  BY <1>1, InitHolds, InvariantStep, PriceAlertsAssumption, PTL DEF Spec

(* Nobody is told twice of one crossing but for each dispatch that raised:  *)
(* neither overlapping writers of the price nor devices that come and go    *)
(* make the pipeline repeat itself.                                         *)
THEOREM NotifiedOnce == Spec => []NotifyOnce
<1>1. IInv => NotifyOnce
  <2> SUFFICES ASSUME IInv, NEW a \in Alerts, NEW d \in Devices
               PROVE  told[a][d] <= 1 + faults
    BY DEF NotifyOnce
  <2>1. told[a][d] \in Nat /\ faults \in Nat /\ told[a][d] <= faults + 1
    BY DEF IInv, TypeOK, Allowed
  <2> QED
    BY <2>1
<1> QED
  BY <1>1, InitHolds, InvariantStep, PriceAlertsAssumption, PTL DEF Spec
=============================================================================
