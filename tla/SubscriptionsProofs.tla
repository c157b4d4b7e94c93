------------------------ MODULE SubscriptionsProofs ------------------------
(***************************************************************************)
(* What becomes of a store's signal: the entitlement row agrees with the   *)
(* store it names, or a notification is still to be answered, or one of    *)
(* the two ways the code has to lose it was taken. And the scans of a      *)
(* month stay below a cap, for which sums over the days are needed. For    *)
(* any number of tokens, periods, scans, inputs and faults. What concerns  *)
(* the entitlement and what concerns the quota are proved apart.           *)
(***************************************************************************)
EXTENDS Subscriptions, FiniteSetTheorems, WellFoundedInduction, TLAPS

(* The part of TypeOK that concerns the entitlement.                        *)
Shapes ==
  /\ google \in [Tokens -> States \cup {Unsold}]
  /\ apple \in Tx
  /\ now \in Periods
  /\ inbox \subseteq Events
  /\ row \in Row
  /\ handler \in Request
  /\ newest \in Tx
  /\ overtaken \in BOOLEAN
  /\ disowned \subseteq Tokens

LEMMA Numbers == /\ Tokens \subseteq Nat \ {0} /\ Periods \subseteq Nat \ {0}
                 /\ 1 \in Tokens /\ 1 \in Periods
                 /\ \A p \in {0} \cup Periods : p \in Nat
  BY SubscriptionsAssumption DEF SubscriptionsAssumption

(* What events are made of.                                                 *)
LEMMA EventParts ==
  /\ NoTx \in Tx
  /\ \A t \in Tokens : /\ OfGoogle(t) \in Events /\ OfGoogle(t).store = "google_play"
                       /\ OfGoogle(t).token = t
  /\ \A tx \in Tx : /\ OfApple(tx) \in Events /\ OfApple(tx).store = "app_store"
                    /\ OfApple(tx).tx = tx
  /\ \A e \in Events : \/ e.store = "google_play" /\ e.token \in Tokens /\ e = OfGoogle(e.token)
                       \/ e.store = "app_store" /\ e.tx \in Tx /\ e = OfApple(e.tx)
<1>1. NoTx \in Tx
  BY DEF NoTx, Tx
<1>2. \A t \in Tokens : /\ OfGoogle(t) \in Events /\ OfGoogle(t).store = "google_play"
                        /\ OfGoogle(t).token = t
  BY DEF Events, OfGoogle
<1>3. \A tx \in Tx : /\ OfApple(tx) \in Events /\ OfApple(tx).store = "app_store"
                     /\ OfApple(tx).tx = tx
  BY DEF Events, OfApple
<1>4. \A e \in Events : (\E t \in Tokens : e = OfGoogle(t)) \/ (\E tx \in Tx : e = OfApple(tx))
  BY DEF Events
<1>5. QED
  BY <1>1, <1>2, <1>3, <1>4

(* The grants that follow from what a store says.                           *)
LEMMA GrantTypes ==
  /\ Unclaimed \in Grant
  /\ \A s : GoogleGrant(s) \in Grant
  /\ \A tx : AppleGrant(tx) \in Grant
  /\ \A e \in Events : GrantOf(e) \in Grant
  /\ \A plan \in {"free", "pro"} : [plan |-> plan, status |-> "active"] \in Grant
<1>1. Unclaimed \in Grant /\ \A plan \in {"free", "pro"} : [plan |-> plan, status |-> "active"] \in Grant
  BY DEF Unclaimed, Grant
<1>2. \A s : GoogleGrant(s) \in Grant
  BY DEF GoogleGrant, Grant
<1>3. \A tx : AppleGrant(tx) \in Grant
  BY DEF AppleGrant, Grant
<1>4. QED
  BY <1>1, <1>2, <1>3 DEF GrantOf

(* The upsert of a request, field by field.                                 *)
LEMMA UpsertParts ==
  ASSUME Shapes, NEW e \in Events, NEW grant \in Grant, Upsert(e, grant)
  PROVE  /\ row' \in Row
         /\ row'.source = e.store
         /\ row'.grant = grant
         /\ row'.token = IF e.store = "google_play" THEN e.token ELSE row.token
         /\ row'.otid = (row.otid \/ e.store = "app_store")
         /\ newest' \in Tx /\ overtaken' \in BOOLEAN
         /\ disowned' = disowned \ {e.token}
<1>1. row' = [source |-> e.store, grant |-> grant,
              token |-> IF e.store = "google_play" THEN e.token ELSE row.token,
              otid |-> row.otid \/ e.store = "app_store"]
  BY DEF Upsert
<1>2. /\ e.store \in Sources
      /\ (IF e.store = "google_play" THEN e.token ELSE row.token) \in {0} \cup Tokens
      /\ (row.otid \/ e.store = "app_store") \in BOOLEAN
  BY EventParts DEF Sources, Shapes, Row
<1>3. newest' \in Tx /\ overtaken' \in BOOLEAN
  <2>1. CASE e.store = "app_store"
    <3>1. /\ overtaken' = (Rank(e.tx) < Rank(newest))
          /\ newest' = IF overtaken' THEN newest ELSE e.tx
      BY <2>1 DEF Upsert
    <3>2. (Rank(e.tx) < Rank(newest)) \in BOOLEAN
      OBVIOUS
    <3>3. e.tx \in Tx /\ newest \in Tx
      BY <2>1, EventParts DEF Shapes
    <3>4. QED
      BY <3>1, <3>2, <3>3
  <2>2. CASE e.store # "app_store"
    BY <2>2 DEF Upsert, Shapes
  <2>3. QED
    BY <2>1, <2>2
<1>4. row' \in Row
  BY <1>1, <1>2 DEF Row
<1>5. /\ row'.source = e.store /\ row'.grant = grant
      /\ row'.token = IF e.store = "google_play" THEN e.token ELSE row.token
      /\ row'.otid = (row.otid \/ e.store = "app_store")
  BY <1>1
<1>6. disowned' = disowned \ {e.token}
  BY DEF Upsert
<1>7. QED
  BY <1>3, <1>4, <1>5, <1>6

(* Steps of the quota leave the entitlement alone.                          *)
QuotaStep ==
  \/ AdminResets \/ Midnight
  \/ \E s \in Scans : \/ ScanStarts(s) \/ ScanLocks(s) \/ ScanSums(s)
                      \/ ScanCommits(s) \/ ScanFailsOpen(s)

LEMMA QuotaApart == QuotaStep \/ UNCHANGED vars => UNCHANGED <<stores, inbox, entitled>>
  BY DEF QuotaStep, AdminResets, Midnight, ScanStarts, ScanLocks, ScanSums, ScanCommits,
         ScanFailsOpen, Outside, vars

(* The other fields of a row that an admin overrides.                       *)
LEMMA OverrideParts ==
  ASSUME Shapes, NEW plan \in {"free", "pro"}, AdminOverrides(plan)
  PROVE  /\ row' \in Row /\ row'.source = "admin_override"
         /\ row'.token = row.token /\ row'.otid = row.otid
<1>1. /\ row \in Row /\ "admin_override" \in Sources
      /\ [plan |-> plan, status |-> "active"] \in Grant
  BY GrantTypes DEF Shapes, Sources
<1>2. \A g \in Grant, s \in Sources :
        LET r == [row EXCEPT !.source = s, !.grant = g]
        IN  r \in Row /\ r.source = s /\ r.token = row.token /\ r.otid = row.otid
  BY <1>1 DEF Row
<1>3. row' = [row EXCEPT !.source = "admin_override",
                         !.grant = [plan |-> plan, status |-> "active"]]
  BY DEF AdminOverrides
<1>4. QED
  BY <1>1, <1>2, <1>3

(* The request that begins.                                                 *)
LEMMA BeginParts ==
  ASSUME NEW kind \in {"webhook", "verify"}, NEW e \in Events, Begin(kind, e)
  PROVE  /\ handler' \in Request
         /\ handler'.kind = kind /\ handler'.event = e /\ handler'.grant = GrantOf(e)
  BY GrantTypes DEF Begin, Request

LEMMA NoRequestParts == NoRequest \in Request /\ NoRequest.kind = "idle"
  BY GrantTypes, EventParts DEF NoRequest, Request

(* The store signs a transaction: the newest of all.                        *)
LEMMA SignsParts ==
  ASSUME Shapes, AppleSigns
  PROVE  /\ apple' \in Tx /\ Rank(apple) < Rank(apple')
         /\ inbox' = inbox \cup {OfApple(apple')}
         /\ UNCHANGED <<google, now, entitled>>
<1>1. apple \in Tx /\ now \in Periods /\ Periods \subseteq Nat
  BY Numbers DEF Shapes
<1>2. inbox' = inbox \cup {OfApple(apple')} /\ UNCHANGED <<google, now, entitled>>
  BY DEF AppleSigns
<1>3. ASSUME NEW p \in Nat, NEW q \in Nat, NEW tx, NEW ty,
             tx.period = p, ty.period = q,
             \/ p < q /\ ty.state = "paid"
             \/ p = q /\ tx.state = "paid" /\ ty.state = "refunded"
      PROVE  Rank(tx) < Rank(ty)
  BY <1>3 DEF Rank
<1>4. apple.period \in Nat
  <2>1. apple.period \in {0} \cup Periods
    BY <1>1 DEF Tx
  <2>2. QED
    BY <2>1, Numbers, Zenon
<1>5. CASE apple.period < now /\ apple' = [period |-> now, state |-> "paid"]
  <2>1. apple' \in Tx /\ apple'.period = now /\ apple'.state = "paid"
    BY <1>1, <1>5 DEF Tx
  <2>2. QED
    BY <1>1, <1>2, <1>3, <1>4, <1>5, <2>1
<1>6. CASE apple.state = "paid" /\ apple' = [apple EXCEPT !.state = "refunded"]
  <2>1. apple' \in Tx /\ apple'.period = apple.period /\ apple'.state = "refunded"
    BY <1>1, <1>6 DEF Tx
  <2>2. QED
    BY <1>2, <1>3, <1>4, <1>6, <2>1
<1>7. QED
  BY <1>5, <1>6 DEF AppleSigns

(* Shapes is inductive.                                                     *)
LEMMA NextShapes == Shapes /\ [Next]_vars => Shapes'
<1> SUFFICES ASSUME Shapes, [Next]_vars PROVE Shapes'
  OBVIOUS
<1>1. ASSUME NEW t \in Tokens, GoogleChanges(t) PROVE Shapes'
  <2>1. google' \in [Tokens -> States \cup {Unsold}]
    BY <1>1 DEF GoogleChanges, Shapes
  <2>2. /\ inbox' \subseteq Events /\ disowned' \subseteq Tokens
        /\ UNCHANGED <<apple, now, row, handler, newest, overtaken>>
    BY <1>1, EventParts DEF GoogleChanges, Shapes
  <2>3. QED
    BY <2>1, <2>2 DEF Shapes
<1>2. CASE AppleSigns
  BY <1>2, SignsParts, EventParts DEF Shapes, entitled
<1>3. CASE PeriodEnds
  BY <1>3, EventParts DEF PeriodEnds, Shapes, entitled
<1>4. ASSUME NEW e \in Events, Redelivered(e) PROVE Shapes'
  BY <1>4 DEF Redelivered, Shapes, stores, entitled
<1>5. ASSUME NEW e \in Events, Notified(e) PROVE Shapes'
  BY <1>5, BeginParts DEF Notified, Shapes, stores
<1>6. ASSUME NEW e \in Events, AppVerifies(e) PROVE Shapes'
  BY <1>6, BeginParts DEF AppVerifies, Shapes, stores
<1>7. CASE Grants \/ GrantFails
  <2>1. handler.event \in Events /\ handler.grant \in Grant
    BY DEF Shapes, Request
  <2>2. /\ row' \in Row /\ newest' \in Tx /\ overtaken' \in BOOLEAN
        /\ disowned' \subseteq Tokens
    BY <1>7, <2>1, UpsertParts DEF Grants, GrantFails, Shapes
  <2>3. handler' \in Request /\ inbox' \subseteq Events /\ UNCHANGED stores
    BY <1>7, <2>1, NoRequestParts DEF Grants, GrantFails, Unanswered, Shapes
  <2>4. QED
    BY <2>2, <2>3 DEF Shapes, stores
<1>8. ASSUME NEW plan \in {"free", "pro"}, AdminOverrides(plan) PROVE Shapes'
  BY <1>8, OverrideParts DEF AdminOverrides, Shapes, stores
<1>9. ASSUME NEW e \in Events, Refused(e) PROVE Shapes'
  <2>1. e.token \in Tokens
    BY <1>9, EventParts DEF Refused
  <2>2. QED
    BY <1>9, <2>1 DEF Refused, Shapes, stores
<1>10. CASE QuotaStep \/ UNCHANGED vars
  BY <1>10, QuotaApart DEF Shapes, stores, entitled
<1>11. QED
  BY <1>1, <1>2, <1>3, <1>4, <1>5, <1>6, <1>7, <1>8, <1>9, <1>10 DEF Next, QuotaStep

LEMMA InitShapes == Init => Shapes
<1>1. NoRow \in Row
  BY GrantTypes DEF NoRow, Row, Sources
<1>2. QED
  <2>1. ASSUME Init PROVE google \in [Tokens -> States \cup {Unsold}]
    BY <2>1 DEF Init
  <2>2. ASSUME Init PROVE overtaken \in BOOLEAN
    BY <2>2 DEF Init
  <2>3. QED
    BY <1>1, <2>1, <2>2, NoRequestParts, EventParts, Numbers DEF Init, Shapes

-----------------------------------------------------------------------------
(* Google. A request that asked Google holds what Google says, or a         *)
(* notification has come in since; and a row of Google's has its token.     *)
Asked ==
  handler.kind # "idle" /\ handler.event.store = "google_play" =>
    \/ handler.grant = GoogleGrant(google[handler.event.token])
    \/ handler.event \in inbox

GoogleInv ==
  /\ row.source = "google_play" => row.token \in Tokens
  /\ Asked
  /\ GoogleHeard

(* GoogleInv is inductive: one case per group of actions.                   *)
LEMMA NextGoogle == Shapes /\ GoogleInv /\ [Next]_vars => GoogleInv'
<1> SUFFICES ASSUME Shapes, GoogleInv, [Next]_vars PROVE GoogleInv'
  OBVIOUS
<1> USE DEF GoogleInv, GoogleHeard, Asked, Underway
<1>1. ASSUME NEW t \in Tokens, GoogleChanges(t) PROVE GoogleInv'
  <2>1. /\ UNCHANGED <<row, handler>> /\ inbox' = inbox \cup {OfGoogle(t)}
        /\ \A u \in Tokens \ {t} : google'[u] = google[u]
        /\ disowned' = disowned \ {t}
    BY <1>1 DEF GoogleChanges, Shapes
  <2>2. GoogleHeard'
    BY <2>1
  <2>3. handler.event.store = "google_play" =>
          handler.event.token \in Tokens /\ handler.event = OfGoogle(handler.event.token)
    BY EventParts DEF Shapes, Request
  <2>4. Asked'
    BY <2>1, <2>3
  <2>5. QED
    BY <2>1, <2>2, <2>4
<1>2. CASE AppleSigns
  BY <1>2, SignsParts DEF entitled
<1>3. CASE PeriodEnds
  BY <1>3 DEF PeriodEnds, entitled
<1>4. ASSUME NEW e \in Events, Redelivered(e) PROVE GoogleInv'
  BY <1>4 DEF Redelivered, stores, entitled
<1>5. ASSUME NEW e \in Events, Notified(e) PROVE GoogleInv'
  <2>1. /\ handler.kind = "idle" /\ inbox' = inbox \ {e} /\ UNCHANGED <<google, row, disowned>>
    BY <1>5 DEF Notified, stores
  <2>2. CASE Known(e)
    <3>1. handler'.kind = "webhook" /\ handler'.event = e /\ handler'.grant = GrantOf(e)
      BY <1>5, <2>2, BeginParts DEF Notified
    <3>2. QED
      BY <2>1, <3>1 DEF GrantOf
  <2>3. CASE ~Known(e)
    <3>1. UNCHANGED handler
      BY <1>5, <2>3 DEF Notified
    <3>2. row.source = "google_play" => e # OfGoogle(row.token)
      BY <2>3, EventParts DEF Known
    <3>3. QED
      BY <2>1, <3>1, <3>2
  <2>4. QED
    BY <2>2, <2>3
<1>6. ASSUME NEW e \in Events, AppVerifies(e) PROVE GoogleInv'
  <2>1. /\ handler.kind = "idle" /\ UNCHANGED <<google, row, inbox, disowned>>
        /\ handler'.kind = "verify" /\ handler'.event = e /\ handler'.grant = GrantOf(e)
    BY <1>6, BeginParts DEF AppVerifies, stores
  <2>2. QED
    BY <2>1 DEF GrantOf
<1>7. CASE Grants \/ GrantFails
  <2>1. /\ handler.kind # "idle" /\ handler'.kind = "idle" /\ UNCHANGED google
        /\ handler.event \in Events /\ handler.grant \in Grant
    BY <1>7, NoRequestParts DEF Grants, GrantFails, stores, Shapes, Request
  <2>2. /\ inbox \subseteq inbox'
        /\ handler.kind = "webhook" /\ inbox' = inbox => ~GrantFails \/ handler.event \in inbox
        /\ GrantFails /\ handler.kind = "webhook" => handler.event \in inbox'
    BY <1>7 DEF Grants, GrantFails, Unanswered
  <2>3. CASE Upsert(handler.event, handler.grant)
    <3>1. /\ row'.source = handler.event.store /\ row'.grant = handler.grant
          /\ row'.source = "google_play" => row'.token = handler.event.token
      BY <2>1, <2>3, UpsertParts
    <3>2. handler.event.store = "google_play" =>
            handler.event.token \in Tokens /\ handler.event = OfGoogle(handler.event.token)
      BY <2>1, EventParts
    <3>3. QED
      BY <2>1, <2>2, <3>1, <3>2
  <2>4. CASE UNCHANGED <<row, disowned>> /\ GrantFails
    BY <2>1, <2>2, <2>4
  <2>5. QED
    BY <1>7, <2>3, <2>4 DEF Grants, GrantFails
<1>8. ASSUME NEW plan \in {"free", "pro"}, AdminOverrides(plan) PROVE GoogleInv'
  BY <1>8, OverrideParts DEF AdminOverrides, stores
<1>9. ASSUME NEW e \in Events, Refused(e) PROVE GoogleInv'
  <2>1. /\ handler.kind = "idle" /\ inbox' = inbox \ {e} /\ UNCHANGED <<google, row, handler>>
        /\ disowned' = disowned \cup {e.token} /\ row.token = e.token
    BY <1>9 DEF Refused, stores, Known
  <2>2. QED
    BY <2>1
<1>10. CASE QuotaStep \/ UNCHANGED vars
  BY <1>10, QuotaApart DEF stores, entitled
<1>11. QED
  BY <1>1, <1>2, <1>3, <1>4, <1>5, <1>6, <1>7, <1>8, <1>9, <1>10 DEF Next, QuotaStep

(* A row that says Google granted it says what Google says of its token, or *)
(* a notification about it is still to be answered, or Google called the    *)
(* token invalid when it was asked about its last one: webhooks,            *)
(* verifications and overrides in any order, and requests that fail at any  *)
(* point, lose no change that Google signalled; the answer that is          *)
(* acknowledged without a write is the only way to lose one.                *)
THEOREM GoogleSignalsKept == Spec => []GoogleHeard
<1>1. Init => GoogleInv
  BY DEF Init, GoogleInv, GoogleHeard, Asked, NoRow, NoRequest
<1>2. GoogleInv => GoogleHeard
  BY DEF GoogleInv
<1>3. QED
  BY <1>1, <1>2, InitShapes, NextShapes, NextGoogle, PTL DEF Spec

-----------------------------------------------------------------------------
(* Apple. Its latest transaction was the last applied, or its notification  *)
(* is still to be answered, as soon as a row can be found for it; nothing   *)
(* that comes in is later than the latest.                                  *)
InboxDated == \A e \in inbox : e.store = "app_store" => Rank(e.tx) <= Rank(apple)

LatestHeard == row.otid => Underway(OfApple(apple)) \/ newest = apple

AppleRequest ==
  handler.kind # "idle" /\ handler.event.store = "app_store" =>
    /\ Rank(handler.event.tx) <= Rank(apple)
    /\ handler.kind = "webhook" => row.otid
    /\ handler.kind # "webhook" => handler.event = OfApple(apple) \/ OfApple(apple) \in inbox
    /\ handler.event = OfApple(apple) =>
         handler.grant = AppleGrant(apple) \/ OfApple(apple) \in inbox

AppleInv ==
  /\ row.source = "app_store" => row.otid
  /\ Rank(newest) <= Rank(apple)
  /\ InboxDated
  /\ LatestHeard
  /\ AppleRequest
  /\ AppleHeard

(* Rank orders the transactions.                                            *)
LEMMA RankOrder ==
  /\ \A tx \in Tx : Rank(tx) \in Nat
  /\ \A tx, ty \in Tx : Rank(tx) = Rank(ty) => tx = ty
<1>1. \A tx \in Tx : tx.period \in Nat /\ tx.state \in {"paid", "refunded"}
  <2>1. \A tx \in Tx : tx.period \in {0} \cup Periods /\ tx.state \in {"paid", "refunded"}
    BY DEF Tx
  <2>2. QED
    BY <2>1, Numbers, Zenon
<1>2. \A tx, ty \in Tx : tx.period = ty.period /\ tx.state = ty.state => tx = ty
  BY DEF Tx
<1>3. QED
  BY <1>1, <1>2 DEF Rank

(* The upsert of an Apple request.                                          *)
LEMMA AppleUpsert ==
  ASSUME NEW e \in Events, NEW grant, Upsert(e, grant), e.store = "app_store"
  PROVE  \/ Rank(e.tx) < Rank(newest) /\ overtaken' /\ newest' = newest
         \/ ~(Rank(e.tx) < Rank(newest)) /\ newest' = e.tx
  BY DEF Upsert

(* AppleInv is inductive: one case per group of actions.                    *)
LEMMA NextApple == Shapes /\ AppleInv /\ [Next]_vars => AppleInv'
<1> SUFFICES ASSUME Shapes, AppleInv, [Next]_vars PROVE AppleInv'
  OBVIOUS
<1> USE DEF AppleInv, InboxDated, LatestHeard, AppleRequest, AppleHeard, Underway
<1>a. /\ apple \in Tx /\ newest \in Tx /\ inbox \subseteq Events /\ handler.event \in Events
      /\ Rank(apple) \in Nat /\ Rank(newest) \in Nat
      /\ \A tx \in Tx : Rank(tx) \in Nat /\ (Rank(tx) = Rank(apple) => tx = apple)
  BY RankOrder DEF Shapes, Request
<1>b. /\ handler.event.store = "app_store" =>
           handler.event.tx \in Tx /\ handler.event = OfApple(handler.event.tx)
      /\ \A t \in Tokens : OfGoogle(t).store # "app_store"
      /\ OfApple(apple) \in Events /\ OfApple(apple).store = "app_store" /\ OfApple(apple).tx = apple
  BY <1>a, EventParts
<1>1. ASSUME NEW t \in Tokens, GoogleChanges(t) PROVE AppleInv'
  <2>1. UNCHANGED <<row, handler, newest, overtaken, apple, now>> /\ inbox' = inbox \cup {OfGoogle(t)}
    BY <1>1 DEF GoogleChanges
  <2>2. AppleGrant(apple)' = AppleGrant(apple)
    BY <2>1 DEF AppleGrant, AppleActive
  <2>3. QED
    BY <2>1, <2>2, <1>b
<1>2. CASE AppleSigns
  <2>1. /\ apple' \in Tx /\ Rank(apple) < Rank(apple') /\ inbox' = inbox \cup {OfApple(apple')}
        /\ UNCHANGED <<row, handler, newest, overtaken>>
        /\ Rank(apple') \in Nat
        /\ OfApple(apple').store = "app_store" /\ OfApple(apple').tx = apple'
    BY <1>2, SignsParts, RankOrder, EventParts DEF entitled
  <2>2. \A e \in inbox : e.store = "app_store" => Rank(e.tx) \in Nat
    BY <1>a, EventParts
  <2>3. InboxDated'
    BY <2>1, <2>2, <1>a
  <2>4. handler.event.store = "app_store" => Rank(handler.event.tx) \in Nat
    BY <1>a, <1>b
  <2>5. QED
    BY <2>1, <2>3, <2>4, <1>a
<1>3. CASE PeriodEnds
  <2>1. UNCHANGED <<row, handler, newest, overtaken, apple>> /\ now' = now + 1 /\ inbox \subseteq inbox'
    BY <1>3 DEF PeriodEnds, entitled
  <2>2. CASE apple = NoTx
    <3>1. now \in Nat \ {0}
      BY Numbers DEF Shapes
    <3>2. NoTx.period = 0 /\ NoTx.state = "paid"
      BY DEF NoTx
    <3>3. AppleGrant(apple)' = AppleGrant(apple)
      BY <2>1, <2>2, <3>1, <3>2 DEF AppleGrant, AppleActive
    <3>4. inbox' = inbox
      BY <1>3, <2>2 DEF PeriodEnds
    <3>5. QED
      BY <2>1, <3>3, <3>4
  <2>3. CASE apple # NoTx
    <3>1. inbox' = inbox \cup {OfApple(apple)}
      BY <1>3, <2>3 DEF PeriodEnds
    <3>2. QED
      BY <2>1, <3>1, <1>a, <1>b
  <2>4. QED
    BY <2>2, <2>3
<1>4. ASSUME NEW e \in Events, Redelivered(e) PROVE AppleInv'
  <2>1. /\ UNCHANGED <<row, handler, newest, overtaken, apple, now>> /\ inbox' = inbox \cup {e}
        /\ e.store = "app_store" => Rank(e.tx) <= Rank(apple)
    BY <1>4 DEF Redelivered, stores, entitled
  <2>2. AppleGrant(apple)' = AppleGrant(apple)
    BY <2>1 DEF AppleGrant, AppleActive
  <2>3. QED
    BY <2>1, <2>2
<1>5. ASSUME NEW e \in Events, Notified(e) PROVE AppleInv'
  <2>1. /\ handler.kind = "idle" /\ e \in inbox /\ inbox' = inbox \ {e}
        /\ UNCHANGED <<row, newest, overtaken, apple, now>>
    BY <1>5 DEF Notified, stores
  <2>2. AppleGrant(apple)' = AppleGrant(apple)
    BY <2>1 DEF AppleGrant, AppleActive
  <2>3. CASE Known(e)
    <3>1. handler'.kind = "webhook" /\ handler'.event = e /\ handler'.grant = GrantOf(e)
      BY <1>5, <2>3, BeginParts DEF Notified
    <3>2. e.store = "app_store" => row.otid /\ GrantOf(e) = AppleGrant(e.tx)
      BY <2>3 DEF Known, GrantOf
    <3>3. e = OfApple(apple) => GrantOf(e) = AppleGrant(apple)
      BY <3>2, <1>b
    <3>4. QED
      BY <2>1, <2>2, <3>1, <3>2, <3>3
  <2>4. CASE ~Known(e)
    <3>1. UNCHANGED handler
      BY <1>5, <2>4 DEF Notified
    <3>2. e = OfApple(apple) => ~row.otid
      BY <2>4, <1>b DEF Known
    <3>3. QED
      BY <2>1, <2>2, <3>1, <3>2
  <2>5. QED
    BY <2>3, <2>4
<1>6. ASSUME NEW e \in Events, AppVerifies(e) PROVE AppleInv'
  <2>1. /\ handler.kind = "idle" /\ UNCHANGED <<row, inbox, newest, overtaken, apple, now>>
        /\ handler'.kind = "verify" /\ handler'.event = e /\ handler'.grant = GrantOf(e)
        /\ e.store = "app_store" => e.tx = apple
    BY <1>6, BeginParts DEF AppVerifies, stores
  <2>2. AppleGrant(apple)' = AppleGrant(apple)
    BY <2>1 DEF AppleGrant, AppleActive
  <2>3. e.store = "app_store" => e = OfApple(apple) /\ GrantOf(e) = AppleGrant(apple)
    BY <2>1, EventParts DEF GrantOf
  <2>4. QED
    BY <2>1, <2>2, <2>3, <1>a, <1>b
<1>7. CASE Grants \/ GrantFails
  <2>1. /\ handler.kind # "idle" /\ handler'.kind = "idle" /\ UNCHANGED <<apple, now>>
        /\ handler.grant \in Grant
    BY <1>7, NoRequestParts DEF Grants, GrantFails, stores, Shapes, Request
  <2>2. AppleGrant(apple)' = AppleGrant(apple)
    BY <2>1 DEF AppleGrant, AppleActive
  <2>3. /\ \/ inbox' = inbox
           \/ inbox' = inbox \cup {handler.event}
        /\ GrantFails /\ handler.kind = "webhook" => handler.event \in inbox'
    BY <1>7 DEF Grants, GrantFails, Unanswered
  <2>4. InboxDated'
    BY <2>1, <2>3
  <2>5. CASE Upsert(handler.event, handler.grant) /\ handler.event.store = "app_store"
    <3>1. row'.source = "app_store" /\ row'.grant = handler.grant /\ row'.otid
      BY <2>1, <2>5, <1>a, UpsertParts
    <3>2. \/ Rank(handler.event.tx) < Rank(newest) /\ overtaken' /\ newest' = newest
          \/ ~(Rank(handler.event.tx) < Rank(newest)) /\ newest' = handler.event.tx
      BY <2>5, <1>a, AppleUpsert
    <3>3. Rank(newest') <= Rank(apple)
      BY <2>1, <2>5, <3>2
    <3>4. CASE handler.event = OfApple(apple)
      <4>1. newest' = apple
        BY <3>2, <3>4, <1>a, <1>b
      <4>2. LatestHeard' /\ AppleRequest'
        BY <2>1, <4>1
      <4>3. handler.grant = AppleGrant(apple) \/ OfApple(apple) \in inbox
        BY <2>1, <2>5, <3>4
      <4>4. AppleHeard'
        BY <2>1, <2>2, <2>3, <3>1, <4>3
      <4>5. QED
        BY <2>4, <3>1, <3>3, <4>2, <4>4, <2>1
    <3>5. CASE handler.event # OfApple(apple)
      <4>1. Rank(handler.event.tx) < Rank(apple)
        BY <2>1, <2>5, <3>5, <1>a, <1>b
      <4>2. OfApple(apple) \in inbox \/ newest = apple
        BY <2>1, <2>5, <3>5
      <4>3. newest = apple => overtaken' /\ newest' = apple
        BY <3>2, <4>1
      <4>4. LatestHeard'
        <5>1. apple' = apple /\ inbox \subseteq inbox'
          BY <2>1, <2>3
        <5>2. CASE OfApple(apple) \in inbox
          BY <5>1, <5>2
        <5>3. CASE newest = apple
          BY <4>3, <5>1, <5>3
        <5>4. QED
          BY <4>2, <5>2, <5>3
      <4>5. AppleRequest'
        BY <2>1
      <4>6. AppleHeard'
        BY <2>1, <2>3, <4>2, <4>3
      <4>7. QED
        BY <2>1, <2>4, <3>1, <3>3, <4>4, <4>5, <4>6
    <3>6. QED
      BY <3>4, <3>5
  <2>6. CASE Upsert(handler.event, handler.grant) /\ handler.event.store # "app_store"
    <3>1. row'.source = handler.event.store /\ (row'.otid => row.otid)
      <4>1. /\ row'.source = handler.event.store
            /\ row'.otid = (row.otid \/ handler.event.store = "app_store")
        BY <2>1, <2>6, <1>a, UpsertParts
      <4>2. QED
        BY <4>1, <2>6, Zenon
    <3>2. UNCHANGED <<newest, overtaken>>
      BY <2>6 DEF Upsert
    <3>3. QED
      BY <2>1, <2>2, <2>3, <2>4, <2>6, <3>1, <3>2, <1>b
  <2>7. CASE UNCHANGED <<row, newest, overtaken>> /\ GrantFails
    BY <2>1, <2>2, <2>3, <2>4, <2>7
  <2>8. QED
    BY <1>7, <2>5, <2>6, <2>7 DEF Grants, GrantFails
<1>8. ASSUME NEW plan \in {"free", "pro"}, AdminOverrides(plan) PROVE AppleInv'
  <2>1. /\ UNCHANGED <<handler, inbox, newest, overtaken, apple, now>>
        /\ row'.source = "admin_override" /\ row'.otid = row.otid
    BY <1>8, OverrideParts DEF AdminOverrides, stores
  <2>2. AppleGrant(apple)' = AppleGrant(apple)
    BY <2>1 DEF AppleGrant, AppleActive
  <2>3. QED
    BY <2>1, <2>2
<1>9. ASSUME NEW e \in Events, Refused(e) PROVE AppleInv'
  <2>1. /\ inbox' = inbox \ {e} /\ e.store = "google_play"
        /\ UNCHANGED <<row, handler, newest, overtaken, apple, now>>
    BY <1>9 DEF Refused, stores
  <2>2. AppleGrant(apple)' = AppleGrant(apple)
    BY <2>1 DEF AppleGrant, AppleActive
  <2>3. e # OfApple(apple)
    BY <2>1, <1>b
  <2>4. handler.event.store = "app_store" => handler.event # e
    BY <2>1
  <2>5. QED
    BY <2>1, <2>2, <2>3, <2>4
<1>10. CASE QuotaStep \/ UNCHANGED vars
  <2>1. UNCHANGED <<handler, inbox, newest, overtaken, apple, now, row>>
    BY <1>10, QuotaApart DEF stores, entitled
  <2>2. AppleGrant(apple)' = AppleGrant(apple)
    BY <2>1 DEF AppleGrant, AppleActive
  <2>3. QED
    BY <2>1, <2>2
<1>11. QED
  BY <1>1, <1>2, <1>3, <1>4, <1>5, <1>6, <1>7, <1>8, <1>9, <1>10 DEF Next, QuotaStep

(* A row of Apple's says what Apple's latest transaction says, or the       *)
(* notification about it is still to be answered, unless an older           *)
(* transaction was applied after a newer one: reordering is the only way to *)
(* lose what Apple said.                                                    *)
THEOREM AppleSignalsKept == Spec => []AppleHeard
<1>1. Init => AppleInv
  <2>1. NoRow.source = "none" /\ NoRow.otid = FALSE /\ NoRequest.kind = "idle"
    BY DEF NoRow, NoRequest
  <2>2. Rank(NoTx) \in Nat
    BY RankOrder, EventParts
  <2>3. QED
    BY <2>1, <2>2 DEF Init, AppleInv, InboxDated, LatestHeard, AppleRequest, AppleHeard
<1>2. AppleInv => AppleHeard
  BY DEF AppleInv
<1>3. QED
  BY <1>1, <1>2, InitShapes, NextShapes, NextApple, PTL DEF Spec

(* Neither store is left unheard.                                           *)
THEOREM StoreSignalsKept == Spec => []StoresHeard
<1>1. GoogleHeard /\ AppleHeard => StoresHeard
  BY DEF StoresHeard
<1>2. QED
  BY <1>1, GoogleSignalsKept, AppleSignalsKept, PTL

-----------------------------------------------------------------------------
(* Induction, with the property as a set: every nonempty set of numbers has *)
(* a least element.                                                         *)
LEMMA LessThanRelation ==
  \E R : IsWellFoundedOn(R, Nat) /\ \A n, m \in Nat : n < m => <<n, m>> \in R
<1>1. IsWellFoundedOn(OpToRel(<, Nat), Nat)
  BY NatLessThanWellFounded
<1>2. \A n, m \in Nat : n < m => <<n, m>> \in OpToRel(<, Nat)
  BY DEF OpToRel
<1>3. QED
  BY <1>1, <1>2, Zenon

LEMMA LeastNumber ==
  ASSUME NEW S, S \subseteq Nat, S # {}
  PROVE  \E m \in S : \A n \in S : m <= n
<1>1. PICK R : IsWellFoundedOn(R, Nat) /\ \A n, m \in Nat : n < m => <<n, m>> \in R
  BY LessThanRelation
<1>2. IsWellFoundedOn(R, Nat) /\ S \subseteq Nat /\ S # {}
  BY <1>1
<1>3. \E m \in S : \A n \in S : ~ (<<n, m>> \in R)
  BY <1>2, WFMin, Zenon
<1>4. PICK m \in S : \A n \in S : ~ (<<n, m>> \in R)
  BY <1>3
<1>5. \A n \in S : ~ (n < m)
  BY <1>1, <1>4
<1>6. QED
  BY <1>5

(* What holds of the empty set and of a set if of it without any one of its *)
(* elements holds of every finite set.                                      *)
LEMMA SubsetInduction ==
  ASSUME NEW D, IsFiniteSet(D), NEW G, {} \in G,
         \A s \in SUBSET D : s # {} /\ (\A x \in s : s \ {x} \in G) => s \in G
  PROVE  \A s \in SUBSET D : s \in G
<1> SUFFICES ASSUME NEW b \in SUBSET D, b \notin G PROVE FALSE
  OBVIOUS
<1>0. \A s \in SUBSET D : IsFiniteSet(s) /\ Cardinality(s) \in Nat
  BY FS_Subset, FS_CardinalityType
<1> DEFINE bad == {Cardinality(s) : s \in {t \in SUBSET D : t \notin G}}
<1>1. bad \subseteq Nat /\ bad # {}
  BY <1>0
<1>2. PICK m \in bad : \A n \in bad : m <= n
  BY <1>1, LeastNumber
<1>3. PICK s \in SUBSET D : s \notin G /\ m = Cardinality(s)
  BY <1>2
<1>4. ASSUME NEW x \in s PROVE s \ {x} \in G
  <2>1. Cardinality(s \ {x}) = m - 1 /\ m \in Nat
    BY <1>0, <1>3, FS_RemoveElement
  <2>2. s \ {x} \in SUBSET D
    OBVIOUS
  <2>3. QED
    BY <1>2, <2>1, <2>2
<1>5. QED
  BY <1>3, <1>4

(* The recursion SumFunction unfolds to, for the subsets of a domain.       *)
SumStep(f, g, s) ==
  IF s = {} THEN 0 ELSE f[CHOOSE x \in s : TRUE] + g[s \ {CHOOSE x \in s : TRUE}]
SumsOf(f, D, g) == g = [s \in SUBSET D |-> SumStep(f, g, s)]

(* It has a solution, which is built up to the cardinality of the domain.   *)
LEMMA SumsExist ==
  ASSUME NEW D, IsFiniteSet(D), NEW f \in [D -> Nat]
  PROVE  \E g : SumsOf(f, D, g)
<1> DEFINE upto(n) == {h \in [SUBSET D -> Nat] :
                         \A s \in SUBSET D : Cardinality(s) <= n => h[s] = SumStep(f, h, s)}
           bad == {n \in Nat : upto(n) = {}}
<1>0. \A s \in SUBSET D : /\ IsFiniteSet(s) /\ Cardinality(s) \in Nat
                          /\ Cardinality(s) <= Cardinality(D) /\ (Cardinality(s) = 0 <=> s = {})
  BY FS_Subset, FS_CardinalityType, FS_EmptySet
<1>1. upto(0) # {}
  <2>1. [s \in SUBSET D |-> 0] \in upto(0)
    BY <1>0 DEF SumStep
  <2>2. QED
    BY <2>1
<1>2. ASSUME NEW n \in Nat, upto(n) # {} PROVE upto(n + 1) # {}
  <2>1. PICK h \in [SUBSET D -> Nat] :
          \A s \in SUBSET D : Cardinality(s) <= n => h[s] = SumStep(f, h, s)
    BY <1>2
  <2> DEFINE k == [s \in SUBSET D |-> SumStep(f, h, s)]
  <2>2. \A s \in SUBSET D : s # {} => (CHOOSE x \in s : TRUE) \in s
    OBVIOUS
  <2>3. k \in [SUBSET D -> Nat]
    BY <2>1, <2>2 DEF SumStep
  <2>4. ASSUME NEW s \in SUBSET D, Cardinality(s) <= n + 1 PROVE k[s] = SumStep(f, k, s)
    <3>1. CASE s = {}
      BY <3>1 DEF SumStep
    <3>2. CASE s # {}
      <4> DEFINE x == CHOOSE x \in s : TRUE
      <4>1. x \in s
        BY <3>2
      <4>2. Cardinality(s \ {x}) <= n /\ s \ {x} \in SUBSET D
        BY <1>0, <2>4, <4>1, FS_RemoveElement
      <4>3. k[s \ {x}] = h[s \ {x}]
        BY <2>1, <4>2
      <4>4. QED
        BY <3>2, <4>3 DEF SumStep
    <3>3. QED
      BY <3>1, <3>2
  <2>5. k \in upto(n + 1)
    <3> HIDE DEF k
    <3> QED BY <2>3, <2>4
  <2>6. QED
    BY <2>5
<1> HIDE DEF upto
<1>3. bad = {}
  <2> SUFFICES ASSUME bad # {} PROVE FALSE
    OBVIOUS
  <2>1. PICK m \in bad : \A n \in bad : m <= n
    BY LeastNumber
  <2>2. m \in Nat \ {0} /\ upto(m) = {}
    BY <1>1
  <2>3. m - 1 \in Nat /\ m - 1 \notin bad
    BY <2>1, <2>2
  <2>4. upto((m - 1) + 1) # {}
    BY <1>2, <2>3
  <2>5. (m - 1) + 1 = m
    BY <2>2
  <2>6. QED
    BY <2>2, <2>4, <2>5
<1>4. PICK h : h \in upto(Cardinality(D))
  <2>1. Cardinality(D) \in Nat
    BY <1>0
  <2>2. QED
    BY <1>3, <2>1
<1>5. h \in [SUBSET D -> Nat] /\ \A s \in SUBSET D : h[s] = SumStep(f, h, s)
  BY <1>0, <1>4 DEF upto
<1>6. SumsOf(f, D, h)
  BY <1>5 DEF SumsOf
<1>7. QED
  BY <1>6

(* The sum of the library is the one of that recursion.                     *)
LEMMA SumUnfolds ==
  ASSUME NEW D, IsFiniteSet(D), NEW f \in [D -> Nat]
  PROVE  \E g : SumsOf(f, D, g) /\ SumFunction(f) = g[D]
<1> DEFINE g == CHOOSE g : SumsOf(f, D, g)
<1>1. SumsOf(f, D, g)
  BY SumsExist
<1>2. SumFunction(f) = g[D]
  <2>1. DOMAIN f = D
    OBVIOUS
  <2>2. QED
    BY <2>1 DEF SumsOf, SumStep, SumFunction, SumFunctionOnSet, FoldFunctionOnSet, MapThenFoldSet
<1>3. QED
  BY <1>1, <1>2

(* The sum over any part of the domain is a number.                         *)
LEMMA SumIsNat ==
  ASSUME NEW D, IsFiniteSet(D), NEW f \in [D -> Nat], NEW g, SumsOf(f, D, g)
  PROVE  \A s \in SUBSET D : g[s] \in Nat
<1> DEFINE G == {s \in SUBSET D : g[s] \in Nat}
<1>0. \A s \in SUBSET D : g[s] = SumStep(f, g, s)
  BY DEF SumsOf
<1>1. {} \in G
  BY <1>0 DEF SumStep
<1>2. ASSUME NEW s \in SUBSET D, s # {}, \A x \in s : s \ {x} \in G PROVE s \in G
  <2> DEFINE x == CHOOSE x \in s : TRUE
  <2>1. x \in s
    BY <1>2
  <2> HIDE DEF x
  <2>2. g[s] = f[x] + g[s \ {x}]
    BY <1>0, <1>2 DEF SumStep, x
  <2>3. QED
    BY <1>2, <2>1, <2>2
<1> HIDE DEF G
<1>3. \A s \in SUBSET D : s \in G
  BY <1>1, <1>2, SubsetInduction
<1>4. QED
  BY <1>3 DEF G

(* One day more is one more in the sum.                                     *)
LEMMA SumBump ==
  ASSUME NEW D, IsFiniteSet(D), NEW f \in [D -> Nat], NEW d \in D
  PROVE  /\ SumFunction(f) \in Nat
         /\ SumFunction([f EXCEPT ![d] = @ + 1]) = SumFunction(f) + 1
<1> DEFINE e == [f EXCEPT ![d] = @ + 1]
<1>0. e \in [D -> Nat] /\ \A x \in D : e[x] = IF x = d THEN f[x] + 1 ELSE f[x]
  OBVIOUS
<1> HIDE DEF e
<1>1. PICK g : SumsOf(f, D, g) /\ SumFunction(f) = g[D]
  BY SumUnfolds
<1>2. PICK h : SumsOf(e, D, h) /\ SumFunction(e) = h[D]
  BY <1>0, SumUnfolds
<1>3. \A s \in SUBSET D : g[s] \in Nat /\ h[s] \in Nat
  BY <1>0, <1>1, <1>2, SumIsNat
<1>4. \A s \in SUBSET D : g[s] = SumStep(f, g, s) /\ h[s] = SumStep(e, h, s)
  BY <1>1, <1>2 DEF SumsOf
<1> DEFINE G == {s \in SUBSET D : h[s] = g[s] + (IF d \in s THEN 1 ELSE 0)}
<1>5. {} \in G
  BY <1>4 DEF SumStep
<1>6. ASSUME NEW s \in SUBSET D, s # {}, \A x \in s : s \ {x} \in G PROVE s \in G
  <2> DEFINE x == CHOOSE x \in s : TRUE
  <2>1. x \in s
    BY <1>6
  <2> HIDE DEF x
  <2>2. g[s] = f[x] + g[s \ {x}] /\ h[s] = e[x] + h[s \ {x}]
    BY <1>4, <1>6 DEF SumStep, x
  <2>3. h[s \ {x}] = g[s \ {x}] + (IF d \in s \ {x} THEN 1 ELSE 0)
    BY <1>6, <2>1
  <2>4. g[s \ {x}] \in Nat /\ f[x] \in Nat
    BY <1>3, <2>1
  <2>5. CASE x = d
    BY <1>0, <2>1, <2>2, <2>3, <2>4, <2>5
  <2>6. CASE x # d
    <3>1. e[x] = f[x] /\ (d \in s \ {x} <=> d \in s)
      BY <1>0, <2>1, <2>6
    <3>2. QED
      BY <2>2, <2>3, <2>4, <3>1
  <2>7. QED
    BY <2>5, <2>6
<1> HIDE DEF G
<1>7. D \in G
  BY <1>5, <1>6, SubsetInduction
<1>8. h[D] = g[D] + 1
  BY <1>7 DEF G
<1>9. QED
  BY <1>1, <1>2, <1>3, <1>8 DEF e

LEMMA SumZero ==
  ASSUME NEW D, IsFiniteSet(D) PROVE SumFunction([d \in D |-> 0]) = 0
<1> DEFINE f == [d \in D |-> 0]
<1>0. f \in [D -> Nat] /\ \A x \in D : f[x] = 0
  OBVIOUS
<1> HIDE DEF f
<1>1. PICK g : SumsOf(f, D, g) /\ SumFunction(f) = g[D]
  BY <1>0, SumUnfolds
<1>2. \A s \in SUBSET D : g[s] = SumStep(f, g, s)
  BY <1>1 DEF SumsOf
<1> DEFINE G == {s \in SUBSET D : g[s] = 0}
<1>3. {} \in G
  BY <1>2 DEF SumStep
<1>4. ASSUME NEW s \in SUBSET D, s # {}, \A x \in s : s \ {x} \in G PROVE s \in G
  <2> DEFINE x == CHOOSE x \in s : TRUE
  <2>1. x \in s
    BY <1>4
  <2> HIDE DEF x
  <2>2. g[s] = f[x] + g[s \ {x}]
    BY <1>2, <1>4 DEF SumStep, x
  <2>3. g[s \ {x}] = 0 /\ f[x] = 0
    BY <1>0, <1>4, <2>1
  <2>4. QED
    BY <2>2, <2>3
<1> HIDE DEF G
<1>5. \A s \in SUBSET D : s \in G
  BY <1>3, <1>4, SubsetInduction
<1>6. QED
  BY <1>1, <1>5 DEF G, f

-----------------------------------------------------------------------------
(* The quota. A scan past the choice of its day holds the row of that day   *)
(* alone.                                                                   *)
AtRow(s) == scan[s].pc \in {"sum", "bump"}
QuotaTypes ==
  /\ scan \in [Scans -> Scan]
  /\ \A s \in Scans : scan[s].pc # "idle" => scan[s].day \in Days
  /\ usage \in [Days -> Nat]
  /\ today \in Days
OneHolder ==
  \A s, q \in Scans : AtRow(s) /\ AtRow(q) /\ scan[s].day = scan[q].day => s = q

(* The days to which a scan that read a sum below the limit will add one.   *)
Promises(s, d) == scan[s].pc = "bump" /\ scan[s].used < Limit /\ scan[s].day = d
Promised == {d \in Days : \E s \in Scans : Promises(s, d)}
WithinCap == Used + Cardinality(Promised) <= Limit + Cardinality(Days) - 1

QuotaInv == QuotaTypes /\ OneHolder /\ WithinCap

(* Counting days.                                                           *)
LEMMA DayCounts ==
  /\ IsFiniteSet(Days) /\ Cardinality(Days) \in Nat \ {0} /\ Limit \in Nat /\ 1 \in Days
  /\ \A S \in SUBSET Days : /\ IsFiniteSet(S) /\ Cardinality(S) \in Nat
                            /\ Cardinality(S) <= Cardinality(Days)
<1>1. IsFiniteSet(Days) /\ 1 \in Days /\ Limit \in Nat
  BY SubscriptionsAssumption
<1>2. Cardinality(Days) \in Nat /\ Cardinality(Days) # 0
  BY <1>1, FS_CardinalityType, FS_EmptySet
<1>3. \A S \in SUBSET Days : /\ IsFiniteSet(S) /\ Cardinality(S) \in Nat
                             /\ Cardinality(S) <= Cardinality(Days)
  BY <1>1, FS_Subset, FS_CardinalityType
<1>4. QED
  BY <1>1, <1>2, <1>3

(* The sum of the month is a number.                                        *)
LEMMA UsedIsNat ==
  ASSUME QuotaTypes PROVE Used \in Nat
BY SumBump, DayCounts DEF QuotaTypes, Used

(* A scan that read the sum commits: the counter moves by one just when it  *)
(* was promised.                                                            *)
LEMMA BumpParts ==
  ASSUME QuotaTypes, NEW s \in Scans, scan[s].pc = "bump", usage' = Bumped(s)
  PROVE  /\ usage' \in [Days -> Nat]
         /\ Used' = Used + (IF scan[s].used < Limit THEN 1 ELSE 0)
<1>0. /\ scan[s].day \in Days /\ scan[s].used \in Nat /\ usage \in [Days -> Nat]
      /\ IsFiniteSet(Days) /\ Limit \in Nat /\ Used \in Nat
  BY DayCounts, UsedIsNat DEF QuotaTypes, Scan
<1>1. CASE scan[s].used >= Limit
  <2>1. usage' = usage
    BY <1>1 DEF Bumped
  <2>2. Used' = Used /\ ~(scan[s].used < Limit)
    BY <1>0, <1>1, <2>1 DEF Used
  <2>3. QED
    BY <1>0, <2>1, <2>2
<1>2. CASE ~(scan[s].used >= Limit)
  <2>1. usage' = [usage EXCEPT ![scan[s].day] = @ + 1]
    BY <1>2 DEF Bumped
  <2>2. SumFunction([usage EXCEPT ![scan[s].day] = @ + 1]) = SumFunction(usage) + 1
    BY <1>0, SumBump
  <2>3. Used' = Used + 1
    BY <2>1, <2>2 DEF Used
  <2>4. usage' \in [Days -> Nat]
    BY <1>0, <2>1
  <2>5. scan[s].used < Limit
    BY <1>0, <1>2
  <2>6. QED
    BY <2>3, <2>4, <2>5
<1>3. QED
  BY <1>1, <1>2

(* A scan that leaves takes its promise along, and only its own.            *)
LEMMA LeaveParts ==
  ASSUME QuotaTypes, OneHolder, NEW s \in Scans, MoveScan(s, NoScan)
  PROVE  /\ scan' \in [Scans -> Scan] /\ OneHolder'
         /\ \A q \in Scans : scan'[q].pc # "idle" => scan'[q].day \in Days
         /\ Promised' \subseteq Promised
         /\ scan[s].pc = "bump" /\ scan[s].used < Limit =>
              Cardinality(Promised') <= Cardinality(Promised) - 1
<1>0. /\ scan \in [Scans -> Scan] /\ NoScan \in Scan /\ NoScan.pc = "idle"
      /\ scan' = [scan EXCEPT ![s] = NoScan]
  BY DEF QuotaTypes, Scan, NoScan, MoveScan
<1>1. /\ scan'[s].pc = "idle" /\ \A q \in Scans \ {s} : scan'[q] = scan[q]
      /\ scan' \in [Scans -> Scan]
  BY <1>0
<1>2. OneHolder'
  BY <1>1 DEF OneHolder, AtRow
<1>3. \A q \in Scans : scan'[q].pc # "idle" => scan'[q].day \in Days
  BY <1>1 DEF QuotaTypes
<1>4. Promised' \subseteq Promised
  BY <1>1 DEF Promised, Promises
<1>5. ASSUME scan[s].pc = "bump", scan[s].used < Limit
      PROVE  Cardinality(Promised') <= Cardinality(Promised) - 1
  <2>1. scan[s].day \in Promised
    BY <1>5 DEF Promised, Promises, QuotaTypes
  <2>2. scan[s].day \notin Promised'
    BY <1>1, <1>5 DEF Promised, Promises, OneHolder, AtRow
  <2>3. IsFiniteSet(Promised)
    BY DayCounts DEF Promised
  <2>4. Promised' \subseteq Promised \ {scan[s].day}
    BY <1>4, <2>2
  <2>5. /\ Cardinality(Promised \ {scan[s].day}) = Cardinality(Promised) - 1
        /\ IsFiniteSet(Promised \ {scan[s].day})
    BY <2>1, <2>3, FS_RemoveElement
  <2>6. QED
    BY <2>4, <2>5, FS_Subset
<1>6. QED
  BY <1>1, <1>2, <1>3, <1>4, <1>5

(* A step that leaves the quota alone.                                      *)
LEMMA QuotaSame == QuotaInv /\ UNCHANGED quota => QuotaInv'
BY DEF QuotaInv, QuotaTypes, OneHolder, AtRow, WithinCap, Used, Promised, Promises, quota

(* QuotaInv is inductive: as the row of its day is locked from the read of  *)
(* the sum to the commit, the sum may be stale by the promises of the other *)
(* days only.                                                               *)
LEMMA NextQuota == QuotaInv /\ [Next]_vars => QuotaInv'
<1> SUFFICES ASSUME QuotaInv, [Next]_vars PROVE QuotaInv'
  OBVIOUS
<1>0. /\ QuotaTypes /\ OneHolder /\ WithinCap
      /\ scan \in [Scans -> Scan] /\ usage \in [Days -> Nat] /\ today \in Days
      /\ Used \in Nat /\ Limit \in Nat /\ Cardinality(Days) \in Nat \ {0}
      /\ Promised \in SUBSET Days /\ Cardinality(Promised) \in Nat
      /\ NoScan \in Scan
  BY UsedIsNat, DayCounts DEF QuotaInv, QuotaTypes, Promised, NoScan, Scan
<1>a. Promised' \in SUBSET Days /\ Cardinality(Promised') \in Nat
  BY DayCounts DEF Promised
<1>1. ASSUME NEW s \in Scans, ScanStarts(s) PROVE QuotaInv'
  <2> DEFINE rec == [NoScan EXCEPT !.pc = "lock", !.day = today]
  <2>1. rec \in Scan /\ rec.pc = "lock" /\ rec.day \in Days
    BY <1>0 DEF NoScan, Scan
  <2>2. /\ scan' = [scan EXCEPT ![s] = rec] /\ UNCHANGED <<usage, today>> /\ scan[s].pc = "idle"
    BY <1>1 DEF ScanStarts, MoveScan
  <2> HIDE DEF rec
  <2>3. QuotaTypes' /\ OneHolder'
    BY <1>0, <2>1, <2>2 DEF QuotaTypes, OneHolder, AtRow
  <2>4. Promised' = Promised /\ Used' = Used
    BY <1>0, <2>1, <2>2 DEF Promised, Promises, Used
  <2>5. QED
    BY <1>0, <2>3, <2>4 DEF QuotaInv, WithinCap
<1>2. ASSUME NEW s \in Scans, ScanLocks(s) PROVE QuotaInv'
  <2> DEFINE rec == [scan[s] EXCEPT !.pc = "sum"]
  <2>1. rec \in Scan /\ rec.pc = "sum" /\ rec.day = scan[s].day /\ scan[s].pc = "lock"
        /\ scan[s].day \in Days
    BY <1>0, <1>2 DEF Scan, ScanLocks, QuotaTypes
  <2>2. /\ scan' = [scan EXCEPT ![s] = rec] /\ UNCHANGED <<usage, today>>
        /\ Free(scan[s].day)
    BY <1>2 DEF ScanLocks, MoveScan
  <2> HIDE DEF rec
  <2>3. QuotaTypes'
    BY <1>0, <2>1, <2>2 DEF QuotaTypes
  <2>4. OneHolder'
    BY <1>0, <2>1, <2>2 DEF OneHolder, AtRow, Free, Holds
  <2>5. Promised' = Promised /\ Used' = Used
    BY <1>0, <2>1, <2>2 DEF Promised, Promises, Used
  <2>6. QED
    BY <1>0, <2>3, <2>4, <2>5 DEF QuotaInv, WithinCap
<1>3. ASSUME NEW s \in Scans, ScanSums(s) PROVE QuotaInv'
  <2> DEFINE rec == [scan[s] EXCEPT !.pc = "bump", !.used = Used]
  <2>1. rec \in Scan /\ rec.pc = "bump" /\ rec.day = scan[s].day /\ scan[s].pc = "sum"
        /\ scan[s].day \in Days /\ rec.used = Used
    BY <1>0, <1>3 DEF Scan, ScanSums, QuotaTypes
  <2>2. scan' = [scan EXCEPT ![s] = rec] /\ UNCHANGED <<usage, today>>
    BY <1>3 DEF ScanSums, MoveScan
  <2> HIDE DEF rec
  <2>3. QuotaTypes' /\ OneHolder'
    BY <1>0, <2>1, <2>2 DEF QuotaTypes, OneHolder, AtRow
  <2>4. Used' = Used
    BY <2>2 DEF Used
  <2>5. CASE Used < Limit
    <3>1. Cardinality(Promised') <= Cardinality(Days)
      BY <1>a, DayCounts
    <3>2. QED
      BY <1>0, <1>a, <2>3, <2>4, <2>5, <3>1 DEF QuotaInv, WithinCap
  <2>6. CASE ~(Used < Limit)
    <3>1. Promised' \subseteq Promised
      BY <1>0, <2>1, <2>2, <2>6 DEF Promised, Promises
    <3>2. Cardinality(Promised') <= Cardinality(Promised)
      BY <1>0, <3>1, DayCounts, FS_Subset
    <3>3. QED
      BY <1>0, <1>a, <2>3, <2>4, <3>2 DEF QuotaInv, WithinCap
  <2>7. QED
    BY <2>5, <2>6
<1>4. ASSUME NEW s \in Scans, MoveScan(s, NoScan), UNCHANGED today,
             UNCHANGED usage \/ (scan[s].pc = "bump" /\ usage' = Bumped(s))
      PROVE  QuotaInv'
  <2>1. /\ scan' \in [Scans -> Scan] /\ OneHolder'
        /\ \A q \in Scans : scan'[q].pc # "idle" => scan'[q].day \in Days
        /\ Cardinality(Promised') <= Cardinality(Promised)
        /\ scan[s].pc = "bump" /\ scan[s].used < Limit =>
              Cardinality(Promised') <= Cardinality(Promised) - 1
    BY <1>0, <1>4, LeaveParts, DayCounts, FS_Subset
  <2>2. CASE UNCHANGED usage
    <3>1. Used' = Used
      BY <2>2 DEF Used
    <3>2. QED
      BY <1>0, <1>4, <1>a, <2>1, <2>2, <3>1 DEF QuotaInv, QuotaTypes, WithinCap
  <2>3. CASE scan[s].pc = "bump" /\ usage' = Bumped(s)
    <3>1. /\ usage' \in [Days -> Nat]
          /\ Used' = Used + (IF scan[s].used < Limit THEN 1 ELSE 0)
      BY <1>0, <2>3, BumpParts
    <3>2. QuotaTypes'
      BY <1>0, <1>4, <2>1, <3>1 DEF QuotaTypes
    <3>3. WithinCap'
      <4>1. CASE scan[s].used < Limit
        BY <1>0, <1>a, <2>1, <2>3, <3>1, <4>1 DEF WithinCap
      <4>2. CASE ~(scan[s].used < Limit)
        BY <1>0, <1>a, <2>1, <3>1, <4>2 DEF WithinCap
      <4>3. QED
        BY <4>1, <4>2
    <3>4. QED
      BY <2>1, <3>2, <3>3 DEF QuotaInv
  <2>4. QED
    BY <1>4, <2>2, <2>3
<1>5. ASSUME NEW s \in Scans, ScanCommits(s) \/ ScanFailsOpen(s) PROVE QuotaInv'
  BY <1>4, <1>5 DEF ScanCommits, ScanFailsOpen
<1>6. CASE AdminResets
  <2>1. usage' = [d \in Days |-> 0] /\ UNCHANGED <<scan, today>> /\ \A d \in Days : Free(d)
    BY <1>6 DEF AdminResets
  <2>2. QuotaTypes' /\ OneHolder'
    BY <1>0, <2>1 DEF QuotaTypes, OneHolder, AtRow
  <2>3. Used' = 0
    <3>1. SumFunction([d \in Days |-> 0]) = 0
      BY DayCounts, SumZero
    <3>2. QED
      BY <2>1, <3>1 DEF Used
  <2>4. Promised' = {}
    BY <2>1 DEF Promised, Promises, Free, Holds
  <2>5. Cardinality(Promised') = 0
    BY <2>4, FS_EmptySet
  <2>6. QED
    BY <1>0, <2>2, <2>3, <2>5 DEF QuotaInv, WithinCap
<1>7. CASE Midnight
  <2>1. today' \in Days /\ UNCHANGED <<scan, usage>>
    BY <1>7 DEF Midnight
  <2>2. QuotaTypes' /\ OneHolder' /\ Used' = Used /\ Promised' = Promised
    BY <1>0, <2>1 DEF QuotaTypes, OneHolder, AtRow, Used, Promised, Promises
  <2>3. QED
    BY <1>0, <2>2 DEF QuotaInv, WithinCap
<1>8. CASE \/ AppleSigns \/ PeriodEnds \/ Grants \/ GrantFails
           \/ \E t \in Tokens : GoogleChanges(t)
           \/ \E e \in Events : Redelivered(e) \/ Notified(e) \/ Refused(e) \/ AppVerifies(e)
           \/ \E plan \in {"free", "pro"} : AdminOverrides(plan)
           \/ UNCHANGED vars
  BY <1>8, QuotaSame DEF AppleSigns, PeriodEnds, Grants, GrantFails, GoogleChanges, Redelivered,
     Notified, Refused, AppVerifies, AdminOverrides, vars
<1>9. QED
  BY <1>1, <1>2, <1>3, <1>5, <1>6, <1>7, <1>8 DEF Next

LEMMA InitQuota == Init => QuotaInv
<1> SUFFICES ASSUME Init PROVE QuotaInv
  OBVIOUS
<1>1. NoScan \in Scan /\ NoScan.pc = "idle"
  BY DEF NoScan, Scan
<1>2. QuotaTypes /\ OneHolder
  BY <1>1, DayCounts DEF Init, QuotaTypes, OneHolder, AtRow
<1>3. Used = 0
  <2>1. SumFunction([d \in Days |-> 0]) = 0
    BY DayCounts, SumZero
  <2>2. QED
    BY <2>1 DEF Init, Used
<1>4. Cardinality(Promised) = 0
  <2>1. Promised = {}
    BY <1>1 DEF Init, Promised, Promises
  <2>2. QED
    BY <2>1, FS_EmptySet
<1>5. QED
  BY <1>2, <1>3, <1>4, DayCounts DEF QuotaInv, WithinCap

(* The month's cap gives way by at most one scan per day change: for any    *)
(* limit, number of scans at work, resets and failures that let a scan go   *)
(* ahead. The lock of one day's row keeps all but one scan of that day from *)
(* acting on a stale sum.                                                   *)
THEOREM MonthStaysCapped == Spec => []MonthCapped
<1>1. QuotaInv => MonthCapped
  <2> SUFFICES ASSUME QuotaInv PROVE MonthCapped
    OBVIOUS
  <2>1. /\ Used \in Nat /\ Promised \in SUBSET Days /\ Limit \in Nat
        /\ Cardinality(Days) \in Nat
    BY UsedIsNat, DayCounts DEF QuotaInv, Promised
  <2>2. Cardinality(Promised) \in Nat
    BY <2>1, DayCounts
  <2>3. QED
    BY <2>1, <2>2 DEF QuotaInv, WithinCap, MonthCapped
<1>2. QED
  BY <1>1, InitQuota, NextQuota, PTL DEF Spec

-----------------------------------------------------------------------------
(* Plans that are paid for. What a grant of a store may say; and the app    *)
(* and the stores name only tokens that were bought, as Google is said to   *)
(* give nothing for the others.                                             *)
Paid(g, source) ==
  /\ g.plan = "pro" => g.status # "expired"
  /\ g.plan = "pro" /\ source = "app_store" => g.status = "active"
Sold(e) == e.store = "google_play" => google[e.token] # Unsold

PaidInv ==
  /\ \A e \in inbox : Sold(e)
  /\ handler.kind # "idle" => /\ Sold(handler.event)
                              /\ Paid(handler.grant, handler.event.store)
  /\ Paid(row.grant, row.source)

Bounded == inputs \in 0..MaxInputs /\ faults \in 0..MaxFaults

LEMMA NextBounded == Bounded /\ [Next]_vars => Bounded'
<1> SUFFICES ASSUME Bounded, [Next]_vars PROVE Bounded'
  OBVIOUS
<1>1. MaxInputs \in Nat /\ MaxFaults \in Nat
  BY SubscriptionsAssumption
<1>2. Input \/ Fault \/ Work \/ UNCHANGED vars
  BY DEF Next, AppleSigns, PeriodEnds, Grants, GrantFails, AdminResets, Midnight, GoogleChanges,
     Redelivered, Notified, Refused, AppVerifies, AdminOverrides, ScanStarts, ScanLocks, ScanSums,
     ScanCommits, ScanFailsOpen
<1>3. CASE Input
  BY <1>1, <1>3 DEF Input, Bounded
<1>4. CASE Fault
  BY <1>1, <1>4 DEF Fault, Bounded
<1>5. CASE Work \/ UNCHANGED vars
  BY <1>5 DEF Work, vars, Bounded
<1>6. QED
  BY <1>2, <1>3, <1>4, <1>5

(* What a store is asked about something sold is a grant that is paid for.  *)
LEMMA GrantsPaid ==
  ASSUME Shapes, NEW e \in Events, Sold(e)
  PROVE  Paid(GrantOf(e), e.store)
<1>1. CASE e.store = "google_play"
  <2>1. google[e.token] \in States
    BY <1>1, EventParts DEF Shapes, Sold
  <2>2. QED
    BY <1>1, <2>1 DEF GrantOf, GoogleGrant, Paid, States
<1>2. CASE e.store # "google_play"
  BY <1>2 DEF GrantOf, AppleGrant, AppleActive, Paid
<1>3. QED
  BY <1>1, <1>2

(* PaidInv is inductive: one case per group of actions.                     *)
LEMMA NextPaid == Shapes /\ PaidInv /\ [Next]_vars => PaidInv'
<1> SUFFICES ASSUME Shapes, PaidInv, [Next]_vars PROVE PaidInv'
  OBVIOUS
<1>0. \A e \in inbox : e \in Events
  BY DEF Shapes
<1>1. ASSUME NEW t \in Tokens, GoogleChanges(t) PROVE PaidInv'
  <2>1. PICK s \in States : google' = [google EXCEPT ![t] = s]
    BY <1>1 DEF GoogleChanges
  <2>2. /\ UNCHANGED <<row, handler>> /\ inbox' = inbox \cup {OfGoogle(t)}
        /\ google'[t] # Unsold /\ \A u \in Tokens \ {t} : google'[u] = google[u]
    BY <1>1, <2>1 DEF GoogleChanges, Shapes, States, Unsold
  <2>3. \A e \in Events : Sold(e) => Sold(e)'
    BY <2>2, EventParts DEF Sold
  <2>4. Sold(OfGoogle(t))'
    BY <2>2, EventParts DEF Sold
  <2>5. handler.event \in Events
    BY DEF Shapes, Request
  <2>6. \A e \in inbox' : Sold(e)'
    BY <1>0, <2>2, <2>3, <2>4 DEF PaidInv
  <2>7. handler'.kind # "idle" => /\ Sold(handler.event)'
                                  /\ Paid(handler.grant, handler.event.store)'
    BY <2>2, <2>3, <2>5 DEF PaidInv
  <2>8. QED
    BY <2>2, <2>6, <2>7 DEF PaidInv, Paid, Sold
<1>2. CASE AppleSigns \/ PeriodEnds
  <2>1. UNCHANGED <<google, row, handler>>
    BY <1>2 DEF AppleSigns, PeriodEnds, entitled
  <2>2. \A e \in inbox' : e \in inbox \/ e.store = "app_store"
    <3>1. \A tx : OfApple(tx).store = "app_store"
      BY DEF OfApple
    <3>2. QED
      BY <1>2, <3>1 DEF AppleSigns, PeriodEnds
  <2>3. QED
    BY <2>1, <2>2 DEF PaidInv, Sold, Paid
<1>3. ASSUME NEW e \in Events, Redelivered(e) PROVE PaidInv'
  <2>1. Sold(e)
    BY <1>3 DEF Redelivered, Sold
  <2>2. UNCHANGED <<google, row, handler>> /\ inbox' = inbox \cup {e}
    BY <1>3 DEF Redelivered, stores, entitled
  <2>3. QED
    BY <2>1, <2>2 DEF PaidInv, Sold, Paid
<1>4. ASSUME NEW e \in Events, NEW kind \in {"webhook", "verify"}, Sold(e), Begin(kind, e),
             UNCHANGED <<google, row>>, inbox' \subseteq inbox
      PROVE  PaidInv'
  <2>1. handler'.event = e /\ handler'.grant = GrantOf(e)
    BY <1>4, BeginParts
  <2>2. Paid(GrantOf(e), e.store)
    BY <1>4, GrantsPaid
  <2>3. \A x \in inbox' : Sold(x)'
    BY <1>4 DEF PaidInv, Sold
  <2>4. Sold(handler.event)' /\ Paid(handler.grant, handler.event.store)'
    BY <1>4, <2>1, <2>2 DEF Sold
  <2>5. Paid(row'.grant, row'.source)
    BY <1>4 DEF PaidInv
  <2>6. QED
    BY <2>3, <2>4, <2>5 DEF PaidInv, Paid, Sold
<1>5. ASSUME NEW e \in Events, Notified(e) PROVE PaidInv'
  <2>1. Sold(e) /\ UNCHANGED <<google, row>> /\ inbox' \subseteq inbox
    BY <1>5 DEF Notified, PaidInv, stores
  <2>2. CASE Begin("webhook", e)
    BY <1>4, <2>1, <2>2
  <2>3. CASE UNCHANGED handler
    BY <2>1, <2>3 DEF PaidInv, Sold, Paid
  <2>4. QED
    BY <1>5, <2>2, <2>3 DEF Notified
<1>6. ASSUME NEW e \in Events, AppVerifies(e) PROVE PaidInv'
  <2>1. Sold(e) /\ Begin("verify", e) /\ UNCHANGED <<google, row, inbox>>
    BY <1>6 DEF AppVerifies, Sold, stores
  <2>2. QED
    BY <1>4, <2>1
<1>7. CASE Grants \/ GrantFails
  <2>1. /\ handler.kind # "idle" /\ handler'.kind = "idle" /\ UNCHANGED google
        /\ handler.event \in Events /\ handler.grant \in Grant
    BY <1>7, NoRequestParts DEF Grants, GrantFails, stores, Shapes, Request
  <2>2. inbox' \subseteq inbox \cup {handler.event}
    BY <1>7 DEF Grants, GrantFails, Unanswered
  <2>3. Paid(row'.grant, row'.source)
    <3>1. CASE Upsert(handler.event, handler.grant)
      BY <2>1, <3>1, UpsertParts DEF PaidInv
    <3>2. CASE UNCHANGED row
      BY <3>2 DEF PaidInv
    <3>3. QED
      BY <1>7, <3>1, <3>2 DEF Grants, GrantFails
  <2>4. \A e \in inbox' : Sold(e)'
    BY <2>1, <2>2 DEF PaidInv, Sold
  <2>5. QED
    BY <2>1, <2>3, <2>4 DEF PaidInv, Paid
<1>8. ASSUME NEW plan \in {"free", "pro"}, AdminOverrides(plan) PROVE PaidInv'
  <2>1. /\ row' = [row EXCEPT !.source = "admin_override",
                              !.grant = [plan |-> plan, status |-> "active"]]
        /\ UNCHANGED <<google, inbox, handler>>
    BY <1>8 DEF AdminOverrides, stores
  <2>2. row'.grant.status = "active"
    BY <2>1 DEF Shapes, Row
  <2>3. QED
    BY <2>1, <2>2 DEF PaidInv, Sold, Paid
<1>9. ASSUME NEW e \in Events, Refused(e) PROVE PaidInv'
  BY <1>9 DEF Refused, stores, PaidInv, Sold, Paid
<1>10. CASE QuotaStep \/ UNCHANGED vars
  BY <1>10, QuotaApart DEF stores, entitled, PaidInv, Sold, Paid
<1>11. QED
  BY <1>1, <1>2, <1>3, <1>5, <1>6, <1>7, <1>8, <1>9, <1>10 DEF Next, QuotaStep

(* Every variable keeps its type, and a row that grants a paid plan has a   *)
(* status that says so: of Google's answers only one for a token that was   *)
(* never bought would make an expired plan a paid one, and no webhook and   *)
(* no verification asks about such a token.                                 *)
THEOREM TypeCorrect == Spec => []TypeOK
<1>1. Init => PaidInv /\ Bounded
  <2> SUFFICES ASSUME Init PROVE PaidInv /\ Bounded
    OBVIOUS
  <2>1. MaxInputs \in Nat /\ MaxFaults \in Nat
    BY SubscriptionsAssumption
  <2>2. PaidInv
    BY DEF Init, PaidInv, Paid, NoRow, NoRequest, Unclaimed
  <2>3. Bounded
    BY <2>1 DEF Init, Bounded
  <2>4. QED
    BY <2>2, <2>3
<1>2. Shapes /\ QuotaInv /\ PaidInv /\ Bounded => TypeOK
  BY DEF Shapes, QuotaInv, QuotaTypes, PaidInv, Paid, Bounded, TypeOK
<1>3. QED
  BY <1>1, <1>2, InitShapes, NextShapes, InitQuota, NextQuota, NextPaid, NextBounded, PTL DEF Spec
=============================================================================
