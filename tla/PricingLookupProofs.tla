----------------------- MODULE PricingLookupProofs -----------------------
(***************************************************************************)
(* Proofs about PricingLookup: how old a price gets, and what a failure    *)
(* may overwrite. For any number of lookups and providers, with a local    *)
(* catalog or none, any times to live and any number of failures.          *)
(***************************************************************************)
EXTENDS PricingLookup, TLAPS

-----------------------------------------------------------------------------
(* The invariant.                                                           *)

(* What the proofs need to know of records: which fields they have.         *)
Record(j) == j = [pc |-> j.pc, at |-> j.at, asked |-> j.asked, oldest |-> j.oldest,
                  extra |-> j.extra, error |-> j.error, lag |-> j.lag,
                  blind |-> j.blind, raced |-> j.raced]
EntryRecord(e) == e = [status |-> e.status, left |-> e.left, age |-> e.age, extra |-> e.extra]

(* The copy of the catalog is dropped in time.                              *)
ShelfInv ==
  \/ shelf = NoShelf
  \/ shelf \in [age : 0..CatalogTtl, knows : BOOLEAN]

(* How old a price gets in memory, and no older with what it still has to   *)
(* live.                                                                    *)
Life(extra) == MemTtl + extra
Fits(price) ==
  price.left > 0 =>
    /\ price.age \in Nat /\ price.extra \in Extras
    /\ price.age + price.left <= Life(price.extra)
MemoryInv ==
  /\ memory = [p \in Providers |-> memory[p]]
  /\ \A p \in Providers : memory[p].left \in Nat /\ Fits(memory[p])

(* A lookup's price comes from there and is at most a tick older; and one   *)
(* that is on its way without a price knows of no price in the cache,       *)
(* unless it could not read it or the price came later.                     *)
Dated(j) ==
  \/ j.oldest = NoAge
  \/ j.oldest \in Nat /\ j.oldest <= Life(j.extra) - 1 + j.lag
OnItsWay(j) == j.pc \in {"try", "ask", "sent", "set"}
Unaware(j) == OnItsWay(j) /\ j.oldest = NoAge /\ ~j.blind /\ ~j.raced
Sound(j) ==
  /\ Record(j)
  /\ j.at \in DOMAIN Chain
  /\ j.lag \in {0, 1}
  /\ j.extra \in Extras
  /\ Dated(j)
LookInv ==
  /\ look = [l \in Lookups |-> look[l]]
  /\ \A l \in Lookups : Sound(look[l])
StandInv ==
  \A l \in Lookups : Unaware(look[l]) => entry.status # "market_estimated"

(* Only an entry that has a price says so.                                  *)
Priced(e) == e.status = "market_estimated"
EntryOK(e) ==
  /\ EntryRecord(e)
  /\ e.left \in Nat
  /\ e.age = NoAge \/ e.age \in Nat
  /\ e.extra \in Extras
  /\ Priced(e) => e.age \in Nat /\ e.age + e.left <= MemTtl + e.extra + MarketTtl
EntryInv == EntryOK(entry)

IInv == MemoryInv /\ LookInv /\ StandInv /\ EntryInv

-----------------------------------------------------------------------------
(* Constants.                                                               *)

LEMMA Positive == /\ MemTtl \in Nat \ {0} /\ FailTtl \in Nat \ {0}
                  /\ MarketTtl \in Nat \ {0} /\ LongTtl \in Nat \ {0}
                  /\ CatalogTtl \in Nat \ {0}
BY PricingLookupAssumption DEF PricingLookupAssumption

LEMMA Lives ==
  ASSUME NEW extra \in Extras
  PROVE  extra \in Nat /\ Life(extra) \in Nat /\ MemTtl <= Life(extra)
BY Positive DEF Life, Extras

LEMMA ChainParts ==
  /\ Len(Chain) \in Nat \ {0}
  /\ DOMAIN Chain = 1..Len(Chain)
  /\ First \in DOMAIN Chain
  /\ \A n \in DOMAIN Chain : Chain[n] \in Providers
<1>1. Chain \in Seq(Providers) /\ Chain # <<>>
  BY PricingLookupAssumption DEF PricingLookupAssumption
<1>2. Len(Chain) \in Nat \ {0} /\ DOMAIN Chain = 1..Len(Chain)
  BY <1>1
<1> QED
  BY <1>1, <1>2 DEF First, Providers

LEMMA IdleSound == Sound(Idle) /\ ~OnItsWay(Idle)
BY ChainParts DEF Sound, Idle, Record, Dated, OnItsWay, NoAge, Extras

-----------------------------------------------------------------------------
(* Updates of a lookup's record.                                            *)

(* What the properties see of a record.                                     *)
Same(k, j) == k.oldest = j.oldest /\ k.blind = j.blind /\ k.raced = j.raced

LEMMA PcUpdated ==
  ASSUME NEW j, Sound(j), NEW pc
  PROVE  LET k == [j EXCEPT !.pc = pc] IN Sound(k) /\ k.pc = pc /\ Same(k, j)
BY DEF Sound, Record, Dated, Same

LEMMA AskedUpdated ==
  ASSUME NEW j, Sound(j), NEW asked
  PROVE  LET k == [j EXCEPT !.asked = asked] IN Sound(k) /\ k.pc = j.pc /\ Same(k, j)
BY DEF Sound, Record, Dated, Same

LEMMA AtUpdated ==
  ASSUME NEW j, Sound(j), NEW at \in DOMAIN Chain
  PROVE  LET k == [j EXCEPT !.at = at] IN Sound(k) /\ k.pc = j.pc /\ Same(k, j)
BY DEF Sound, Record, Dated, Same

LEMMA ErrorUpdated ==
  ASSUME NEW j, Sound(j), NEW error
  PROVE  LET k == [j EXCEPT !.error = error]
         IN Sound(k) /\ k.pc = j.pc /\ k.lag = j.lag /\ Same(k, j)
BY DEF Sound, Record, Dated, Same

LEMMA BlindUpdated ==
  ASSUME NEW j, Sound(j), NEW blind
  PROVE  LET k == [j EXCEPT !.blind = blind]
         IN Sound(k) /\ k.pc = j.pc /\ k.oldest = j.oldest /\ k.blind = blind
BY DEF Sound, Record, Dated

LEMMA RacedUpdated ==
  ASSUME NEW j, Sound(j), NEW raced
  PROVE  LET k == [j EXCEPT !.raced = raced]
         IN Sound(k) /\ k.pc = j.pc /\ k.oldest = j.oldest /\ k.blind = j.blind /\ k.raced = raced
BY DEF Sound, Record, Dated

LEMMA ExtraUpdated ==
  ASSUME NEW j, Sound(j), NEW extra \in Extras, j.extra <= extra
  PROVE  LET k == [j EXCEPT !.extra = extra]
         IN Sound(k) /\ k.pc = j.pc /\ k.lag = j.lag /\ k.extra = extra /\ Same(k, j)
<1> DEFINE k == [j EXCEPT !.extra = extra]
<1>1. /\ Record(k) /\ k.at = j.at /\ k.lag = j.lag /\ k.extra = extra /\ k.pc = j.pc
      /\ Same(k, j)
  BY DEF Sound, Record, Same
<1> HIDE DEF k
<1>2. Life(j.extra) <= Life(extra) /\ Life(j.extra) \in Nat /\ Life(extra) \in Nat
  BY Lives, Positive DEF Sound, Life
<1>3. Dated(k)
  BY <1>1, <1>2 DEF Sound, Dated, Same
<1>4. Sound(k)
  BY <1>1, <1>3 DEF Sound
<1> QED
  BY <1>1, <1>4 DEF k

LEMMA OldestUpdated ==
  ASSUME NEW j, Sound(j), NEW oldest \in Nat, oldest <= Life(j.extra) - 1 + j.lag
  PROVE  LET k == [j EXCEPT !.oldest = oldest] IN Sound(k) /\ k.pc = j.pc /\ k.oldest = oldest
BY DEF Sound, Record, Dated

(* A price is added to the record.                                          *)
LEMMA PriceAdded ==
  ASSUME NEW j, Sound(j), NEW extra \in Extras, NEW age \in Nat, age <= Life(extra) - 1
  PROVE  LET k == WithPrice(j, age, extra) IN Sound(k) /\ k.oldest # NoAge
<1> DEFINE oldest == IF age > j.oldest THEN age ELSE j.oldest
           both == IF extra > j.extra THEN extra ELSE j.extra
           k0 == [j EXCEPT !.extra = both]
           k1 == [k0 EXCEPT !.oldest = oldest]
           k2 == [k1 EXCEPT !.error = "none"]
           k3 == [k2 EXCEPT !.blind = FALSE]
           k4 == [k3 EXCEPT !.raced = FALSE]
<1>1. WithPrice(j, age, extra) = k4
  BY DEF WithPrice
<1>2. both \in Extras /\ j.extra <= both /\ extra <= both
  BY Positive DEF Sound, Extras
<1>3. /\ Life(j.extra) <= Life(both) /\ Life(extra) <= Life(both)
      /\ Life(j.extra) \in Nat /\ Life(extra) \in Nat /\ Life(both) \in Nat
  <2> HIDE DEF both
  <2>1. j.extra \in Nat /\ extra \in Nat /\ both \in Nat
    BY <1>2, Lives DEF Sound
  <2> QED
    BY <2>1, <1>2, Positive DEF Life
<1> HIDE DEF both
<1>4. oldest \in Nat /\ oldest <= Life(both) - 1 + j.lag
  BY <1>3 DEF Sound, Dated, NoAge
<1> HIDE DEF oldest
<1>5. Sound(k0) /\ k0.extra = both /\ k0.lag = j.lag
  BY <1>2, ExtraUpdated
<1> HIDE DEF k0
<1>6. Sound(k1) /\ k1.oldest = oldest
  BY <1>4, <1>5, OldestUpdated
<1> HIDE DEF k1
<1>7. Sound(k2) /\ k2.oldest = oldest
  BY <1>6, ErrorUpdated DEF Same
<1> HIDE DEF k2
<1>8. Sound(k3) /\ k3.oldest = oldest
  BY <1>7, BlindUpdated
<1> HIDE DEF k3
<1>9. Sound(k4) /\ k4.oldest = oldest
  BY <1>8, RacedUpdated
<1> HIDE DEF k4
<1>10. oldest # NoAge
  BY <1>4 DEF NoAge
<1> QED
  BY <1>1, <1>9, <1>10

LEMMA PassedSound ==
  ASSUME NEW j, Sound(j)
  PROVE  LET k == Passed(j) IN Sound(k) /\ OnItsWay(k) /\ Same(k, j)
<1> DEFINE at == IF j.at = Len(Chain) THEN j.at ELSE j.at + 1
           pc == IF j.at = Len(Chain) THEN "set" ELSE "try"
           k1 == [j EXCEPT !.at = at]
           k2 == [k1 EXCEPT !.pc = pc]
           k3 == [k2 EXCEPT !.asked = 0]
<1>1. at \in DOMAIN Chain
  BY ChainParts DEF Sound
<1>2. pc \in {"set", "try"}
  OBVIOUS
<1>3. Passed(j) = k3
  BY DEF Passed
<1> HIDE DEF at, pc
<1>4. Sound(k1) /\ Same(k1, j)
  BY <1>1, AtUpdated
<1> HIDE DEF k1
<1>5. Sound(k2) /\ k2.pc = pc /\ Same(k2, j)
  BY <1>4, PcUpdated DEF Same
<1> HIDE DEF k2
<1>6. Sound(k3) /\ k3.pc = pc /\ Same(k3, j)
  BY <1>5, AskedUpdated DEF Same
<1> HIDE DEF k3
<1> QED
  BY <1>2, <1>3, <1>6 DEF OnItsWay

-----------------------------------------------------------------------------
(* Steps that move one lookup and leave the entry alone.                    *)

LEMMA LookMoved ==
  ASSUME IInv, NEW l \in Lookups, NEW j, Sound(j),
         Unaware(j) => entry.status # "market_estimated",
         Move(l, j), UNCHANGED entry, MemoryInv'
  PROVE  IInv'
<1>1. look' = [m \in Lookups |-> IF m = l THEN j ELSE look[m]]
  BY DEF Move, IInv, LookInv
<1>2. LookInv'
  BY <1>1 DEF IInv, LookInv, Sound, Record, Dated
<1>3. StandInv'
  <2>1. ASSUME NEW m \in Lookups, Unaware(look'[m]) PROVE entry.status # "market_estimated"
    <3>1. CASE m = l
      BY <3>1, <2>1, <1>1
    <3>2. CASE m # l
      BY <3>2, <2>1, <1>1 DEF IInv, StandInv
    <3> QED
      BY <3>1, <3>2
  <2> QED
    BY <2>1 DEF StandInv, Unaware, OnItsWay
<1>4. EntryInv'
  BY DEF IInv, EntryInv
<1> QED
  BY <1>2, <1>3, <1>4 DEF IInv

(* What a lookup knows of the entry stays true while it gets nowhere.       *)
LEMMA LookGoesOn ==
  ASSUME IInv, NEW l \in Lookups, NEW j, Sound(j), Same(j, look[l]), OnItsWay(look[l]),
         Move(l, j), UNCHANGED entry, MemoryInv'
  PROVE  IInv'
<1>1. Unaware(j) => Unaware(look[l])
  BY DEF Unaware, Same
<1>2. Unaware(look[l]) => entry.status # "market_estimated"
  BY DEF IInv, StandInv
<1> QED
  BY <1>1, <1>2, LookMoved

LEMMA SoundLook == ASSUME IInv, NEW l \in Lookups PROVE Sound(look[l])
BY DEF IInv, LookInv

LEMMA MemoryKept == IInv /\ UNCHANGED memory => MemoryInv'
BY DEF IInv, MemoryInv, Fits

LEMMA Remembers ==
  ASSUME IInv, NEW p, NEW extra \in Extras, NEW age \in Nat, age + MemTtl <= Life(extra),
         Remember(p, age, extra)
  PROVE  MemoryInv'
<1> DEFINE price == [left |-> MemTtl, age |-> age, extra |-> extra]
<1>1. memory' = [q \in Providers |-> IF q = p THEN price ELSE memory[q]]
  BY DEF Remember, IInv, MemoryInv
<1>2. Fits(price) /\ price.left \in Nat
  BY Positive DEF Fits
<1> HIDE DEF price
<1> QED
  BY <1>1, <1>2 DEF IInv, MemoryInv, Fits

LEMMA FailsKeeps ==
  ASSUME IInv, NEW l \in Lookups, NEW error, Fails(l, error), OnItsWay(look[l]),
         UNCHANGED <<entry, memory>>
  PROVE  IInv'
<1> DEFINE said == IF look[l].oldest = NoAge THEN Raised(error) ELSE look[l].error
           j == [look[l] EXCEPT !.error = said]
           k == Passed(j)
<1>1. Move(l, k)
  BY DEF Fails
<1>2. Sound(j) /\ Same(j, look[l])
  <2> HIDE DEF said
  <2> QED
    BY SoundLook, ErrorUpdated
<1> HIDE DEF j
<1>3. Sound(k) /\ Same(k, look[l])
  BY <1>2, PassedSound DEF Same
<1> HIDE DEF k
<1> QED
  BY <1>1, <1>3, LookGoesOn, MemoryKept

LEMMA GetsKeeps ==
  ASSUME IInv, NEW l \in Lookups, NEW extra \in Extras, NEW age \in Nat,
         age <= Life(extra) - 1, Gets(l, age, extra), UNCHANGED entry, MemoryInv'
  PROVE  IInv'
<1> DEFINE j == WithPrice(look[l], age, extra)
           k == Passed(j)
<1>1. Move(l, k)
  BY DEF Gets
<1>2. Sound(j) /\ j.oldest # NoAge
  BY SoundLook, PriceAdded
<1> HIDE DEF j
<1>3. Sound(k) /\ k.oldest # NoAge
  BY <1>2, PassedSound DEF Same
<1> HIDE DEF k
<1> QED
  BY <1>1, <1>3, LookMoved DEF Unaware

-----------------------------------------------------------------------------
(* The invariant, action by action.                                         *)

LEMMA InitHolds == Init => IInv
<1> SUFFICES ASSUME Init PROVE IInv
  OBVIOUS
<1>1. MemoryInv
  BY DEF Init, MemoryInv, Fits, NoPrice
<1>2. LookInv /\ StandInv
  BY IdleSound DEF Init, LookInv, StandInv, Unaware
<1>3. EntryInv
  BY DEF Init, EntryInv, EntryOK, EntryRecord, NoEntry, Priced, NoAge, Extras
<1> QED
  BY <1>1, <1>2, <1>3 DEF IInv

(* Steps of the world that neither memory nor entry nor lookups see.        *)
LEMMA NothingSeen == IInv /\ UNCHANGED <<entry, memory, look>> => IInv'
BY DEF IInv, MemoryInv, Fits, LookInv, StandInv, EntryInv

LEMMA WorldKeeps ==
  ASSUME IInv,
         \/ Promote \/ OthersLoad
         \/ \E p \in Providers : IntervalPasses(p) \/ OthersAsk(p)
         \/ UNCHANGED vars
  PROVE  IInv'
BY NothingSeen DEF Promote, OthersLoad, LoadRows, IntervalPasses, OthersAsk, vars

(* Memory ages: what it gains in age it loses in time to live.              *)
LEMMA MemoryAges ==
  ASSUME IInv, Tick
  PROVE  MemoryInv'
<1>1. memory' = [p \in Providers |-> Aged(memory[p])]
  BY DEF Tick
<1>2. ASSUME NEW p \in Providers PROVE Aged(memory[p]).left \in Nat /\ Fits(Aged(memory[p]))
  <2>1. memory[p].left \in Nat /\ Fits(memory[p])
    BY DEF IInv, MemoryInv
  <2>2. CASE memory[p].left > 1
    <3> DEFINE left == memory[p].left - 1
               age == memory[p].age + 1
               price == [left |-> left, age |-> age, extra |-> memory[p].extra]
    <3>1. Aged(memory[p]) = price
      BY <2>2 DEF Aged
    <3>2. Life(memory[p].extra) \in Nat
      BY <2>1, <2>2, Lives DEF Fits
    <3>3. left \in Nat /\ age \in Nat /\ age + left <= Life(memory[p].extra)
      BY <2>1, <2>2, <3>2 DEF Fits
    <3> HIDE DEF left, age
    <3>4. price.left \in Nat /\ Fits(price)
      BY <2>1, <2>2, <3>3 DEF Fits
    <3> HIDE DEF price
    <3> QED
      BY <3>1, <3>4
  <2>3. CASE ~(memory[p].left > 1)
    <3>1. Aged(memory[p]) = NoPrice
      BY <2>3 DEF Aged
    <3> QED
      BY <3>1 DEF Fits, NoPrice
  <2> QED
    BY <2>2, <2>3
<1> QED
  BY <1>1, <1>2 DEF MemoryInv

LEMMA EntryAges ==
  ASSUME IInv, Tick
  PROVE  EntryInv' /\ (entry'.status = "market_estimated" => entry.status = "market_estimated")
<1>1. entry' = Later
  BY DEF Tick
<1>2. EntryOK(entry)
  BY DEF IInv, EntryInv
<1>3. CASE entry.left > 1
  <2> DEFINE left == entry.left - 1
             age == Older(entry.age)
             e1 == [entry EXCEPT !.left = left]
             e == [e1 EXCEPT !.age = age]
  <2>1. Later = e
    BY <1>3 DEF Later
  <2>2. left \in Nat
    BY <1>2, <1>3 DEF EntryOK
  <2>3. /\ age = NoAge \/ age \in Nat
        /\ Priced(entry) => age \in Nat /\ age + left <= MemTtl + entry.extra + MarketTtl
    <3>1. MemTtl + entry.extra + MarketTtl \in Nat
      BY <1>2, Lives, Positive DEF EntryOK
    <3> QED
      BY <3>1, <1>2, <1>3 DEF EntryOK, Older, NoAge
  <2> HIDE DEF left, age
  <2>4. EntryRecord(e1) /\ e1.status = entry.status /\ e1.left = left /\ e1.extra = entry.extra
    BY <1>2 DEF EntryOK, EntryRecord
  <2> HIDE DEF e1
  <2>5. /\ EntryRecord(e) /\ e.status = entry.status /\ e.left = left /\ e.age = age
        /\ e.extra = entry.extra
    BY <2>4 DEF EntryRecord
  <2> HIDE DEF e
  <2> QED
    BY <1>1, <1>2, <2>1, <2>2, <2>3, <2>5 DEF EntryInv, EntryOK, Priced
<1>4. CASE ~(entry.left > 1)
  <2>1. entry' = NoEntry
    BY <1>1, <1>4 DEF Later
  <2> QED
    BY <2>1 DEF EntryInv, EntryOK, EntryRecord, NoEntry, Priced, NoAge, Extras
<1> QED
  BY <1>3, <1>4

LEMMA LookAges ==
  ASSUME NEW j, Sound(j), j.lag = 0
  PROVE  LET k == [j EXCEPT !.oldest = Older(@), !.lag = 1]
         IN Sound(k) /\ (Unaware(k) => Unaware(j))
<1> DEFINE oldest == Older(j.oldest)
           k1 == [j EXCEPT !.lag = 1]
           k2 == [k1 EXCEPT !.oldest = oldest]
<1>1. [j EXCEPT !.oldest = Older(@), !.lag = 1] = k2
  OBVIOUS
<1>2. /\ Sound(k1) /\ k1.lag = 1 /\ k1.pc = j.pc /\ k1.oldest = j.oldest
      /\ k1.extra = j.extra /\ k1.blind = j.blind /\ k1.raced = j.raced
  <2>1. Life(j.extra) \in Nat
    BY Lives DEF Sound
  <2> QED
    BY <2>1 DEF Sound, Record, Dated
<1> HIDE DEF k1
<1>3. CASE j.oldest = NoAge
  <2>1. oldest = NoAge
    BY <1>3 DEF Older
  <2>2. k2 = k1
    BY <2>1, <1>2, <1>3 DEF Sound, Record
  <2> QED
    BY <1>1, <1>2, <2>2 DEF Unaware, OnItsWay
<1>4. CASE j.oldest # NoAge
  <2>1. oldest \in Nat /\ oldest <= Life(j.extra) - 1 + 1
    <3>1. Life(j.extra) \in Nat
      BY Lives DEF Sound
    <3> QED
      BY <1>4, <3>1 DEF Older, Sound, Dated
  <2> HIDE DEF oldest
  <2>2. Sound(k2) /\ k2.oldest = oldest
    BY <1>2, <2>1, OldestUpdated
  <2>3. oldest # NoAge
    BY <2>1 DEF NoAge
  <2> HIDE DEF k2
  <2> QED
    BY <1>1, <2>2, <2>3 DEF Unaware
<1> QED
  BY <1>3, <1>4

LEMMA TickKeeps ==
  ASSUME IInv, Tick
  PROVE  IInv'
<1> DEFINE older(l) == [look[l] EXCEPT !.oldest = Older(@), !.lag = 1]
           next(l) == IF At(l, "idle") THEN look[l] ELSE older(l)
<1>1. look' = [l \in Lookups |-> next(l)] /\ \A l \in Lookups : look[l].lag = 0
  BY DEF Tick
<1>2. ASSUME NEW l \in Lookups PROVE Sound(next(l)) /\ (Unaware(next(l)) => Unaware(look[l]))
  <2>1. Sound(older(l)) /\ (Unaware(older(l)) => Unaware(look[l]))
    BY <1>1, SoundLook, LookAges
  <2> HIDE DEF older
  <2> QED
    BY <2>1, SoundLook
<1> HIDE DEF next
<1>3. LookInv'
  BY <1>1, <1>2 DEF LookInv, Sound, Record, Dated
<1>4. StandInv'
  <2>1. ASSUME NEW l \in Lookups, Unaware(look'[l]) PROVE entry'.status # "market_estimated"
    <3>1. Unaware(look[l])
      BY <2>1, <1>1, <1>2
    <3> QED
      BY <3>1, EntryAges DEF IInv, StandInv
  <2> QED
    BY <2>1 DEF StandInv, Unaware, OnItsWay
<1> QED
  BY <1>3, <1>4, MemoryAges, EntryAges DEF IInv

(* What a lookup writes is a price of its own age, or no price.             *)
LEMMA WrittenEntry ==
  ASSUME NEW j, Sound(j)
  PROVE  EntryOK(EntryOf(j)) /\ (EntryOf(j).status = "market_estimated" <=> j.oldest # NoAge)
<1>1. Ttl(StatusOf(j)) \in Nat
  BY Positive DEF Ttl
<1>2. StatusOf(j) = "market_estimated" <=> j.oldest # NoAge
  BY DEF StatusOf
<1>3. Ttl("market_estimated") = MarketTtl
  BY DEF Ttl
<1>4. j.oldest # NoAge => j.oldest \in Nat /\ j.oldest + MarketTtl <= MemTtl + j.extra + MarketTtl
  <2>1. Life(j.extra) \in Nat /\ MemTtl + j.extra + MarketTtl = Life(j.extra) + MarketTtl
    BY Lives, Positive DEF Sound, Life
  <2> QED
    BY <2>1, Positive DEF Sound, Dated
<1> DEFINE status == StatusOf(j)
           left == Ttl(status)
           e == [status |-> status, left |-> left, age |-> j.oldest, extra |-> j.extra]
<1>5. EntryOf(j) = e
  BY DEF EntryOf
<1>6. left \in Nat /\ (status = "market_estimated" => left = MarketTtl)
  BY <1>1, <1>3
<1> HIDE DEF left, status
<1>7. /\ EntryRecord(e) /\ e.status = status /\ e.left = left /\ e.age = j.oldest
      /\ e.extra = j.extra
  BY DEF EntryRecord
<1>8. status = "market_estimated" <=> j.oldest # NoAge
  BY <1>2 DEF status
<1> HIDE DEF e
<1> QED
  BY <1>4, <1>5, <1>6, <1>7, <1>8 DEF EntryOK, Priced, Sound

LEMMA WriteKeeps ==
  ASSUME IInv, NEW l \in Lookups, Write(l), UNCHANGED memory
  PROVE  IInv'
<1> DEFINE late(m) == look[l].oldest # NoAge /\ look[m].oldest = NoAge
                        /\ ~At(m, "idle") /\ ~At(m, "get")
           raced(m) == look[m].raced \/ late(m)
           next(m) == [look[m] EXCEPT !.raced = raced(m)]
<1>1. look' = [m \in Lookups |-> IF m = l THEN Idle ELSE next(m)]
  BY DEF Write
<1>2. entry' = EntryOf(look[l])
  BY DEF Write
<1>3. ASSUME NEW m \in Lookups
      PROVE  /\ Sound(next(m)) /\ next(m).pc = look[m].pc /\ next(m).oldest = look[m].oldest
             /\ next(m).blind = look[m].blind /\ next(m).raced = raced(m)
  <2> HIDE DEF raced
  <2> QED
    BY SoundLook, RacedUpdated
<1> HIDE DEF next
<1>4. LookInv'
  BY <1>1, <1>3, IdleSound DEF LookInv, Sound, Record, Dated
<1>5. StandInv'
  <2>1. ASSUME NEW m \in Lookups, Unaware(look'[m]) PROVE entry'.status # "market_estimated"
    <3>1. m # l
      BY <2>1, <1>1, IdleSound DEF Unaware
    <3>2. look'[m] = next(m)
      BY <3>1, <1>1
    <3>3. OnItsWay(look[m]) /\ look[m].oldest = NoAge /\ ~late(m)
      BY <3>2, <2>1, <1>3 DEF Unaware, OnItsWay, raced
    <3>4. ~At(m, "idle") /\ ~At(m, "get")
      BY <3>3 DEF OnItsWay, At
    <3>5. look[l].oldest = NoAge
      BY <3>3, <3>4 DEF late
    <3> QED
      BY <3>5, <1>2, SoundLook, WrittenEntry
  <2> QED
    BY <2>1 DEF StandInv, Unaware, OnItsWay
<1>6. EntryInv'
  BY <1>2, SoundLook, WrittenEntry DEF EntryInv
<1> QED
  BY <1>4, <1>5, <1>6, MemoryKept DEF IInv

LEMMA EndsKeeps ==
  ASSUME IInv, NEW l \in Lookups, Ends(l), UNCHANGED <<entry, memory>>
  PROVE  IInv'
BY LookMoved, IdleSound, MemoryKept DEF Ends, Unaware

(* A lookup begins, and reads the cache.                                    *)
LEMMA CacheReadKeeps ==
  ASSUME IInv, NEW l \in Lookups,
         Asks(l) \/ CacheHit(l) \/ CacheMiss(l) \/ CacheUnread(l)
  PROVE  IInv'
<1>1. CASE Asks(l)
  <2> DEFINE j == [Idle EXCEPT !.pc = "get"]
             k == [j EXCEPT !.at = First]
  <2>1. Move(l, k) /\ UNCHANGED <<entry, memory>>
    BY <1>1 DEF Asks
  <2>2. Sound(j) /\ j.pc = "get"
    BY IdleSound, PcUpdated
  <2> HIDE DEF j
  <2>3. Sound(k) /\ k.pc = "get"
    BY <2>2, ChainParts, AtUpdated
  <2> HIDE DEF k
  <2> QED
    BY <2>1, <2>3, LookMoved, MemoryKept DEF Unaware, OnItsWay
<1>2. CASE CacheHit(l)
  BY <1>2, EndsKeeps DEF CacheHit, Ends
<1>3. CASE CacheMiss(l)
  <2> DEFINE j == [look[l] EXCEPT !.pc = "try"]
  <2>1. Move(l, j) /\ UNCHANGED <<entry, memory>> /\ entry.status = "none"
    BY <1>3 DEF CacheMiss, Served
  <2>2. Sound(j)
    BY SoundLook, PcUpdated
  <2> HIDE DEF j
  <2> QED
    BY <2>1, <2>2, LookMoved, MemoryKept
<1>4. CASE CacheUnread(l)
  <2> DEFINE j == [look[l] EXCEPT !.pc = "try"]
             k == [j EXCEPT !.blind = TRUE]
  <2>1. Move(l, k) /\ UNCHANGED <<entry, memory>>
    BY <1>4 DEF CacheUnread
  <2>2. Sound(j)
    BY SoundLook, PcUpdated
  <2> HIDE DEF j
  <2>3. Sound(k) /\ k.blind = TRUE
    BY <2>2, BlindUpdated
  <2> HIDE DEF k
  <2> QED
    BY <2>1, <2>3, LookMoved, MemoryKept DEF Unaware
<1> QED
  BY <1>1, <1>2, <1>3, <1>4

(* It has a price from memory, the catalog or a provider,                   *)
LEMMA PriceKeeps ==
  ASSUME IInv, ShelfInv, NEW l \in Lookups, MemoryHit(l) \/ CatalogKnows(l) \/ Answered(l)
  PROVE  IInv'
<1>1. CASE MemoryHit(l)
  <2> DEFINE price == memory[Provider(l)]
  <2>1. Provider(l) \in Providers
    BY SoundLook, ChainParts DEF Provider, Sound
  <2>2. price.left \in Nat /\ price.left > 0 /\ Fits(price)
    BY <2>1, <1>1 DEF IInv, MemoryInv, MemoryHit, Remembered
  <2>3. price.extra \in Extras /\ Life(price.extra) \in Nat
    BY <2>2, Lives DEF Fits
  <2>4. price.age \in Nat /\ price.age <= Life(price.extra) - 1
    BY <2>2, <2>3 DEF Fits
  <2>5. Gets(l, price.age, price.extra) /\ UNCHANGED <<entry, memory>>
    BY <1>1 DEF MemoryHit, Recalled
  <2> QED
    BY <2>3, <2>4, <2>5, GetsKeeps, MemoryKept
<1>2. CASE CatalogKnows(l)
  <2>1. /\ Gets(l, shelf.age, CatalogTtl) /\ Remember(Provider(l), shelf.age, CatalogTtl)
        /\ UNCHANGED entry
    BY <1>2 DEF CatalogKnows
  <2>2. shelf.age \in 0..CatalogTtl
    BY <1>2 DEF CatalogKnows, ShelfInv, NoShelf
  <2>3. shelf.age \in Nat /\ shelf.age + MemTtl <= Life(CatalogTtl) /\ shelf.age <= Life(CatalogTtl) - 1
    BY <2>2, Positive DEF Life
  <2> QED
    BY <2>1, <2>3, GetsKeeps, Remembers DEF Extras
<1>3. CASE Answered(l)
  <2>1. Gets(l, 0, 0) /\ Remember(Provider(l), 0, 0) /\ UNCHANGED entry
    BY <1>3 DEF Answered
  <2>2. 0 \in Nat /\ 0 + MemTtl <= Life(0) /\ 0 <= Life(0) - 1
    BY Positive DEF Life
  <2> QED
    BY <2>1, <2>2, GetsKeeps, Remembers DEF Extras
<1> QED
  BY <1>1, <1>2, <1>3

(* or goes on without one.                                                  *)
LEMMA NoPriceKeeps ==
  ASSUME IInv, NEW l \in Lookups,
         \/ CatalogLoads(l) \/ CatalogLacks(l)
         \/ Sends(l) \/ Throttled(l) \/ GateUnasked(l) \/ Empty(l) \/ AsksOn(l)
         \/ \E error \in {"busy", "unavailable", "other"} : Refused(l, error)
  PROVE  IInv'
<1>1. CASE Sends(l)
  <2> DEFINE j == [look[l] EXCEPT !.pc = "sent"]
             k == [j EXCEPT !.asked = look[l].asked + 1]
  <2>1. Move(l, k) /\ UNCHANGED <<entry, memory>> /\ OnItsWay(look[l])
    BY <1>1 DEF Sends, MayAsk, At, OnItsWay
  <2>2. Sound(j) /\ Same(j, look[l])
    BY SoundLook, PcUpdated
  <2> HIDE DEF j
  <2>3. Sound(k) /\ Same(k, look[l])
    BY <2>2, AskedUpdated DEF Same
  <2> HIDE DEF k
  <2> QED
    BY <2>1, <2>3, LookGoesOn, MemoryKept
<1>2. CASE AsksOn(l) \/ CatalogLacks(l)
  <2> DEFINE j == [look[l] EXCEPT !.pc = "ask"]
  <2>1. Move(l, j) /\ UNCHANGED <<entry, memory>> /\ OnItsWay(look[l])
    BY <1>2 DEF AsksOn, CatalogLacks, AsksCatalog, At, OnItsWay
  <2>2. Sound(j) /\ Same(j, look[l])
    BY SoundLook, PcUpdated
  <2> HIDE DEF j
  <2> QED
    BY <2>1, <2>2, LookGoesOn, MemoryKept
<1>3. ASSUME NEW error, Fails(l, error), UNCHANGED <<entry, memory>>, OnItsWay(look[l])
      PROVE  IInv'
  BY <1>3, FailsKeeps
<1>4. CASE Throttled(l) \/ GateUnasked(l)
  BY <1>4, <1>3 DEF Throttled, GateUnasked, MayAsk, At, OnItsWay
<1>5. CASE Empty(l)
  BY <1>5, <1>3 DEF Empty, At, OnItsWay
<1>6. ASSUME NEW error, Refused(l, error) PROVE IInv'
  BY <1>6, <1>3 DEF Refused, At, OnItsWay
<1>7. CASE CatalogLoads(l)
  BY <1>7, NothingSeen DEF CatalogLoads, LoadRows
<1> QED
  BY <1>1, <1>2, <1>4, <1>5, <1>6, <1>7

(* The outcome is written, or not.                                          *)
LEMMA OutcomeKeeps ==
  ASSUME IInv, NEW l \in Lookups, CacheSet(l) \/ CacheUnwritten(l) \/ Raises(l)
  PROVE  IInv'
BY WriteKeeps, EndsKeeps DEF CacheSet, CacheUnwritten, Raises

LEMMA NextKeeps == IInv /\ ShelfInv /\ [Next]_vars => IInv'
<1> SUFFICES ASSUME IInv, ShelfInv, [Next]_vars PROVE IInv'
  OBVIOUS
<1>1. CASE Tick
  BY <1>1, TickKeeps
<1>2. CASE \/ Promote \/ OthersLoad \/ UNCHANGED vars
           \/ \E p \in Providers : IntervalPasses(p) \/ OthersAsk(p)
  BY <1>2, WorldKeeps
<1>3. ASSUME NEW l \in Lookups,
             \/ Asks(l) \/ Step(l) \/ CacheUnread(l) \/ CacheUnwritten(l) \/ GateUnasked(l)
             \/ \E error \in {"busy", "unavailable", "other"} : Refused(l, error)
      PROVE  IInv'
  <2>1. CASE Asks(l) \/ CacheHit(l) \/ CacheMiss(l) \/ CacheUnread(l)
    BY <2>1, CacheReadKeeps
  <2>2. CASE MemoryHit(l) \/ CatalogKnows(l) \/ Answered(l)
    BY <2>2, PriceKeeps
  <2>3. CASE \/ CatalogLoads(l) \/ CatalogLacks(l)
             \/ Sends(l) \/ Throttled(l) \/ GateUnasked(l) \/ Empty(l) \/ AsksOn(l)
             \/ \E error \in {"busy", "unavailable", "other"} : Refused(l, error)
    BY <2>3, NoPriceKeeps
  <2>4. CASE CacheSet(l) \/ CacheUnwritten(l) \/ Raises(l)
    BY <2>4, OutcomeKeeps
  <2> QED
    BY <1>3, <2>1, <2>2, <2>3, <2>4 DEF Step
<1> QED
  BY <1>1, <1>2, <1>3 DEF Next

(* The copy of the catalog is loaded, ages and is dropped.                  *)
LEMMA ShelfHolds == Init => ShelfInv
BY DEF Init, ShelfInv

LEMMA ShelfAges == ASSUME ShelfInv PROVE Shelved = NoShelf \/ Shelved \in [age : 0..CatalogTtl, knows : BOOLEAN]
<1>1. CASE shelf = NoShelf
  BY <1>1, Positive DEF Shelved, NoShelf, NoAge
<1>2. CASE shelf \in [age : 0..CatalogTtl, knows : BOOLEAN]
  <2>1. CASE shelf.age \in 0..(CatalogTtl - 1)
    <3> DEFINE age == shelf.age + 1
    <3>1. age \in 0..CatalogTtl
      BY <2>1, Positive
    <3>2. Shelved = [shelf EXCEPT !.age = age]
      BY <2>1 DEF Shelved
    <3> HIDE DEF age
    <3> QED
      BY <1>2, <3>1, <3>2
  <2>2. CASE shelf.age \notin 0..(CatalogTtl - 1)
    BY <2>2 DEF Shelved
  <2> QED
    BY <2>1, <2>2
<1> QED
  BY <1>1, <1>2 DEF ShelfInv

LEMMA ShelfKept == ShelfInv /\ [Next]_vars => ShelfInv'
<1> SUFFICES ASSUME ShelfInv, [Next]_vars PROVE ShelfInv'
  OBVIOUS
<1>1. CASE Tick
  BY <1>1, ShelfAges DEF Tick, ShelfInv
<1>2. CASE LoadRows
  <2>1. PICK knows \in BOOLEAN : shelf' = [age |-> 0, knows |-> knows]
    BY <1>2 DEF LoadRows
  <2>2. 0 \in 0..CatalogTtl
    BY Positive
  <2> QED
    BY <2>1, <2>2 DEF ShelfInv
<1>3. ASSUME UNCHANGED shelf PROVE ShelfInv'
  BY <1>3 DEF ShelfInv
<1> QED
  BY <1>1, <1>2, <1>3 DEF Next, Step, vars, Promote, IntervalPasses, OthersAsk, OthersLoad, Asks,
       CacheHit, CacheMiss, CacheUnread, MemoryHit, CatalogLoads, CatalogKnows, CatalogLacks,
       Sends, Throttled, GateUnasked, Answered, Empty, AsksOn, Refused, CacheSet,
       CacheUnwritten, Raises

-----------------------------------------------------------------------------
(* The theorems.                                                            *)

(* However many lookups write the entry and from whichever cache, a price   *)
(* is gone when the times to live of the caches it came through are over:   *)
(* two since the provider gave it, or three since the local catalog that    *)
(* has it was read.                                                         *)
THEOREM FreshPrices == Spec => []PricesFresh
<1>1. IInv => PricesFresh
  BY DEF IInv, EntryInv, EntryOK, Priced, PricesFresh
<1> QED
  BY <1>1, InitHolds, NextKeeps, ShelfHolds, ShelfKept, PTL DEF Spec

(* Only a lookup that writes changes what an entry says, but for its end.   *)
LEMMA OthersLeaveStatus ==
  ASSUME IInv, [Next]_vars, Overwritten
  PROVE  \E l \in Lookups : At(l, "set") /\ Write(l)
<1>1. entry.status = "market_estimated" /\ entry'.status \in Statuses \ {"market_estimated"}
  BY DEF Overwritten
<1>2. ~Tick
  <2> SUFFICES ASSUME Tick PROVE FALSE
    OBVIOUS
  <2>1. entry' = Later
    BY DEF Tick
  <2>2. CASE entry.left > 1
    <3> DEFINE left == entry.left - 1
               age == Older(entry.age)
               e == [entry EXCEPT !.left = left]
    <3>1. Later = [e EXCEPT !.age = age]
      BY <2>2 DEF Later
    <3> HIDE DEF left, age
    <3>2. EntryRecord(e) /\ e.status = entry.status
      BY DEF IInv, EntryInv, EntryOK, EntryRecord
    <3> HIDE DEF e
    <3>3. Later.status = entry.status
      BY <3>1, <3>2 DEF EntryRecord
    <3> QED
      BY <3>3, <2>1, <1>1
  <2>3. CASE ~(entry.left > 1)
    BY <2>3, <2>1, <1>1 DEF Later, NoEntry, Statuses
  <2> QED
    BY <2>2, <2>3
<1>3. entry' # entry
  BY <1>1
<1> QED
  BY <1>2, <1>3 DEF Next, Step, vars, Promote, IntervalPasses, OthersAsk, Asks, CacheHit,
       CacheMiss, CacheUnread, MemoryHit, CatalogLoads, CatalogKnows, CatalogLacks,
       OthersLoad, LoadRows, Sends, Throttled, GateUnasked, Answered,
       Empty, AsksOn, Refused, CacheSet, CacheUnwritten, Raises

LEMMA StandsStep == IInv /\ [Next]_vars => Stands
<1> SUFFICES ASSUME IInv, [Next]_vars, Overwritten PROVE Excused
  BY DEF Stands
<1>1. PICK l \in Lookups : At(l, "set") /\ Write(l)
  BY OthersLeaveStatus
<1>2. look[l].oldest = NoAge
  BY <1>1, SoundLook, WrittenEntry DEF Write, Overwritten
<1>3. ~Unaware(look[l])
  BY DEF IInv, StandInv, Overwritten
<1> QED
  BY <1>1, <1>2, <1>3 DEF Unaware, OnItsWay, At, Excused

(* A failure overwrites a price only when the lookup that failed could not  *)
(* have known of the price.                                                 *)
THEOREM PricesStand == Spec => PriceStands
<1> QED
  BY InitHolds, NextKeeps, ShelfHolds, ShelfKept, StandsStep, PTL DEF Spec, PriceStands

-----------------------------------------------------------------------------
(* Types. How old prices may get follows from the invariant above; the rest *)
(* is a matter of each variable by itself.                                  *)

LookRecord == [pc : {"idle", "get", "try", "ask", "sent", "set"},
               at : DOMAIN Chain, asked : Nat, oldest : Int, extra : Extras,
               error : {"none", "empty", "busy", "unavailable", "other"},
               lag : {0, 1}, blind : BOOLEAN, raced : BOOLEAN]
Price == [left : 0..MemTtl, age : Int, extra : Extras]
EntryType == [status : Statuses \cup {"none"}, left : Nat, age : Int, extra : Extras]

MemoryTyped ==
  /\ memory \in [Providers -> Price]
  /\ \A p \in Providers : memory[p].left = 0 => memory[p].age = NoAge
EntryTyped == entry \in EntryType /\ (Priced(entry) <=> entry.age # NoAge)
LookTyped == look \in [Lookups -> LookRecord]
Others == mode \in {"aggregate", "named"} /\ promoted \in BOOLEAN /\ faults \in 0..MaxFaults
OpenTyped == open \subseteq Providers

LEMMA LookUpdated ==
  ASSUME NEW j \in LookRecord
  PROVE  /\ \A pc \in {"idle", "get", "try", "ask", "sent", "set"} : [j EXCEPT !.pc = pc] \in LookRecord
         /\ \A at \in DOMAIN Chain : [j EXCEPT !.at = at] \in LookRecord
         /\ \A asked \in Nat : [j EXCEPT !.asked = asked] \in LookRecord
         /\ \A oldest \in Int : [j EXCEPT !.oldest = oldest] \in LookRecord
         /\ \A error \in {"none", "empty", "busy", "unavailable", "other"} :
              [j EXCEPT !.error = error] \in LookRecord
         /\ [j EXCEPT !.lag = 1] \in LookRecord
         /\ \A extra \in Extras : [j EXCEPT !.extra = extra] \in LookRecord
         /\ \A b \in BOOLEAN : /\ [j EXCEPT !.blind = b] \in LookRecord
                               /\ [j EXCEPT !.raced = b] \in LookRecord
<1>1. \A pc \in {"idle", "get", "try", "ask", "sent", "set"} : [j EXCEPT !.pc = pc] \in LookRecord
  BY DEF LookRecord
<1>2. \A at \in DOMAIN Chain : [j EXCEPT !.at = at] \in LookRecord
  BY DEF LookRecord
<1>3. \A asked \in Nat : [j EXCEPT !.asked = asked] \in LookRecord
  BY DEF LookRecord
<1>4. \A oldest \in Int : [j EXCEPT !.oldest = oldest] \in LookRecord
  BY DEF LookRecord
<1>5. \A error \in {"none", "empty", "busy", "unavailable", "other"} :
        [j EXCEPT !.error = error] \in LookRecord
  BY DEF LookRecord
<1>6. [j EXCEPT !.lag = 1] \in LookRecord
  BY DEF LookRecord
<1>8. \A extra \in Extras : [j EXCEPT !.extra = extra] \in LookRecord
  BY DEF LookRecord
<1>7. \A b \in BOOLEAN : /\ [j EXCEPT !.blind = b] \in LookRecord
                         /\ [j EXCEPT !.raced = b] \in LookRecord
  BY DEF LookRecord
<1> QED
  BY <1>1, <1>2, <1>3, <1>4, <1>5, <1>6, <1>7, <1>8

LEMMA PassedTyped ==
  ASSUME NEW j \in LookRecord PROVE Passed(j) \in LookRecord
<1> DEFINE at == IF j.at = Len(Chain) THEN j.at ELSE j.at + 1
           pc == IF j.at = Len(Chain) THEN "set" ELSE "try"
           k1 == [j EXCEPT !.at = at]
           k2 == [k1 EXCEPT !.pc = pc]
           k3 == [k2 EXCEPT !.asked = 0]
<1>1. at \in DOMAIN Chain
  BY ChainParts DEF LookRecord
<1>2. pc \in {"idle", "get", "try", "ask", "sent", "set"}
  OBVIOUS
<1>3. Passed(j) = k3
  BY DEF Passed
<1> HIDE DEF at, pc
<1>4. k1 \in LookRecord
  BY <1>1, LookUpdated
<1> HIDE DEF k1
<1>5. k2 \in LookRecord
  BY <1>2, <1>4, LookUpdated
<1> HIDE DEF k2
<1> QED
  BY <1>3, <1>5, LookUpdated

LEMMA IdleTyped == Idle \in LookRecord
BY ChainParts DEF Idle, LookRecord, NoAge, Extras

LEMMA MovedTyped ==
  ASSUME LookTyped, NEW l \in Lookups, NEW j \in LookRecord, Move(l, j) PROVE LookTyped'
BY DEF LookTyped, Move

LEMMA GetsTyped ==
  ASSUME LookTyped, NEW l \in Lookups, NEW age \in Int, NEW extra \in Extras,
         Gets(l, age, extra)
  PROVE  LookTyped'
<1> DEFINE oldest == IF age > look[l].oldest THEN age ELSE look[l].oldest
           both == IF extra > look[l].extra THEN extra ELSE look[l].extra
           k0 == [look[l] EXCEPT !.extra = both]
           k1 == [k0 EXCEPT !.oldest = oldest]
           k2 == [k1 EXCEPT !.error = "none"]
           k3 == [k2 EXCEPT !.blind = FALSE]
           k4 == [k3 EXCEPT !.raced = FALSE]
<1>0. look[l] \in LookRecord
  BY DEF LookTyped
<1>1. Move(l, Passed(k4))
  BY DEF Gets, WithPrice
<1>2. oldest \in Int
  BY <1>0 DEF LookRecord
<1>a. look[l].extra \in Extras
  BY <1>0 DEF LookRecord
<1>b. both \in Extras
  BY <1>a
<1> HIDE DEF oldest, both
<1>c. k0 \in LookRecord
  BY <1>0, <1>b, LookUpdated
<1> HIDE DEF k0
<1>3. k1 \in LookRecord
  BY <1>c, <1>2, LookUpdated
<1> HIDE DEF k1
<1>4. k2 \in LookRecord
  BY <1>3, LookUpdated
<1> HIDE DEF k2
<1>5. k3 \in LookRecord
  BY <1>4, LookUpdated
<1> HIDE DEF k3
<1>6. k4 \in LookRecord
  BY <1>5, LookUpdated
<1> HIDE DEF k4
<1> QED
  BY <1>1, <1>6, PassedTyped, MovedTyped

LEMMA FailsTyped ==
  ASSUME LookTyped, NEW l \in Lookups,
         NEW error \in {"empty", "busy", "unavailable", "other"}, Fails(l, error)
  PROVE  LookTyped'
<1> DEFINE said == IF look[l].oldest = NoAge THEN Raised(error) ELSE look[l].error
           j == [look[l] EXCEPT !.error = said]
<1>0. look[l] \in LookRecord
  BY DEF LookTyped
<1>1. Move(l, Passed(j))
  BY DEF Fails
<1>2. said \in {"none", "empty", "busy", "unavailable", "other"}
  BY <1>0 DEF LookRecord, Raised
<1> HIDE DEF said
<1>3. j \in LookRecord
  BY <1>0, <1>2, LookUpdated
<1> HIDE DEF j
<1> QED
  BY <1>1, <1>3, PassedTyped, MovedTyped

LEMMA ShelfTyped == ShelfInv => shelf.age \in Int
BY DEF ShelfInv, NoShelf, NoAge

(* The lookups: each action moves a record of the type to another.          *)
LEMMA NextLookTyped == LookTyped /\ MemoryTyped /\ LookInv /\ ShelfInv /\ [Next]_vars => LookTyped'
<1> SUFFICES ASSUME LookTyped, MemoryTyped, LookInv, ShelfInv, [Next]_vars PROVE LookTyped'
  OBVIOUS
<1>0. \A l \in Lookups : look[l] \in LookRecord
  BY DEF LookTyped
<1>1. CASE Tick
  <2> DEFINE older(l) == [look[l] EXCEPT !.oldest = Older(@), !.lag = 1]
  <2>1. ASSUME NEW l \in Lookups PROVE older(l) \in LookRecord
    <3> DEFINE age == Older(look[l].oldest)
               k1 == [look[l] EXCEPT !.oldest = age]
    <3>1. older(l) = [k1 EXCEPT !.lag = 1]
      OBVIOUS
    <3>2. age \in Int
      BY <1>0 DEF Older, LookRecord, NoAge
    <3> HIDE DEF age
    <3>3. k1 \in LookRecord
      BY <1>0, <3>2, LookUpdated
    <3> HIDE DEF k1, older
    <3> QED
      BY <3>1, <3>3, LookUpdated
  <2>2. look' = [l \in Lookups |-> IF At(l, "idle") THEN look[l] ELSE older(l)]
    BY <1>1 DEF Tick
  <2> HIDE DEF older
  <2> QED
    BY <1>0, <2>1, <2>2 DEF LookTyped
<1>2. CASE \/ Promote \/ LoadRows \/ UNCHANGED vars
           \/ \E p \in Providers : IntervalPasses(p) \/ OthersAsk(p)
  BY <1>2 DEF Promote, LoadRows, IntervalPasses, OthersAsk, vars, LookTyped
<1>3. ASSUME NEW l \in Lookups, Asks(l) PROVE LookTyped'
  <2> DEFINE k1 == [Idle EXCEPT !.pc = "get"]
             k2 == [k1 EXCEPT !.at = First]
  <2>1. Move(l, k2)
    BY <1>3 DEF Asks
  <2>2. k1 \in LookRecord
    BY IdleTyped, LookUpdated
  <2> HIDE DEF k1
  <2>3. k2 \in LookRecord
    BY <2>2, ChainParts, LookUpdated
  <2> HIDE DEF k2
  <2> QED
    BY <2>1, <2>3, MovedTyped
<1>4. ASSUME NEW l \in Lookups, CacheHit(l) \/ Raises(l) PROVE LookTyped'
  BY <1>4, IdleTyped, MovedTyped DEF CacheHit, Raises, Ends
<1>5. ASSUME NEW l \in Lookups, CacheMiss(l) \/ CatalogLacks(l) \/ AsksOn(l) PROVE LookTyped'
  <2>1. PICK pc \in {"try", "ask"} : Move(l, [look[l] EXCEPT !.pc = pc])
    BY <1>5 DEF CacheMiss, CatalogLacks, AsksOn
  <2>2. [look[l] EXCEPT !.pc = pc] \in LookRecord
    BY <1>0, LookUpdated
  <2> QED
    BY <2>1, <2>2, MovedTyped
<1>6. ASSUME NEW l \in Lookups, CacheUnread(l) PROVE LookTyped'
  <2> DEFINE k1 == [look[l] EXCEPT !.pc = "try"]
             k2 == [k1 EXCEPT !.blind = TRUE]
  <2>1. Move(l, k2)
    BY <1>6 DEF CacheUnread
  <2>2. k1 \in LookRecord
    BY <1>0, LookUpdated
  <2> HIDE DEF k1
  <2>3. k2 \in LookRecord
    BY <2>2, LookUpdated
  <2> HIDE DEF k2
  <2> QED
    BY <2>1, <2>3, MovedTyped
<1>7. ASSUME NEW l \in Lookups, Sends(l) PROVE LookTyped'
  <2> DEFINE asked == look[l].asked + 1
             k1 == [look[l] EXCEPT !.pc = "sent"]
             k2 == [k1 EXCEPT !.asked = asked]
  <2>1. Move(l, k2)
    BY <1>7 DEF Sends
  <2>2. k1 \in LookRecord
    BY <1>0, LookUpdated
  <2>3. asked \in Nat
    BY <1>0 DEF LookRecord
  <2> HIDE DEF k1, asked
  <2>4. k2 \in LookRecord
    BY <2>2, <2>3, LookUpdated
  <2> HIDE DEF k2
  <2> QED
    BY <2>1, <2>4, MovedTyped
<1>8. ASSUME NEW l \in Lookups, MemoryHit(l) PROVE LookTyped'
  <2>1. Provider(l) \in Providers
    BY <1>0, ChainParts DEF Provider, LookRecord
  <2>2. /\ memory[Provider(l)].age \in Int /\ memory[Provider(l)].extra \in Extras
        /\ Gets(l, memory[Provider(l)].age, memory[Provider(l)].extra)
    BY <1>8, <2>1 DEF MemoryTyped, Price, MemoryHit
  <2> QED
    BY <2>2, GetsTyped
<1>9. ASSUME NEW l \in Lookups, CatalogKnows(l) \/ Answered(l) PROVE LookTyped'
  <2>1. PICK age \in Int, extra \in Extras : Gets(l, age, extra)
    BY <1>9, ShelfTyped DEF CatalogKnows, Answered, Extras
  <2> QED
    BY <2>1, GetsTyped
<1>10. ASSUME NEW l \in Lookups, \/ Throttled(l) \/ GateUnasked(l) \/ Empty(l)
              \/ \E error \in {"busy", "unavailable", "other"} : Refused(l, error)
       PROVE  LookTyped'
  BY <1>10, FailsTyped DEF Throttled, GateUnasked, Empty, Refused
<1>11. ASSUME NEW l \in Lookups, Write(l) PROVE LookTyped'
  <2> DEFINE raced(m) == look[m].raced \/
               (look[l].oldest # NoAge /\ look[m].oldest = NoAge /\ ~At(m, "idle") /\ ~At(m, "get"))
             next(m) == [look[m] EXCEPT !.raced = raced(m)]
  <2>1. look' = [m \in Lookups |-> IF m = l THEN Idle ELSE next(m)]
    BY <1>11 DEF Write
  <2>2. ASSUME NEW m \in Lookups PROVE next(m) \in LookRecord
    <3>1. raced(m) \in BOOLEAN
      <4>1. look[m].raced \in BOOLEAN
        BY <1>0 DEF LookRecord
      <4>2. QED
        BY <4>1, Zenon
    <3> HIDE DEF raced
    <3> QED
      BY <1>0, <3>1, LookUpdated
  <2> HIDE DEF next
  <2> QED
    BY <2>1, <2>2, IdleTyped DEF LookTyped
<1>12. ASSUME NEW l \in Lookups, CacheSet(l) \/ CacheUnwritten(l) PROVE LookTyped'
  BY <1>11, <1>12, IdleTyped, MovedTyped DEF CacheSet, CacheUnwritten, Ends
<1> QED
  BY <1>1, <1>2, <1>3, <1>4, <1>5, <1>6, <1>7, <1>8, <1>9, <1>10, <1>12
     DEF Next, Step, OthersLoad, CatalogLoads

(* The memories of the providers.                                           *)
LEMMA NextMemoryTyped == LookTyped /\ MemoryTyped /\ ShelfInv /\ [Next]_vars => MemoryTyped'
<1> SUFFICES ASSUME LookTyped, MemoryTyped, ShelfInv, [Next]_vars PROVE MemoryTyped'
  OBVIOUS
<1>1. CASE Tick
  <2>1. memory' = [p \in Providers |-> Aged(memory[p])]
    BY <1>1 DEF Tick
  <2>2. ASSUME NEW p \in Providers PROVE Aged(memory[p]) \in Price
    <3>1. memory[p] \in Price
      BY DEF MemoryTyped
    <3>2. CASE memory[p].left > 1
      <4>1. memory[p].left - 1 \in 0..MemTtl /\ memory[p].age + 1 \in Int
        BY <3>1, <3>2, Positive DEF Price
      <4> QED
        BY <3>1, <3>2, <4>1 DEF Aged, Price
    <3>3. CASE ~(memory[p].left > 1)
      BY <3>3, Positive DEF Aged, Price, NoPrice, NoAge, Extras
    <3> QED
      BY <3>2, <3>3
  <2>3. ASSUME NEW p \in Providers
        PROVE  Aged(memory[p]).left = 0 => Aged(memory[p]).age = NoAge
    BY DEF MemoryTyped, Aged, Price, NoPrice
  <2> QED
    BY <2>1, <2>2, <2>3 DEF MemoryTyped
<1>2. ASSUME NEW p, NEW age \in Int, NEW extra \in Extras, Remember(p, age, extra)
      PROVE  MemoryTyped'
  <2> DEFINE new == [left |-> MemTtl, age |-> age, extra |-> extra]
  <2>1. new \in Price /\ new.left # 0
    BY Positive DEF Price
  <2>2. memory' = [memory EXCEPT ![p] = new]
    BY <1>2 DEF Remember
  <2> HIDE DEF new
  <2> QED
    BY <2>1, <2>2 DEF MemoryTyped
<1>3. ASSUME UNCHANGED memory PROVE MemoryTyped'
  BY <1>3 DEF MemoryTyped
<1>4. ASSUME NEW l, CatalogKnows(l) \/ Answered(l) PROVE MemoryTyped'
  <2>1. PICK age \in Int, extra \in Extras : Remember(Provider(l), age, extra)
    BY <1>4, ShelfTyped DEF CatalogKnows, Answered, Extras
  <2> QED
    BY <2>1, <1>2
<1> QED
  BY <1>1, <1>3, <1>4 DEF Next, Step, vars, Promote, IntervalPasses, OthersAsk,
       Asks, CacheHit, CacheMiss, CacheUnread, MemoryHit, Recalled, CatalogLoads, CatalogLacks,
       OthersLoad, LoadRows, Sends, Throttled, GateUnasked, Empty, AsksOn, Refused, CacheSet, CacheUnwritten, Raises

(* The entry: it has a price just when it says so.                          *)
LEMMA NextEntryTyped == LookTyped /\ EntryTyped /\ EntryInv /\ [Next]_vars => EntryTyped'
<1> SUFFICES ASSUME LookTyped, EntryTyped, EntryInv, [Next]_vars PROVE EntryTyped'
  OBVIOUS
<1>1. CASE Tick
  <2>1. entry' = Later
    BY <1>1 DEF Tick
  <2>2. CASE entry.left > 1
    <3> DEFINE left == entry.left - 1
               age == Older(entry.age)
               e1 == [entry EXCEPT !.left = left]
               e2 == [e1 EXCEPT !.age = age]
    <3>1. Later = e2
      BY <2>2 DEF Later
    <3>2. left \in Nat /\ age \in Int /\ (age # NoAge <=> entry.age # NoAge)
      BY <2>2 DEF EntryTyped, EntryType, EntryInv, EntryOK, Older, NoAge
    <3> HIDE DEF left, age
    <3>3. e1 \in EntryType /\ e1.status = entry.status
      BY <3>2 DEF EntryTyped, EntryType
    <3> HIDE DEF e1
    <3>4. e2 \in EntryType /\ e2.status = entry.status /\ e2.age = age
      BY <3>2, <3>3 DEF EntryType
    <3> HIDE DEF e2
    <3> QED
      BY <2>1, <3>1, <3>2, <3>4 DEF EntryTyped, Priced
  <2>3. CASE ~(entry.left > 1)
    BY <2>1, <2>3 DEF Later, NoEntry, EntryTyped, EntryType, Priced, NoAge, Extras
  <2> QED
    BY <2>2, <2>3
<1>2. ASSUME NEW l \in Lookups, Write(l) PROVE EntryTyped'
  <2> DEFINE status == StatusOf(look[l])
             left == Ttl(status)
  <2>1. entry' = [status |-> status, left |-> left, age |-> look[l].oldest,
                  extra |-> look[l].extra]
    BY <1>2 DEF Write, EntryOf
  <2>2. /\ status \in Statuses /\ left \in Nat /\ look[l].oldest \in Int
        /\ look[l].extra \in Extras
        /\ (status = "market_estimated" <=> look[l].oldest # NoAge)
    BY Positive DEF StatusOf, Ttl, Statuses, LookTyped, LookRecord
  <2> HIDE DEF status, left
  <2> QED
    BY <2>1, <2>2 DEF EntryTyped, EntryType, Priced
<1>3. ASSUME UNCHANGED entry PROVE EntryTyped'
  BY <1>3 DEF EntryTyped, Priced
<1> QED
  BY <1>1, <1>2, <1>3 DEF Next, Step, vars, Promote, IntervalPasses, OthersAsk, Asks, CacheHit,
       CacheMiss, CacheUnread, MemoryHit, CatalogLoads, CatalogKnows, CatalogLacks,
       OthersLoad, LoadRows, Sends, Throttled, GateUnasked,
       Answered, Empty, AsksOn, Refused, CacheSet, CacheUnwritten, Raises

LEMMA NextOthers == Others /\ [Next]_vars => Others'
<1> SUFFICES ASSUME Others, [Next]_vars PROVE Others'
  OBVIOUS
<1>1. Work \/ Fault
  BY DEF Next, Step, vars, Promote, Tick, IntervalPasses, OthersAsk, Asks, CacheHit, CacheMiss,
       CacheUnread, MemoryHit, CatalogLoads, CatalogKnows, CatalogLacks,
       OthersLoad, LoadRows, Sends, Throttled, GateUnasked, Answered, Empty,
       AsksOn, Refused, CacheSet, CacheUnwritten, Raises, Work
<1>2. UNCHANGED mode
  BY DEF Next, Step, vars, Promote, Tick, IntervalPasses, OthersAsk, Asks, CacheHit, CacheMiss,
       CacheUnread, MemoryHit, CatalogLoads, CatalogKnows, CatalogLacks,
       OthersLoad, LoadRows, Sends, Throttled, GateUnasked, Answered, Empty,
       AsksOn, Refused, CacheSet, CacheUnwritten, Raises
<1>3. promoted' \in BOOLEAN
  BY DEF Next, Step, vars, Promote, Tick, IntervalPasses, OthersAsk, Asks, CacheHit, CacheMiss,
       CacheUnread, MemoryHit, CatalogLoads, CatalogKnows, CatalogLacks,
       OthersLoad, LoadRows, Sends, Throttled, GateUnasked, Answered, Empty,
       AsksOn, Refused, CacheSet, CacheUnwritten, Raises, Others
<1>4. MaxFaults \in Nat
  BY PricingLookupAssumption
<1>5. faults' \in 0..MaxFaults
  BY <1>1, <1>4 DEF Work, Fault, Others
<1> QED
  BY <1>2, <1>3, <1>5 DEF Others

LEMMA NextOpenTyped == OpenTyped /\ [Next]_vars => OpenTyped'
<1> SUFFICES ASSUME OpenTyped, [Next]_vars PROVE OpenTyped'
  OBVIOUS
<1>1. \/ open' \in {open, Providers}
      \/ \E p : open' = open \ {p}
      \/ \E p \in Providers : open' = open \cup {p}
  BY DEF Next, Step, vars, Promote, Tick, IntervalPasses, OthersAsk, Asks, CacheHit, CacheMiss,
       CacheUnread, MemoryHit, CatalogLoads, CatalogKnows, CatalogLacks,
       OthersLoad, LoadRows, Sends, Throttled, GateUnasked, Answered, Empty,
       AsksOn, Refused, CacheSet, CacheUnwritten, Raises
<1> QED
  BY <1>1 DEF OpenTyped

LEMMA InitTyped == Init => MemoryTyped /\ EntryTyped /\ LookTyped /\ Others /\ OpenTyped
<1> SUFFICES ASSUME Init PROVE MemoryTyped /\ EntryTyped /\ LookTyped /\ Others /\ OpenTyped
  OBVIOUS
<1>1. MemoryTyped
  BY Positive DEF Init, MemoryTyped, Price, NoPrice, NoAge, Extras
<1>2. EntryTyped
  BY DEF Init, EntryTyped, EntryType, NoEntry, Priced, NoAge, Extras
<1>3. LookTyped
  BY IdleTyped DEF Init, LookTyped
<1>4. Others /\ OpenTyped
  <2>1. MaxFaults \in Nat
    BY PricingLookupAssumption
  <2>2. 0 \in 0..MaxFaults
    BY <2>1
  <2>3. promoted \in BOOLEAN
    BY DEF Init
  <2>4. /\ mode \in {"aggregate", "named"}
        /\ faults = 0 /\ open = Providers
    BY DEF Init
  <2> QED
    BY <2>2, <2>3, <2>4 DEF Others, OpenTyped
<1> QED
  BY <1>1, <1>2, <1>3, <1>4

(* Every variable keeps its type; the copy of the catalog is dropped in     *)
(* time, no price in a memory, in a lookup or in the shared entry is ever   *)
(* older than the three times to live together, and an entry says that the  *)
(* market was estimated just when it has a price.                           *)
THEOREM TypeCorrect == Spec => []TypeOK
<1>1. IInv /\ ShelfInv /\ MemoryTyped /\ EntryTyped /\ LookTyped /\ Others /\ OpenTyped => TypeOK
  <2> SUFFICES ASSUME IInv, ShelfInv, MemoryTyped, EntryTyped, LookTyped, Others, OpenTyped PROVE TypeOK
    OBVIOUS
  <2>a. /\ Ages = -1..(MemTtl + CatalogTtl + MarketTtl)
        /\ \A extra \in Extras : /\ extra \in Nat /\ extra <= CatalogTtl
                                 /\ Life(extra) \in Nat /\ Life(extra) <= MemTtl + CatalogTtl
    BY Positive DEF Ages, Life, Extras
  <2>1. entry \in [status : Statuses \cup {"none"}, left : Nat, age : Ages, extra : Extras]
    <3>1. entry.age \in Ages
      BY <2>a, Positive DEF IInv, EntryInv, EntryOK, EntryTyped, EntryType, NoAge
    <3> QED
      BY <3>1 DEF EntryTyped, EntryType
  <2>2. memory \in [Providers -> [left : 0..MemTtl, age : Ages, extra : Extras]]
    <3>1. ASSUME NEW p \in Providers PROVE memory[p] \in [left : 0..MemTtl, age : Ages, extra : Extras]
      <4>1. memory[p] \in Price /\ (memory[p].left = 0 => memory[p].age = NoAge) /\ Fits(memory[p])
        BY DEF MemoryTyped, IInv, MemoryInv
      <4>2. memory[p].age \in Ages
        <5>1. CASE memory[p].left = 0
          BY <4>1, <5>1, <2>a, Positive DEF NoAge
        <5>2. CASE memory[p].left # 0
          <6>1. memory[p].left > 0
            BY <4>1, <5>2, Positive DEF Price
          <6>2. /\ memory[p].age \in Nat /\ memory[p].extra \in Extras
                /\ memory[p].age + memory[p].left <= Life(memory[p].extra)
            BY <4>1, <6>1 DEF Fits
          <6> QED
            BY <2>a, <6>1, <6>2, <4>1, Positive DEF Price
        <5> QED
          BY <5>1, <5>2
      <4> QED
        BY <4>1, <4>2 DEF Price
    <3> QED
      BY <3>1 DEF MemoryTyped
  <2>3. ASSUME NEW l \in Lookups PROVE look[l].oldest \in Ages
    <3>1. Sound(look[l])
      BY SoundLook
    <3> QED
      BY <2>a, <3>1, Positive DEF Sound, Dated, NoAge
  <2>4. ASSUME NEW j \in LookRecord, j.oldest \in Ages
        PROVE  j \in [pc : {"idle", "get", "try", "ask", "sent", "set"},
                      at : DOMAIN Chain, asked : Nat, oldest : Ages, extra : Extras,
                      error : {"none", "empty", "busy", "unavailable", "other"},
                      lag : {0, 1}, blind : BOOLEAN, raced : BOOLEAN]
    BY <2>4 DEF LookRecord
  <2>5. (entry.status = "market_estimated") <=> (entry.age # NoAge)
    BY DEF EntryTyped, Priced
  <2>6. look \in [Lookups ->
          [pc : {"idle", "get", "try", "ask", "sent", "set"},
           at : DOMAIN Chain, asked : Nat, oldest : Ages, extra : Extras,
           error : {"none", "empty", "busy", "unavailable", "other"},
           lag : {0, 1}, blind : BOOLEAN, raced : BOOLEAN]]
    BY <2>3, <2>4 DEF LookTyped
  <2>7. shelf \in [age : -1..CatalogTtl, knows : BOOLEAN]
    <3>1. CASE shelf = NoShelf
      BY <3>1, Positive DEF NoShelf, NoAge
    <3>2. CASE shelf \in [age : 0..CatalogTtl, knows : BOOLEAN]
      <4>1. \A age \in 0..CatalogTtl : age \in -1..CatalogTtl
        BY Positive
      <4> QED
        BY <3>2, <4>1
    <3> QED
      BY <3>1, <3>2 DEF ShelfInv
  <2> QED
    BY <2>1, <2>2, <2>5, <2>6, <2>7 DEF TypeOK, Others, OpenTyped
<1>2. IInv => LookInv /\ EntryInv
  BY DEF IInv
<1> QED
  BY <1>1, <1>2, InitHolds, NextKeeps, ShelfHolds, ShelfKept, InitTyped, NextLookTyped, NextMemoryTyped, NextEntryTyped,
     NextOthers, NextOpenTyped, PTL DEF Spec
=============================================================================
