---------------------------- MODULE StoreProofs ----------------------------
(***************************************************************************)
(* What holds of Store for every finite set of domains, every set of       *)
(* addresses and every lifetime.                                           *)
(***************************************************************************)
EXTENDS Store, FiniteSetTheorems, TLAPS

-----------------------------------------------------------------------------
(* Data.                                                                   *)

\* A record set is a map from addresses to lifetimes.
LEMMA RecordsType ==
    ASSUME NEW r
    PROVE  r \in Records <=> DOMAIN r \subseteq Address /\ r \in [DOMAIN r -> 0..RecordLife]
<1>1. ASSUME r \in Records
      PROVE  DOMAIN r \subseteq Address /\ r \in [DOMAIN r -> 0..RecordLife]
  BY <1>1 DEF Records
<1>2. ASSUME DOMAIN r \subseteq Address, r \in [DOMAIN r -> 0..RecordLife]
      PROVE  r \in Records
  BY <1>2 DEF Records
<1>3. QED  BY <1>1, <1>2

\* A name that was never resolved holds no record.
LEMMA NewItemType == NewItem \in Item /\ NoRecords \in Records /\ DOMAIN NoRecords = {}
<1>1. DOMAIN NoRecords = {} /\ NoRecords \in [{} -> 0..RecordLife]
  BY DEF NoRecords
<1>2. NoRecords \in Records
  BY <1>1, RecordsType
<1>3. 0 \in TTL
  BY StoreAssumption DEF TTL
<1>4. QED  BY <1>1, <1>2, <1>3 DEF NewItem, Item

\* What a Compute reads of a domain is a record set.
LEMMA ExtType ==
    ASSUME TypeOK, NEW d
    PROVE  Ext(d) \in Records
BY NewItemType DEF TypeOK, Ext, Item

\* The ext that Publish writes is a record set, and its domain is what was
\* resolved and what is kept.
LEMMA RenewType ==
    ASSUME NEW rec \in Records, NEW old \in Records
    PROVE  /\ Renew(rec, old) \in Records
           /\ DOMAIN Renew(rec, old) = Fresh(rec) \cup Kept(rec, old)
<1>1. /\ DOMAIN rec \subseteq Address /\ rec \in [DOMAIN rec -> 0..RecordLife]
      /\ DOMAIN old \subseteq Address /\ old \in [DOMAIN old -> 0..RecordLife]
  BY RecordsType
<1>2. DOMAIN Renew(rec, old) = Fresh(rec) \cup Kept(rec, old)
  BY DEF Renew
<1>3. Fresh(rec) \cup Kept(rec, old) \subseteq Address
  BY <1>1 DEF Fresh, Kept
<1>4. Renew(rec, old) \in [Fresh(rec) \cup Kept(rec, old) -> 0..RecordLife]
  <2>1. \A a \in Fresh(rec) : rec[a] \in 0..RecordLife
    BY <1>1 DEF Fresh
  <2>2. \A a \in Kept(rec, old) : old[a] \in 0..RecordLife
    BY <1>1 DEF Kept
  <2>3. QED  BY <2>1, <2>2 DEF Renew
<1>5. QED  BY <1>2, <1>3, <1>4, RecordsType

-----------------------------------------------------------------------------
(* The cache: one domain is written, or removed.                           *)

LEMMA PutType ==
    ASSUME TypeOK, NEW d \in Domain, NEW item \in Item, domains' = Put(d, item)
    PROVE  /\ Known' = Known \cup {d} /\ Known' \subseteq Domain
           /\ domains' \in [Known' -> Item]
           /\ domains'[d] = item
           /\ \A x \in Known \ {d} : domains'[x] = domains[x]
BY DEF TypeOK, Put, Known

LEMMA DropType ==
    ASSUME TypeOK, NEW d, domains' = Restrict(domains, Known \ {d})
    PROVE  /\ Known' = Known \ {d} /\ Known' \subseteq Domain
           /\ domains' \in [Known' -> Item]
           /\ \A x \in Known' : domains'[x] = domains[x]
BY DEF TypeOK, Restrict, Known

-----------------------------------------------------------------------------
(* The counters.                                                           *)

\* The holders of an address are finitely many, and a domain is one of them
\* when the ext a Compute reads of it has the address.
LEMMA HoldersFinite ==
    ASSUME TypeOK, NEW a
    PROVE  /\ IsFiniteSet(Holders(a))
           /\ Cardinality(Holders(a)) \in Nat
           /\ \A d : d \in Holders(a) <=> a \in DOMAIN Ext(d)
<1>1. Holders(a) \subseteq Domain
  BY DEF TypeOK, Holders
<1>2. IsFiniteSet(Holders(a))
  BY <1>1, StoreAssumption, FS_Subset
<1>3. \A d : d \in Holders(a) <=> a \in DOMAIN Ext(d)
  BY NewItemType DEF Holders, Ext
<1>4. QED  BY <1>2, <1>3, FS_CardinalityType

\* RefCounts, said of every address: the zero value of an absent counter
\* counts no holder.
LEMMA CountsEquivalent ==
    ASSUME TypeOK
    PROVE  RefCounts <=> \A a \in Address : Count(a) = Cardinality(Holders(a))
<1>1. \A a \in Address : Cardinality(Holders(a)) = 0 <=> Holders(a) = {}
  BY HoldersFinite, FS_EmptySet
<1>2. \A a : a \in UNION {DOMAIN domains[d].ext : d \in Known} <=> Holders(a) # {}
  BY DEF Holders
<1>3. UNION {DOMAIN domains[d].ext : d \in Known} \subseteq Address
  BY RecordsType DEF TypeOK, Item
<1>4. DOMAIN list \subseteq Address /\ \A a \in DOMAIN list : list[a] # 0
  BY DEF TypeOK
<1>5. ASSUME RefCounts
      PROVE  \A a \in Address : Count(a) = Cardinality(Holders(a))
  BY <1>1, <1>2, <1>5 DEF RefCounts, Count
<1>6. ASSUME \A a \in Address : Count(a) = Cardinality(Holders(a))
      PROVE  RefCounts
  <2>1. \A a \in DOMAIN list : list[a] = Cardinality(Holders(a))
    BY <1>4, <1>6 DEF Count
  <2>2. \A a \in Address : a \in DOMAIN list <=> Holders(a) # {}
    BY <1>1, <1>4, <1>6, <2>1 DEF Count
  <2>3. DOMAIN list = UNION {DOMAIN domains[d].ext : d \in Known}
    BY <1>2, <1>3, <1>4, <2>2
  <2>4. QED  BY <2>1, <2>3 DEF RefCounts
<1>7. QED  BY <1>5, <1>6

\* What a domain holds is counted.
LEMMA ExtCounted ==
    ASSUME TypeOK, RefCounts, NEW d
    PROVE  DOMAIN Ext(d) \subseteq DOMAIN list
BY NewItemType DEF RefCounts, Ext

\* A set and its cardinality when one element comes or goes.
LEMMA OneElement ==
    ASSUME NEW S, IsFiniteSet(S), NEW d
    PROVE  /\ Cardinality(S) \in Nat
           /\ Cardinality(S \cup {d}) \in Nat
           /\ Cardinality(S \ {d}) \in Nat
           /\ d \in S => /\ Cardinality(S \cup {d}) = Cardinality(S)
                         /\ Cardinality(S \ {d}) = Cardinality(S) - 1
           /\ d \notin S => /\ Cardinality(S \cup {d}) = Cardinality(S) + 1
                            /\ Cardinality(S \ {d}) = Cardinality(S)
<1>1. /\ IsFiniteSet(S \cup {d})
      /\ Cardinality(S \cup {d}) = IF d \in S THEN Cardinality(S) ELSE Cardinality(S) + 1
  BY FS_AddElement
<1>2. /\ IsFiniteSet(S \ {d})
      /\ Cardinality(S \ {d}) = IF d \in S THEN Cardinality(S) - 1 ELSE Cardinality(S)
  BY FS_RemoveElement
<1>3. /\ Cardinality(S) \in Nat
      /\ Cardinality(S \cup {d}) \in Nat
      /\ Cardinality(S \ {d}) \in Nat
  BY <1>1, <1>2, FS_CardinalityType
<1>4. QED  BY <1>1, <1>2, <1>3

\* One domain comes to hold N: the counters that change by one, up for what
\* it gains and down for what it loses, remain the numbers of holders.
LEMMA CountsFollow ==
    ASSUME TypeOK, RefCounts, NEW d, NEW N,
           domains' \in [Known' -> Item],
           Known' \subseteq Domain,
           DOMAIN list' \subseteq Address,
           list' = [a \in DOMAIN list' |-> list'[a]],
           \A a \in DOMAIN list' : list'[a] # 0,
           \A a \in Address :
              Holders(a)' = IF a \in N THEN Holders(a) \cup {d} ELSE Holders(a) \ {d},
           \A a \in Address :
              Count(a)' = IF a \in N \ DOMAIN Ext(d) THEN Count(a) + 1
                          ELSE IF a \in DOMAIN Ext(d) \ N THEN Count(a) - 1
                          ELSE Count(a)
    PROVE  list' \in [DOMAIN list' -> Nat \ {0}] /\ RefCounts'
<1>1. ASSUME NEW a \in Address
      PROVE  Count(a)' = Cardinality(Holders(a)') /\ Count(a)' \in Nat
  <2>1. Count(a) = Cardinality(Holders(a)) /\ Count(a) \in Nat
    BY CountsEquivalent, HoldersFinite
  <2>2. IsFiniteSet(Holders(a)) /\ (d \in Holders(a) <=> a \in DOMAIN Ext(d))
    BY HoldersFinite
  <2>3. Cardinality(Holders(a) \cup {d})
            = IF a \in DOMAIN Ext(d) THEN Count(a) ELSE Count(a) + 1
    BY <2>1, <2>2, OneElement
  <2>4. Cardinality(Holders(a) \ {d})
            = IF a \in DOMAIN Ext(d) THEN Count(a) - 1 ELSE Count(a)
    BY <2>1, <2>2, OneElement
  <2>5. /\ Cardinality(Holders(a) \cup {d}) \in Nat
        /\ Cardinality(Holders(a) \ {d}) \in Nat
    BY <2>2, OneElement
  <2>6. CASE a \in N
    BY <2>1, <2>3, <2>5, <2>6
  <2>7. CASE a \notin N
    BY <2>1, <2>4, <2>5, <2>7
  <2>8. QED  BY <2>6, <2>7
<1>2. list' \in [DOMAIN list' -> Nat \ {0}]
  <2>1. \A a \in DOMAIN list' : list'[a] \in Nat \ {0}
    BY <1>1 DEF Count
  <2>2. QED  BY <2>1
<1>3. \A a \in Address : Holders(a)' = {} <=> Count(a)' = 0
  <2>1. \A a \in Address : IsFiniteSet(Holders(a)')
    <3>1. \A a \in Address : Holders(a)' \subseteq Domain
      BY DEF Holders
    <3>2. QED  BY <3>1, StoreAssumption, FS_Subset
  <2>2. QED  BY <1>1, <2>1, FS_EmptySet
<1>4. \A a : a \in UNION {DOMAIN domains'[x].ext : x \in Known'} <=> Holders(a)' # {}
  BY DEF Holders
<1>5. UNION {DOMAIN domains'[x].ext : x \in Known'} \subseteq Address
  BY RecordsType DEF Item
<1>6. \A a \in Address : a \in DOMAIN list' <=> Holders(a)' # {}
  BY <1>3 DEF Count
<1>7. DOMAIN list' = UNION {DOMAIN domains'[x].ext : x \in Known'}
  BY <1>4, <1>5, <1>6
<1>8. \A a \in DOMAIN list' : list'[a] = Cardinality(Holders(a)')
  BY <1>1 DEF Count
<1>9. QED  BY <1>2, <1>7, <1>8 DEF RefCounts

-----------------------------------------------------------------------------
(* The steps of the calls: what they do to the cache and the counters.     *)

\* A domain without record is entered: no holder and no counter changes.
LEMMA EnterCounts ==
    ASSUME TypeOK, RefCounts, NEW d \in Domain, d \notin Known,
           domains' = Put(d, NewItem), UNCHANGED list
    PROVE  domains' \in [Known' -> Item] /\ Known' \subseteq Domain /\ RefCounts'
<1>1. /\ Known' = Known \cup {d} /\ Known' \subseteq Domain
      /\ domains' \in [Known' -> Item]
      /\ domains'[d] = NewItem
      /\ \A x \in Known \ {d} : domains'[x] = domains[x]
  BY PutType, NewItemType
<1>2. \A a : Holders(a)' = Holders(a)
  BY <1>1, NewItemType DEF Holders, NewItem
<1>3. UNION {DOMAIN domains'[x].ext : x \in Known'}
        = UNION {DOMAIN domains[x].ext : x \in Known}
  BY <1>2 DEF Holders
<1>4. QED  BY <1>1, <1>2, <1>3 DEF RefCounts

\* A domain leaves and releases its addresses: the counters follow, and the
\* addresses that lose their last holder are the ones that leave the list.
LEMMA ReleaseCounts ==
    ASSUME TypeOK, RefCounts, NEW d \in Known,
           domains' = Restrict(domains, Known \ {d}),
           list' = Release(Ext(d))
    PROVE  /\ domains' \in [Known' -> Item] /\ Known' = Known \ {d}
           /\ Known' \subseteq Domain /\ DOMAIN list' \subseteq Address
           /\ list' \in [DOMAIN list' -> Nat \ {0}]
           /\ RefCounts'
           /\ DOMAIN list' = DOMAIN list \ LastRefs(Ext(d))
           /\ LastRefs(Ext(d)) \subseteq DOMAIN list
<1>1. /\ Known' = Known \ {d} /\ Known' \subseteq Domain
      /\ domains' \in [Known' -> Item]
      /\ \A x \in Known' : domains'[x] = domains[x]
  BY DropType
<1>2. DOMAIN Ext(d) \subseteq DOMAIN list
  BY ExtCounted
<1>3. /\ DOMAIN list' = DOMAIN list \ LastRefs(Ext(d))
      /\ LastRefs(Ext(d)) \subseteq DOMAIN list
  BY <1>2 DEF Release, LastRefs
<1>4. DOMAIN list' \subseteq Address /\ list' = [a \in DOMAIN list' |-> list'[a]]
  BY <1>3 DEF TypeOK, Release
<1>5. \A a \in DOMAIN list : list[a] \in Nat \ {0}
  BY DEF TypeOK
<1>6. \A a \in DOMAIN list' :
         list'[a] = IF a \in DOMAIN Ext(d) THEN list[a] - 1 ELSE list[a]
  BY <1>3 DEF Release, Count
<1>7. \A a \in DOMAIN list' : list'[a] # 0
  BY <1>3, <1>5, <1>6 DEF LastRefs
<1>8. \A a : Holders(a)' = IF a \in {} THEN Holders(a) \cup {d} ELSE Holders(a) \ {d}
  BY <1>1 DEF Holders
<1>9. \A a \in Address :
         Count(a)' = IF a \in {} \ DOMAIN Ext(d) THEN Count(a) + 1
                     ELSE IF a \in DOMAIN Ext(d) \ {} THEN Count(a) - 1
                     ELSE Count(a)
  BY <1>2, <1>3, <1>5, <1>6 DEF Count, LastRefs
<1>10. list' \in [DOMAIN list' -> Nat \ {0}] /\ RefCounts'
  BY <1>1, <1>4, <1>7, <1>8, <1>9, CountsFollow
<1>11. QED  BY <1>1, <1>3, <1>4, <1>10

\* The addresses a resolved domain gives up for good.
Lost(rec, old) == Gone(rec, old) \ Shared(Gone(rec, old))

\* One domain is published: the counters follow what it gains and gives up.
LEMMA PublishCounts ==
    ASSUME TypeOK, RefCounts, NEW d \in Domain, NEW rec \in Records, NEW ttl \in TTL,
           domains' = Put(d, [ext |-> Renew(rec, Ext(d)), expire |-> ttl]),
           list' = Recount(rec, Ext(d))
    PROVE  /\ domains' \in [Known' -> Item] /\ Known' = Known \cup {d}
           /\ Known' \subseteq Domain /\ DOMAIN list' \subseteq Address
           /\ list' \in [DOMAIN list' -> Nat \ {0}]
           /\ RefCounts'
           /\ DOMAIN list' = (DOMAIN list \cup Added(rec, Ext(d))) \ Lost(rec, Ext(d))
           /\ \A x \in Known \ {d} : domains'[x] = domains[x]
<1> DEFINE old == Ext(d)
           N == Fresh(rec) \cup Kept(rec, old)
<1>1. old \in Records
  BY ExtType
<1>2. Renew(rec, old) \in Records /\ DOMAIN Renew(rec, old) = N
  BY <1>1, RenewType
<1>3. [ext |-> Renew(rec, old), expire |-> ttl] \in Item
  BY <1>2 DEF Item
<1>4. /\ Known' = Known \cup {d} /\ Known' \subseteq Domain
      /\ domains' \in [Known' -> Item]
      /\ domains'[d] = [ext |-> Renew(rec, old), expire |-> ttl]
      /\ \A x \in Known \ {d} : domains'[x] = domains[x]
  BY <1>3, PutType
<1>5. DOMAIN old \subseteq DOMAIN list
  BY ExtCounted
<1>6. /\ DOMAIN old \subseteq Address /\ Fresh(rec) \subseteq Address
      /\ DOMAIN list \subseteq Address
      /\ \A a \in DOMAIN list : list[a] \in Nat \ {0}
      /\ \A a \in DOMAIN old : old[a] \in Nat
  BY <1>1, RecordsType DEF TypeOK, Fresh
<1>7. /\ Added(rec, old) = N \ DOMAIN old
      /\ Gone(rec, old) = DOMAIN old \ N
  BY <1>6 DEF Added, Gone, Kept
<1>8. /\ Lost(rec, old) = {a \in Gone(rec, old) : list[a] = 1}
      /\ Shared(Gone(rec, old)) = {a \in Gone(rec, old) : list[a] > 1}
  BY <1>5, <1>6, <1>7 DEF Lost, Shared
<1>9. /\ DOMAIN list' = (DOMAIN list \cup Added(rec, old)) \ Lost(rec, old)
      /\ list' = [a \in DOMAIN list' |-> list'[a]]
      /\ \A a \in DOMAIN list' :
            list'[a] = IF a \in Added(rec, old) THEN Count(a) + 1
                       ELSE IF a \in Gone(rec, old) THEN Count(a) - 1 ELSE Count(a)
  BY DEF Recount, Lost
<1>10. DOMAIN list' \subseteq Address
  BY <1>6, <1>9 DEF Added
<1>11. \A a : Count(a) \in Nat
  BY <1>6 DEF Count
<1>12. \A a \in DOMAIN list' : list'[a] # 0
  <2>1. SUFFICES ASSUME NEW a \in DOMAIN list' PROVE list'[a] # 0
    OBVIOUS
  <2>2. CASE a \in Added(rec, old)
    BY <1>9, <1>11, <2>2
  <2>3. CASE a \in Gone(rec, old) /\ a \notin Added(rec, old)
    <3>1. a \in DOMAIN list /\ list[a] \in Nat \ {0} /\ list[a] # 1
      BY <1>5, <1>6, <1>7, <1>8, <1>9, <2>3
    <3>2. QED  BY <1>9, <2>3, <3>1 DEF Count
  <2>4. CASE a \notin Gone(rec, old) /\ a \notin Added(rec, old)
    BY <1>6, <1>9, <2>4 DEF Count
  <2>5. QED  BY <2>2, <2>3, <2>4
<1>13. \A a : Holders(a)' = IF a \in N THEN Holders(a) \cup {d} ELSE Holders(a) \ {d}
  BY <1>2, <1>4 DEF Holders
<1>14. ASSUME NEW a \in Address
       PROVE  Count(a)' = IF a \in N \ DOMAIN old THEN Count(a) + 1
                          ELSE IF a \in DOMAIN old \ N THEN Count(a) - 1
                          ELSE Count(a)
  <2>1. CASE a \in N \ DOMAIN old
    BY <1>7, <1>8, <1>9, <2>1 DEF Count
  <2>2. CASE a \in DOMAIN old \ N
    <3>1. CASE list[a] = 1
      <4>1. a \in Lost(rec, old)
        BY <1>7, <1>8, <2>2, <3>1
      <4>2. Count(a)' = 0
        BY <1>9, <4>1 DEF Count
      <4>3. Count(a) = 1
        BY <1>5, <2>2, <3>1 DEF Count
      <4>4. QED  BY <2>2, <4>2, <4>3
    <3>2. CASE list[a] # 1
      <4>1. a \in DOMAIN list' /\ a \in Gone(rec, old) /\ a \notin Added(rec, old)
        BY <1>5, <1>7, <1>8, <1>9, <2>2, <3>2
      <4>2. QED  BY <1>9, <2>2, <4>1 DEF Count
    <3>3. QED  BY <3>1, <3>2
  <2>3. CASE a \notin N \ DOMAIN old /\ a \notin DOMAIN old \ N
    <3>1. a \notin Added(rec, old) /\ a \notin Gone(rec, old) /\ a \notin Lost(rec, old)
      BY <1>7, <1>8, <2>3
    <3>2. a \in DOMAIN list' <=> a \in DOMAIN list
      BY <1>9, <3>1
    <3>3. QED  BY <1>9, <2>3, <3>1, <3>2 DEF Count
  <2>4. QED  BY <2>1, <2>2, <2>3
<1>15. list' \in [DOMAIN list' -> Nat \ {0}] /\ RefCounts'
  BY <1>4, <1>9, <1>10, <1>12, <1>13, <1>14, CountsFollow
<1>16. QED  BY <1>4, <1>9, <1>10, <1>15

\* The clock takes no record away.
LEMMA TickCounts ==
    ASSUME TypeOK, RefCounts, Tick
    PROVE  /\ domains' \in [Known' -> Item] /\ Known' = Known
           /\ \A d \in Known : DOMAIN domains'[d].ext = DOMAIN domains[d].ext
           /\ RefCounts'
<1>1. Known' = Known /\ domains' = [d \in Known |-> domains'[d]]
  BY DEF Tick, Known
<1>2. ASSUME NEW d \in Known
      PROVE  /\ domains'[d] \in Item
             /\ DOMAIN domains'[d].ext = DOMAIN domains[d].ext
  <2>1. domains[d].ext \in Records /\ domains[d].expire \in TTL
    BY DEF TypeOK, Item
  <2>2. \A n \in Nat : Older(n) \in Nat /\ Older(n) <= n
    BY DEF Older
  <2>3. domains'[d].expire \in TTL
    BY <2>1, <2>2, StoreAssumption DEF Tick, TTL
  <2>4. /\ domains'[d].ext = [a \in DOMAIN domains[d].ext |-> Older(domains[d].ext[a])]
        /\ domains'[d] = [ext |-> domains'[d].ext, expire |-> domains'[d].expire]
    BY DEF Tick
  <2>5. \A a \in DOMAIN domains[d].ext : Older(domains[d].ext[a]) \in 0..RecordLife
    BY <2>1, <2>2, RecordsType, StoreAssumption
  <2>6. domains'[d].ext \in Records
    BY <2>1, <2>4, <2>5, RecordsType
  <2>7. QED  BY <2>3, <2>4, <2>6 DEF Item
<1>3. \A a : Holders(a)' = Holders(a)
  BY <1>1, <1>2 DEF Holders
<1>4. UNION {DOMAIN domains'[d].ext : d \in Known'}
        = UNION {DOMAIN domains[d].ext : d \in Known}
  BY <1>3 DEF Holders
<1>5. list' = list
  BY DEF Tick
<1>6. QED  BY <1>1, <1>2, <1>3, <1>4, <1>5 DEF RefCounts

-----------------------------------------------------------------------------
(* Every step preserves the invariant.                                     *)

\* In a typed state IPsList is the whole list: no counter is zero.
LEMMA IPsListIsDomain == TypeOK => IPsList = DOMAIN list
BY DEF TypeOK, IPsList

\* The addresses that lose their last holder are addresses.
LEMMA LastRefsType == ASSUME TypeOK, NEW ext PROVE LastRefs(ext) \subseteq Address
BY DEF TypeOK, LastRefs

LEMMA CreateInv == ASSUME IInv, NEW d \in Domain, Create(d) PROVE IInv'
<1>1. domains' \in [Known' -> Item] /\ Known' \subseteq Domain /\ RefCounts'
  BY EnterCounts DEF IInv, Create
<1>2. TypeOK'
  BY <1>1 DEF IInv, TypeOK, Create
<1>3. todo' = {}
  BY DEF IInv, CallState, Create
<1>4. AnnouncedMatches'
  BY <1>2, IPsListIsDomain DEF IInv, AnnouncedMatches, IPsList, Create
<1>5. MinimalMessage' /\ CallState'
  BY DEF IInv, MinimalMessage, CallState, IsEmpty, Create
<1>6. UpdateNeverHalfDone' /\ NewInBatch'
  BY <1>3 DEF UpdateNeverHalfDone, NewInBatch
<1>7. QED  BY <1>1, <1>2, <1>4, <1>5, <1>6 DEF IInv

\* What Delete and Update share: the message withdraws what leaves the list.
LEMMA ReleaseMessage ==
    ASSUME IInv, pc = "idle", NEW d \in Known,
           domains' = Restrict(domains, Known \ {d}),
           list' = Release(Ext(d)),
           msg' = [ToUpdate |-> {}, ToRemove |-> LastRefs(Ext(d))],
           UNCHANGED announced
    PROVE  /\ msg' \in Message /\ msg'.ToUpdate = {}
           /\ updateList(announced', msg') = DOMAIN list'
           /\ msg'.ToRemove \subseteq announced'
<1>1. /\ DOMAIN list' = DOMAIN list \ LastRefs(Ext(d))
      /\ LastRefs(Ext(d)) \subseteq DOMAIN list
  BY ReleaseCounts DEF IInv
<1>2. announced = DOMAIN list
  BY IPsListIsDomain DEF IInv, CallState, IsEmpty, AnnouncedMatches, updateList
<1>3. LastRefs(Ext(d)) \subseteq Address
  BY LastRefsType DEF IInv
<1>4. msg' \in Message
  BY <1>3 DEF Message
<1>5. updateList(announced', msg') = DOMAIN list'
  BY <1>1, <1>2 DEF updateList
<1>6. QED  BY <1>1, <1>2, <1>4, <1>5

LEMMA DeleteInv == ASSUME IInv, NEW d \in Domain, Delete(d) PROVE IInv'
<1>1. /\ domains' \in [Known' -> Item] /\ Known' \subseteq Domain
      /\ DOMAIN list' \subseteq Address
      /\ list' \in [DOMAIN list' -> Nat \ {0}]
      /\ RefCounts'
  BY ReleaseCounts DEF IInv, Delete
<1>2. /\ msg' \in Message /\ msg'.ToUpdate = {}
      /\ updateList(announced', msg') = DOMAIN list'
      /\ msg'.ToRemove \subseteq announced'
  BY ReleaseMessage DEF Delete, NoMessage
<1>3. todo' = {} /\ pc' \in {"idle", "broadcast"} /\ (pc' = "idle" => IsEmpty(msg)')
  BY DEF IInv, CallState, Delete, Finish, IsEmpty
<1>4. TypeOK'
  BY <1>1, <1>2, <1>3 DEF IInv, TypeOK, Delete
<1>5. AnnouncedMatches'
  BY <1>2, <1>4, IPsListIsDomain DEF AnnouncedMatches, IPsList, TypeOK
<1>6. MinimalMessage'
  BY <1>2 DEF MinimalMessage
<1>7. UpdateNeverHalfDone' /\ NewInBatch' /\ CallState'
  BY <1>3 DEF UpdateNeverHalfDone, NewInBatch, CallState
<1>8. QED  BY <1>1, <1>4, <1>5, <1>6, <1>7 DEF IInv

LEMMA UpdateDropInv ==
    ASSUME IInv, NEW old \in Domain, NEW new \in Domain, UpdateDrop(old, new)
    PROVE  IInv'
<1>1. /\ domains' \in [Known' -> Item] /\ Known' = Known \ {old}
      /\ Known' \subseteq Domain /\ DOMAIN list' \subseteq Address
      /\ list' \in [DOMAIN list' -> Nat \ {0}]
      /\ RefCounts'
  BY ReleaseCounts DEF IInv, UpdateDrop
<1>2. /\ msg' \in Message /\ msg'.ToUpdate = {}
      /\ updateList(announced', msg') = DOMAIN list'
      /\ msg'.ToRemove \subseteq announced'
  BY ReleaseMessage DEF UpdateDrop, NoMessage
<1>3. pc' = "update" /\ todo' = {new} /\ new \notin Known'
  BY <1>1 DEF UpdateDrop
<1>4. TypeOK'
  BY <1>1, <1>2, <1>3 DEF IInv, TypeOK, UpdateDrop
<1>5. AnnouncedMatches'
  BY <1>2, <1>4, IPsListIsDomain DEF AnnouncedMatches, IPsList, TypeOK
<1>6. MinimalMessage' /\ NewInBatch'
  BY <1>2 DEF MinimalMessage, NewInBatch
<1>7. UpdateNeverHalfDone' /\ CallState'
  BY <1>2, <1>3 DEF UpdateNeverHalfDone, CallState
<1>8. QED  BY <1>1, <1>4, <1>5, <1>6, <1>7 DEF IInv

LEMMA UpdateWriteInv == ASSUME IInv, UpdateWrite PROVE IInv'
<1>1. PICK new \in todo : /\ domains' = Put(new, NewItem)
                          /\ Finish(msg) /\ UNCHANGED msg
                          /\ new \notin Known
  BY DEF UpdateWrite, IInv, UpdateNeverHalfDone
<1>2. new \in Domain
  BY DEF IInv, TypeOK
<1>3. domains' \in [Known' -> Item] /\ Known' \subseteq Domain /\ RefCounts'
  BY <1>1, <1>2, EnterCounts DEF IInv, UpdateWrite
<1>4. todo' = {} /\ pc' \in {"idle", "broadcast"} /\ (pc' = "idle" => IsEmpty(msg)')
  BY <1>1 DEF UpdateWrite, Finish, IsEmpty
<1>5. TypeOK'
  BY <1>1, <1>3, <1>4 DEF IInv, TypeOK, UpdateWrite
<1>6. AnnouncedMatches' /\ MinimalMessage'
  BY <1>1 DEF IInv, AnnouncedMatches, MinimalMessage, IPsList, updateList, UpdateWrite
<1>7. UpdateNeverHalfDone' /\ NewInBatch' /\ CallState'
  BY <1>4 DEF UpdateNeverHalfDone, NewInBatch, CallState
<1>8. QED  BY <1>3, <1>5, <1>6, <1>7 DEF IInv

LEMMA PublishLockInv ==
    ASSUME IInv, NEW batch \in SUBSET Domain, PublishLock(batch) PROVE IInv'
<1>1. TypeOK' /\ RefCounts'
  BY DEF IInv, TypeOK, RefCounts, Holders, Known, PublishLock
<1>2. AnnouncedMatches' /\ MinimalMessage'
  BY DEF IInv, AnnouncedMatches, MinimalMessage, IPsList, updateList, PublishLock
<1>3. UpdateNeverHalfDone' /\ NewInBatch' /\ CallState'
  BY DEF IInv, UpdateNeverHalfDone, NewInBatch, CallState, IsEmpty, PublishLock
<1>4. QED  BY <1>1, <1>2, <1>3 DEF IInv

LEMMA PublishOneInv ==
    ASSUME IInv, NEW d \in todo, NEW rec \in Records, NEW ttl \in TTL,
           PublishOne(d, rec, ttl)
    PROVE  IInv'
<1> DEFINE add  == Added(rec, Ext(d))
           lost == Lost(rec, Ext(d))
<1>1. d \in Domain
  BY DEF IInv, TypeOK
<1>2. /\ domains' \in [Known' -> Item] /\ Known' = Known \cup {d}
      /\ Known' \subseteq Domain /\ DOMAIN list' \subseteq Address
      /\ list' \in [DOMAIN list' -> Nat \ {0}]
      /\ RefCounts'
      /\ DOMAIN list' = (DOMAIN list \cup add) \ lost
      /\ \A x \in Known \ {d} : domains'[x] = domains[x]
  BY <1>1, PublishCounts DEF IInv, PublishOne
<1>3. DOMAIN Ext(d) \subseteq DOMAIN list /\ DOMAIN list \subseteq Address
  BY ExtCounted DEF IInv, TypeOK
<1>4. lost \subseteq DOMAIN Ext(d) /\ add \subseteq Address
  BY RecordsType DEF Lost, Gone, Added, Fresh
<1>5. msg' = [ToUpdate |-> msg.ToUpdate \cup (add \ DOMAIN list),
              ToRemove |-> msg.ToRemove \cup lost]
  BY DEF PublishOne, Extend, Lost
<1>6. /\ pc = "publish" /\ pc' = "publish" /\ todo' = todo \ {d}
      /\ announced' = announced
  BY DEF PublishOne
<1>7. msg' \in Message
  BY <1>3, <1>4, <1>5 DEF IInv, TypeOK, Message
<1>8. TypeOK'
  BY <1>2, <1>6, <1>7 DEF IInv, TypeOK
<1>9. msg.ToUpdate \cap DOMAIN Ext(d) = {}
  BY DEF IInv, NewInBatch
<1>10. DOMAIN list = (announced \ msg.ToRemove) \cup msg.ToUpdate
  BY IPsListIsDomain DEF IInv, AnnouncedMatches, updateList
<1>11. AnnouncedMatches'
  <2>1. updateList(announced', msg') = DOMAIN list'
    BY <1>2, <1>3, <1>4, <1>5, <1>6, <1>9, <1>10 DEF updateList
  <2>2. QED  BY <1>8, <2>1, IPsListIsDomain DEF AnnouncedMatches, IPsList, TypeOK
<1>12. MinimalMessage'
  <2>1. msg.ToRemove \subseteq announced /\ (msg.ToUpdate \ msg.ToRemove) \cap announced = {}
    BY DEF IInv, MinimalMessage
  <2>2. msg'.ToRemove \subseteq announced
    BY <1>3, <1>4, <1>5, <1>9, <1>10, <2>1
  <2>3. (msg'.ToUpdate \ msg'.ToRemove) \cap announced = {}
    BY <1>5, <1>10, <2>1
  <2>4. QED  BY <1>6, <2>2, <2>3 DEF MinimalMessage
<1>13. NewInBatch'
  <2>1. SUFFICES ASSUME NEW x \in todo \ {d}
                 PROVE  msg'.ToUpdate \cap DOMAIN Ext(x)' = {}
    BY <1>6 DEF NewInBatch
  <2>2. Ext(x)' = Ext(x)
    BY <1>2 DEF Ext
  <2>3. DOMAIN Ext(x) \subseteq DOMAIN list /\ msg.ToUpdate \cap DOMAIN Ext(x) = {}
    BY ExtCounted DEF IInv, NewInBatch
  <2>4. QED  BY <1>5, <2>2, <2>3
<1>14. UpdateNeverHalfDone' /\ CallState'
  BY <1>6 DEF UpdateNeverHalfDone, CallState
<1>15. QED  BY <1>2, <1>8, <1>11, <1>12, <1>13, <1>14 DEF IInv

LEMMA PublishDoneInv == ASSUME IInv, PublishDone PROVE IInv'
<1>1. todo' = {} /\ pc' \in {"idle", "broadcast"} /\ (pc' = "idle" => IsEmpty(msg)')
  BY DEF PublishDone, Finish, IsEmpty
<1>2. TypeOK' /\ RefCounts'
  BY <1>1 DEF IInv, TypeOK, RefCounts, Holders, Known, PublishDone
<1>3. AnnouncedMatches' /\ MinimalMessage'
  BY DEF IInv, AnnouncedMatches, MinimalMessage, IPsList, updateList, PublishDone
<1>4. UpdateNeverHalfDone' /\ NewInBatch' /\ CallState'
  BY <1>1 DEF UpdateNeverHalfDone, NewInBatch, CallState
<1>5. QED  BY <1>2, <1>3, <1>4 DEF IInv

LEMMA BroadcastInv == ASSUME IInv, Broadcast PROVE IInv'
<1>1. /\ todo' = {} /\ pc' = "idle" /\ msg'.ToUpdate = {} /\ msg'.ToRemove = {}
      /\ msg' \in Message
  BY DEF IInv, CallState, Broadcast, NoMessage, Message
<1>2. announced' = IPsList /\ announced' \subseteq Address
  BY DEF IInv, TypeOK, IPsList, AnnouncedMatches, Broadcast
<1>3. TypeOK' /\ RefCounts'
  BY <1>1, <1>2 DEF IInv, TypeOK, RefCounts, Holders, Known, Broadcast
<1>4. AnnouncedMatches' /\ MinimalMessage'
  BY <1>1, <1>2 DEF AnnouncedMatches, MinimalMessage, IPsList, updateList, Broadcast
<1>5. UpdateNeverHalfDone' /\ NewInBatch' /\ CallState'
  BY <1>1 DEF UpdateNeverHalfDone, NewInBatch, CallState, IsEmpty
<1>6. QED  BY <1>3, <1>4, <1>5 DEF IInv

LEMMA TickInv == ASSUME IInv, Tick PROVE IInv'
<1>1. /\ domains' \in [Known' -> Item] /\ Known' = Known
      /\ \A d \in Known : DOMAIN domains'[d].ext = DOMAIN domains[d].ext
      /\ RefCounts'
  BY TickCounts DEF IInv
<1>2. UNCHANGED <<list, pc, todo, msg, announced>>
  BY DEF Tick
<1>3. TypeOK'
  BY <1>1, <1>2 DEF IInv, TypeOK
<1>4. \A d : DOMAIN Ext(d)' = DOMAIN Ext(d)
  BY <1>1 DEF Ext
<1>5. AnnouncedMatches' /\ MinimalMessage'
  BY <1>2 DEF IInv, AnnouncedMatches, MinimalMessage, IPsList, updateList
<1>6. UpdateNeverHalfDone' /\ NewInBatch' /\ CallState'
  BY <1>1, <1>2, <1>4 DEF IInv, UpdateNeverHalfDone, NewInBatch, CallState, IsEmpty
<1>7. QED  BY <1>1, <1>3, <1>5, <1>6 DEF IInv

LEMMA StepInv == IInv /\ [Next]_vars => IInv'
<1> SUFFICES ASSUME IInv, [Next]_vars PROVE IInv'
  OBVIOUS
<1>1. CASE \E d \in Domain : Create(d)
  BY <1>1, CreateInv
<1>2. CASE \E d \in Domain : Delete(d)
  BY <1>2, DeleteInv
<1>3. CASE \E old, new \in Domain : UpdateDrop(old, new)
  BY <1>3, UpdateDropInv
<1>4. CASE UpdateWrite
  BY <1>4, UpdateWriteInv
<1>5. CASE \E batch \in SUBSET Domain : PublishLock(batch)
  BY <1>5, PublishLockInv
<1>6. CASE \E d \in todo, rec \in Records, ttl \in TTL : PublishOne(d, rec, ttl)
  BY <1>6, PublishOneInv
<1>7. CASE PublishDone
  BY <1>7, PublishDoneInv
<1>8. CASE Broadcast
  BY <1>8, BroadcastInv
<1>9. CASE Tick
  BY <1>9, TickInv
<1>10. CASE UNCHANGED vars
  BY <1>10 DEF vars, IInv, TypeOK, RefCounts, Holders, Known, AnnouncedMatches,
               IPsList, updateList, MinimalMessage, UpdateNeverHalfDone,
               NewInBatch, Ext, CallState, IsEmpty
<1>11. QED
  BY <1>1, <1>2, <1>3, <1>4, <1>5, <1>6, <1>7, <1>8, <1>9, <1>10 DEF Next

LEMMA InitInv == Init => IInv
<1> SUFFICES ASSUME Init PROVE IInv
  OBVIOUS
<1>1. Known = Configured /\ \A d \in Known : domains[d] = NewItem
  BY DEF Init, Known
<1>2. /\ list = [a \in {} |-> 0] /\ DOMAIN list = {} /\ todo = {} /\ pc = "idle"
      /\ announced = {} /\ msg = NoMessage
      /\ msg \in Message /\ msg.ToUpdate = {} /\ msg.ToRemove = {}
  BY DEF Init, NoMessage, Message
<1>3. list \in [DOMAIN list -> Nat \ {0}]
  BY <1>2
<1>4. domains \in [Known -> Item]
  BY <1>1, NewItemType DEF Init
<1>5. TypeOK
  BY <1>1, <1>2, <1>3, <1>4, StoreAssumption DEF TypeOK
<1>6. RefCounts
  BY <1>1, <1>2, NewItemType DEF RefCounts, NewItem
<1>7. AnnouncedMatches /\ MinimalMessage
  BY <1>2 DEF AnnouncedMatches, MinimalMessage, IPsList, updateList
<1>8. UpdateNeverHalfDone /\ NewInBatch /\ CallState
  BY <1>2 DEF UpdateNeverHalfDone, NewInBatch, CallState, IsEmpty
<1>9. QED  BY <1>5, <1>6, <1>7, <1>8 DEF IInv

-----------------------------------------------------------------------------
(* The theorems.                                                           *)

\* The inductive invariant holds in every reachable state.
THEOREM Invariance == Spec => []IInv
<1>1. Init => IInv
  BY InitInv
<1>2. IInv /\ [Next]_vars => IInv'
  BY StepInv
<1>3. QED  BY <1>1, <1>2, PTL DEF Spec

\* The state has its type: in particular no counter of ipItems.list is ever
\* zero or negative, whatever Delete and Update decrement.
THEOREM TypeCorrect == Spec => []TypeOK
<1>1. IInv => TypeOK
  BY DEF IInv
<1>2. QED  BY <1>1, Invariance, PTL

\* The counter of an address is the number of domains that hold it.
THEOREM CountersExact == Spec => []RefCounts
<1>1. IInv => RefCounts
  BY DEF IInv
<1>2. QED  BY <1>1, Invariance, PTL

\* The messages handed to Broadcast, with the one a call is building, add up
\* to IPsList.
THEOREM MessagesAddUp == Spec => []AnnouncedMatches
<1>1. IInv => AnnouncedMatches
  BY DEF IInv
<1>2. QED  BY <1>1, Invariance, PTL

\* Messages are exact deltas.
THEOREM MessagesMinimal == Spec => []MinimalMessage
<1>1. IInv => MinimalMessage
  BY DEF IInv
<1>2. QED  BY <1>1, Invariance, PTL

\* Update's second Compute always finds its name free.
THEOREM UpdateCompletes == Spec => []UpdateNeverHalfDone
<1>1. IInv => UpdateNeverHalfDone
  BY DEF IInv
<1>2. QED  BY <1>1, Invariance, PTL

\* A batch never withdraws an address that it has announced for another of
\* its domains.
THEOREM BatchKeepsNews == Spec => []NewInBatch
<1>1. IInv => NewInBatch
  BY DEF IInv
<1>2. QED  BY <1>1, Invariance, PTL

-----------------------------------------------------------------------------
(* Store implements RouteTable.                                            *)

\* The list is what the domains hold together.
LEMMA WantedIsList == IInv => Table!Wanted(Held) = DOMAIN list
BY DEF IInv, RefCounts, Held, Table!Wanted

\* Between two calls everything that is held is announced, and nothing else.
LEMMA QuietAnnounced == IInv /\ pc = "idle" => announced = Table!Wanted(Held)
BY WantedIsList, IPsListIsDomain
   DEF IInv, AnnouncedMatches, CallState, IsEmpty, updateList

\* Writing one domain, and removing one, as RouteTable sees it.
LEMMA HeldPut ==
    ASSUME NEW d, NEW item, domains' = Put(d, item)
    PROVE  Held' = Table!Holding(Held, d, DOMAIN item.ext)
BY DEF Put, Known, Held, Table!Holding

LEMMA HeldDrop ==
    ASSUME NEW d, domains' = Restrict(domains, Known \ {d})
    PROVE  Held' = Table!Without(Held, d)
BY DEF Restrict, Known, Held, Table!Without

\* A step that writes or removes one domain is a Change, if it announces
\* nothing and leaves nothing to announce when it ends its call.
LEMMA ChangeMaps ==
    ASSUME IInv', UNCHANGED announced, NEW d \in Domain,
           \/ Held' = Table!Without(Held, d)
           \/ \E S \in SUBSET Address : Held' = Table!Holding(Held, d, S)
    PROVE  Table!Change(d)
<1>1. (IInv /\ pc = "idle" => announced = Table!Wanted(Held))'
  BY QuietAnnounced, PTL
<1>2. (pc # "idle")' \/ announced = Table!Wanted(Held')
  BY <1>1 DEF Table!Wanted
<1>3. (pc # "idle")' \in BOOLEAN
  OBVIOUS
<1>4. QED  BY <1>2, <1>3 DEF Table!Change

LEMMA InitMaps == Init => Table!Init
<1> SUFFICES ASSUME Init PROVE Table!Init
  OBVIOUS
<1>1. Held = [d \in Configured |-> {}]
  BY NewItemType DEF Init, Held, Known, NewItem
<1>2. QED  BY <1>1 DEF Init, Table!Init

LEMMA StepMaps == IInv /\ IInv' /\ [Next]_vars => [Table!Next]_(Table!vars)
<1> SUFFICES ASSUME IInv, IInv', [Next]_vars PROVE [Table!Next]_(Table!vars)
  OBVIOUS
<1>1. ASSUME NEW d \in Domain, Create(d) PROVE Table!Change(d)
  <2>1. Held' = Table!Holding(Held, d, {})
    BY <1>1, HeldPut, NewItemType DEF Create, NewItem
  <2>2. QED  BY <1>1, <2>1, ChangeMaps DEF Create
<1>2. ASSUME NEW d \in Domain, Delete(d) PROVE Table!Change(d)
  BY <1>2, HeldDrop, ChangeMaps DEF Delete
<1>3. ASSUME NEW old \in Domain, NEW new \in Domain, UpdateDrop(old, new)
      PROVE  Table!Change(old)
  BY <1>3, HeldDrop, ChangeMaps DEF UpdateDrop
<1>4. ASSUME UpdateWrite PROVE \E d \in Domain : Table!Change(d)
  <2>1. PICK new \in todo : domains' = Put(new, NewItem) /\ new \in Domain
    BY <1>4 DEF UpdateWrite, IInv, UpdateNeverHalfDone, TypeOK
  <2>2. Held' = Table!Holding(Held, new, {})
    BY <2>1, HeldPut, NewItemType DEF NewItem
  <2>3. QED  BY <1>4, <2>1, <2>2, ChangeMaps DEF UpdateWrite
<1>5. ASSUME NEW batch \in SUBSET Domain, PublishLock(batch) PROVE Table!Begin
  BY <1>5 DEF PublishLock, Table!Begin, Held, Known
<1>6. ASSUME NEW d \in todo, NEW rec \in Records, NEW ttl \in TTL,
             PublishOne(d, rec, ttl)
      PROVE  d \in Domain /\ Table!Change(d)
  <2>1. Held' = Table!Holding(Held, d, DOMAIN Renew(rec, Ext(d)))
    BY <1>6, HeldPut DEF PublishOne
  <2>2. DOMAIN Renew(rec, Ext(d)) \in SUBSET Address
    BY ExtType, RenewType, RecordsType DEF IInv
  <2>3. d \in Domain
    BY DEF IInv, TypeOK
  <2>4. QED  BY <1>6, <2>1, <2>2, <2>3, ChangeMaps DEF PublishOne
<1>7. ASSUME PublishDone PROVE Table!Release \/ UNCHANGED Table!vars
  <2>1. Held' = Held /\ announced' = announced
    BY <1>7 DEF PublishDone, Held, Known
  <2>2. CASE pc' = "idle"
    <3>1. announced = DOMAIN list
      BY <1>7, <2>2, IPsListIsDomain
         DEF PublishDone, Finish, IsEmpty, IInv, AnnouncedMatches, updateList
    <3>2. QED
      BY <1>7, <2>1, <2>2, <3>1, WantedIsList DEF PublishDone, Table!Release
  <2>3. CASE pc' # "idle"
    BY <1>7, <2>1, <2>3 DEF PublishDone, Table!vars
  <2>4. QED  BY <2>2, <2>3
<1>8. ASSUME Broadcast PROVE Table!Release
  <2>1. Held' = Held
    BY <1>8 DEF Broadcast, Held, Known
  <2>2. announced' = DOMAIN list
    BY <1>8, IPsListIsDomain DEF Broadcast, IInv, AnnouncedMatches
  <2>3. QED  BY <1>8, <2>1, <2>2, WantedIsList DEF Broadcast, Table!Release
<1>9. ASSUME Tick PROVE UNCHANGED Table!vars
  <2>1. Held' = Held
    BY <1>9, TickCounts DEF IInv, Held
  <2>2. QED  BY <1>9, <2>1 DEF Tick, Table!vars
<1>10. ASSUME UNCHANGED vars PROVE UNCHANGED Table!vars
  BY <1>10 DEF vars, Table!vars, Held, Known
<1>11. QED
  BY <1>1, <1>2, <1>3, <1>4, <1>5, <1>6, <1>7, <1>8, <1>9, <1>10 DEF Next, Table!Next

\* Reference counts and delta messages implement the abstract table: what is
\* announced between two calls is the union of what the domains hold.
THEOREM StoreImplementsTable == Spec => TableSpec
<1>1. Init => Table!Init
  BY InitMaps
<1>2. IInv /\ IInv' /\ [Next]_vars => [Table!Next]_(Table!vars)
  BY StepMaps
<1>3. QED  BY <1>1, <1>2, Invariance, PTL DEF Spec, TableSpec, Table!Spec
=============================================================================
