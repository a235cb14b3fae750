------------------------ MODULE HouseholdFeed_proofs ------------------------
(***************************************************************************)
(* Proofs about the scoped memory, for any members, persons, ids and       *)
(* clock: no query crosses from one member's rows to another's, a shared   *)
(* copy has its paper trail, and a row with a scope is final.              *)
(***************************************************************************)
EXTENDS HouseholdFeed, FiniteSetTheorems, SequenceTheorems, TLAPS

\* The text of a row belongs to the scope the row is in, and the rows without
\* a scope are the ones that are older than scopes.
TalkOwnsScope ==
    \A id \in Ids : Stored(id) =>
      \/ rows[id] = LegacyRow
      \/ rows[id].scope = SHARED_SCOPE
      \/ /\ rows[id].talk \in Members
         /\ rows[id].scope \in {private_scope(rows[id].talk), experiential_scope(rows[id].talk)}

\* What a promotion has read is still there, private, and asked for.
ReadIsCurrent ==
    \A q \in promoting :
      /\ Stored(q.id) /\ rows[q.id].scope = private_scope(q.member)
      /\ <<q.person, q.id>> \in consents

\* The pages go through exactly the rows there are.
OrderIsStore ==
    /\ \A i \in 1..Len(order) : Stored(order[i])
    /\ \A id \in Ids : Stored(id) => \E i \in 1..Len(order) : order[i] = id

\* A page's plan still names rows without a scope, and while a migration runs
\* every such row is in its plan or on a page to come, among those it counted.
PlanIsCurrent == \A id \in plan : Stored(id) /\ rows[id].scope = None

Ahead(i) == offset < i /\ i <= total

MigrationCovers ==
    /\ total <= Len(order) /\ offset <= Len(order)
    /\ total = 0 => offset = 0 /\ plan = {}
    /\ total # 0 => \A i \in 1..Len(order) :
                      rows[order[i]].scope = None => order[i] \in plan \/ Ahead(i)

MemoryInv ==
    /\ MemoryTypeOK /\ TalkOwnsScope /\ ReadIsCurrent /\ OrderIsStore /\ PlanIsCurrent
    /\ MigrationCovers /\ NoUnscopedAfterMigration /\ PaperTrail

-----------------------------------------------------------------------------
LEMMA ScopesAreNotNone ==
    /\ None \notin Row /\ SHARED_SCOPE \in Scopes /\ SHARED_SCOPE # None
    /\ \A m \in Members : /\ private_scope(m) \in Scopes /\ experiential_scope(m) \in Scopes
                          /\ private_scope(m) # None /\ experiential_scope(m) # None
                          /\ readable_scopes(m) \subseteq Scopes
<1>1. SHARED_SCOPE \in Scopes
  BY DEF Scopes
<1>2. \A m \in Members : private_scope(m) \in Scopes /\ experiential_scope(m) \in Scopes
  BY DEF Scopes, private_scope, experiential_scope
<1>3. QED  BY <1>1, <1>2, NoneIsNoRow DEF readable_scopes

LEMMA PrivateIsOnes ==
    \A m, n \in Members : /\ private_scope(m) # SHARED_SCOPE /\ experiential_scope(m) # SHARED_SCOPE
                          /\ private_scope(m) # experiential_scope(n)
                          /\ private_scope(m) = private_scope(n) => m = n
                          /\ experiential_scope(m) = experiential_scope(n) => m = n
  BY DEF private_scope, experiential_scope, SHARED_SCOPE

\* collection.add, row by row, and the place the row gets.
LEMMA AddedRow ==
    ASSUME MemoryTypeOK, NEW id \in Ids, NEW row \in Row, Add(id, row)
    PROVE  /\ rows' \in [Ids -> Row \cup {None}]
           /\ \A o \in Ids : rows'[o] = IF o = id /\ rows[id] = None THEN row ELSE rows[o]
           /\ order' \in Seq(Ids) /\ Len(order) \in Nat
           /\ Len(order') = Len(order) + (IF rows[id] = None THEN 1 ELSE 0)
           /\ \A i \in 1..Len(order) : order'[i] = order[i] /\ order[i] \in Ids
           /\ rows[id] = None => order'[Len(order) + 1] = id
<1>1. order \in Seq(Ids) /\ rows \in [Ids -> Row \cup {None}]
  BY DEF MemoryTypeOK
<1>2. CASE rows[id] = None
  <2>1. rows' = [rows EXCEPT ![id] = row] /\ order' = Append(order, id)
    BY <1>2 DEF Add, Stored
  <2>2. QED  BY <1>1, <1>2, <2>1
<1>3. CASE rows[id] # None
  <2>1. rows' = rows /\ order' = order
    BY <1>3 DEF Add, Stored
  <2>2. QED  BY <1>1, <1>3, <2>1
<1>4. QED  BY <1>2, <1>3

\* A row that is added has a scope, so everything the invariant says of the
\* others still holds; what it says of this one is for each writer to show.
LEMMA AddKeeps ==
    ASSUME MemoryInv, NEW id \in Ids, NEW row \in Row, Add(id, row),
           row.scope \in Scopes,
           row.scope # SHARED_SCOPE => /\ row.talk \in Members
                                       /\ row.scope \in {private_scope(row.talk), experiential_scope(row.talk)},
           UNCHANGED migrationVars, consents' = consents,
           promoting' \subseteq promoting,
           \A src \in Base : id = promoted_id(src) =>
             /\ row.origin = "promotion" /\ row.from = src /\ Stored(src)
             /\ rows[src].scope = private_scope(rows[src].talk)
             /\ rows[src].talk = row.talk /\ rows[src].ts = row.ts
             /\ <<row.by, src>> \in consents
    PROVE  MemoryInv'
<1> USE DEF MemoryInv
<1>0. /\ None \notin Row /\ row.scope # None
      /\ total' = total /\ offset' = offset /\ plan' = plan /\ migrated' = migrated
  BY ScopesAreNotNone, NoneIsNoRow DEF migrationVars
<1>1. /\ rows' \in [Ids -> Row \cup {None}]
      /\ \A o \in Ids : rows'[o] = IF o = id /\ rows[id] = None THEN row ELSE rows[o]
      /\ order' \in Seq(Ids) /\ Len(order) \in Nat
      /\ Len(order') = Len(order) + (IF rows[id] = None THEN 1 ELSE 0)
      /\ \A i \in 1..Len(order) : order'[i] = order[i] /\ order[i] \in Ids
      /\ rows[id] = None => order'[Len(order) + 1] = id
  BY AddedRow
<1>2. MemoryTypeOK'
  BY <1>0, <1>1 DEF MemoryTypeOK
<1>3. TalkOwnsScope'
  BY <1>0, <1>1 DEF TalkOwnsScope, Stored
<1>4. ReadIsCurrent'
  <2>1. \A q \in promoting : q.id \in Ids
    BY DEF MemoryTypeOK, Ids
  <2>2. QED  BY <1>0, <1>1, <2>1 DEF ReadIsCurrent, Stored
<1>5. PlanIsCurrent'
  BY <1>0, <1>1 DEF PlanIsCurrent, Stored, MemoryTypeOK
<1>6. \A i \in 1..Len(order') :
        \/ i \in 1..Len(order) /\ order'[i] = order[i] /\ rows'[order'[i]] = rows[order[i]]
                             /\ Stored(order[i])
        \/ rows[id] = None /\ order'[i] = id /\ rows'[id] = row
  <2> SUFFICES ASSUME NEW i \in 1..Len(order')
               PROVE  \/ /\ i \in 1..Len(order) /\ order'[i] = order[i]
                         /\ rows'[order'[i]] = rows[order[i]] /\ Stored(order[i])
                      \/ rows[id] = None /\ order'[i] = id /\ rows'[id] = row
    OBVIOUS
  <2>1. CASE i \in 1..Len(order)
    <3>1. order'[i] = order[i] /\ order[i] \in Ids /\ Stored(order[i])
      BY <1>1, <2>1 DEF OrderIsStore
    <3>2. QED  BY <1>1, <2>1, <3>1 DEF Stored
  <2>2. CASE i \notin 1..Len(order)
    <3>1. rows[id] = None /\ i = Len(order) + 1
      BY <1>1, <2>2
    <3>2. QED  BY <1>1, <3>1
  <2>3. QED  BY <2>1, <2>2
<1>7. OrderIsStore'
  <2>1. \A i \in 1..Len(order') : rows'[order'[i]] # None
    BY <1>0, <1>6 DEF Stored
  <2>2. ASSUME NEW o \in Ids, rows'[o] # None PROVE \E i \in 1..Len(order') : order'[i] = o
    <3>1. CASE o = id /\ rows[id] = None
      <4>1. Len(order) + 1 \in 1..Len(order')
        BY <1>1, <3>1
      <4>2. QED  BY <1>1, <3>1, <4>1
    <3>2. CASE ~(o = id /\ rows[id] = None)
      <4>1. rows[o] # None
        BY <1>1, <2>2, <3>2
      <4>2. PICK i \in 1..Len(order) : order[i] = o
        BY <4>1 DEF OrderIsStore, Stored
      <4>3. i \in 1..Len(order') /\ order'[i] = o
        BY <1>1, <4>2
      <4>4. QED  BY <4>3
    <3>3. QED  BY <3>1, <3>2
  <2>3. QED  BY <2>1, <2>2 DEF OrderIsStore, Stored
<1>8. MigrationCovers'
  <2>1. total' <= Len(order') /\ offset' <= Len(order')
    BY <1>0, <1>1 DEF MigrationCovers, MemoryTypeOK
  <2>2. ASSUME total' # 0, NEW i \in 1..Len(order'), rows'[order'[i]].scope = None
        PROVE  order'[i] \in plan' \/ Ahead(i)
    <3>1. i \in 1..Len(order) /\ order'[i] = order[i] /\ rows[order[i]].scope = None
      BY <1>0, <1>6, <2>2
    <3>2. QED  BY <1>0, <2>2, <3>1 DEF MigrationCovers
  <2>3. QED  BY <1>0, <2>1, <2>2 DEF MigrationCovers, Ahead
<1>9. NoUnscopedAfterMigration'
  BY <1>0, <1>1 DEF NoUnscopedAfterMigration, Stored
<1>10. PaperTrail'
  <2> SUFFICES ASSUME NEW src \in Base, rows'[promoted_id(src)] # None
               PROVE  /\ rows'[promoted_id(src)].origin = "promotion"
                      /\ rows'[promoted_id(src)].from = src
                      /\ rows'[src] # None
                      /\ rows'[src].scope = private_scope(rows'[src].talk)
                      /\ rows'[src].talk = rows'[promoted_id(src)].talk
                      /\ rows'[src].ts = rows'[promoted_id(src)].ts
                      /\ <<rows'[promoted_id(src)].by, src>> \in consents'
    BY DEF PaperTrail, Stored
  <2>0. src \in Ids /\ promoted_id(src) \in Ids
    BY DEF Ids
  <2>1. CASE promoted_id(src) = id /\ rows[id] = None
    <3>1. rows'[promoted_id(src)] = row
      BY <1>1, <2>0, <2>1
    <3>2. /\ row.origin = "promotion" /\ row.from = src /\ rows[src] # None
          /\ rows[src].scope = private_scope(rows[src].talk)
          /\ rows[src].talk = row.talk /\ rows[src].ts = row.ts
          /\ <<row.by, src>> \in consents
      BY <2>1 DEF Stored
    <3>3. rows'[src] = rows[src]
      BY <1>1, <2>0, <2>1, <3>2
    <3>4. QED  BY <3>1, <3>2, <3>3
  <2>2. CASE ~(promoted_id(src) = id /\ rows[id] = None)
    <3>1. rows'[promoted_id(src)] = rows[promoted_id(src)] /\ rows[promoted_id(src)] # None
      BY <1>1, <2>0, <2>2
    <3>2. /\ rows[promoted_id(src)].origin = "promotion" /\ rows[promoted_id(src)].from = src
          /\ rows[src] # None /\ rows[src].scope = private_scope(rows[src].talk)
          /\ rows[src].talk = rows[promoted_id(src)].talk
          /\ rows[src].ts = rows[promoted_id(src)].ts
          /\ <<rows[promoted_id(src)].by, src>> \in consents
      BY <3>1 DEF PaperTrail, Stored
    <3>3. rows'[src] = rows[src]
      BY <1>1, <2>0, <3>2
    <3>4. QED  BY <3>1, <3>2, <3>3
  <2>3. QED  BY <2>1, <2>2
<1>11. QED  BY <1>2, <1>3, <1>4, <1>5, <1>7, <1>8, <1>9, <1>10

-----------------------------------------------------------------------------
LEMMA InitMemory == MemoryInit => MemoryInv
<1> SUFFICES ASSUME MemoryInit PROVE MemoryInv
  OBVIOUS
<1>1. LegacyRow \in Row /\ LegacyRow # None
  <2>1. LegacyRow \in Row
    BY ScopesAssumption DEF LegacyRow, Row, ORIGINS
  <2>2. QED  BY <2>1, NoneIsNoRow
<1>2. /\ rows \in [Ids -> Row \cup {None}]
      /\ \A id \in Ids : rows[id] = IF id \in Range(order) THEN LegacyRow ELSE None
  BY <1>1 DEF MemoryInit
<1>3. /\ order \in Seq(Ids) /\ Len(order) \in Nat
      /\ \A i \in 1..Len(order) : order[i] \in Legacy
      /\ Range(order) = {order[i] : i \in 1..Len(order)}
  <2>1. Legacy \subseteq Ids /\ Cardinality(Legacy) \in Nat
    <3>1. Legacy \subseteq Ids
      BY DEF Ids, Base
    <3>2. IsFiniteSet(Legacy)
      BY <3>1, StoreIsFinite, FS_Subset
    <3>3. QED  BY <3>1, <3>2, FS_CardinalityType
  <2>2. PICK n \in 0..Cardinality(Legacy) : order \in [1..n -> Legacy]
    BY DEF MemoryInit
  <2>3. n \in Nat /\ order \in [1..n -> Ids]
    BY <2>1, <2>2
  <2>4. order \in Seq(Ids)
    BY <2>3, SeqDef
  <2>5. Len(order) = n /\ DOMAIN order = 1..Len(order)
    BY <2>3, <2>4
  <2>6. Range(order) = {order[i] : i \in 1..Len(order)}
    BY <2>5 DEF Range
  <2>7. QED  BY <2>2, <2>3, <2>4, <2>5, <2>6
<1>4. MemoryTypeOK
  <2>1. consents = {} /\ promoting = {} /\ total = 0 /\ offset = 0 /\ plan = {}
    BY DEF MemoryInit
  <2>2. migrated \in BOOLEAN
    BY Zenon DEF MemoryInit
  <2>3. QED  BY <1>2, <1>3, <2>1, <2>2 DEF MemoryTypeOK
<1>5. OrderIsStore
  <2>1. \A i \in 1..Len(order) : order[i] \in Ids /\ order[i] \in Range(order)
    BY <1>3 DEF Ids, Base
  <2>2. \A id \in Ids : Stored(id) => id \in Range(order)
    BY <1>2 DEF Stored
  <2>3. QED  BY <1>1, <1>2, <1>3, <2>1, <2>2 DEF OrderIsStore, Stored
<1>6. TalkOwnsScope
  BY <1>2 DEF TalkOwnsScope, Stored
<1>7. PaperTrail
  <2>1. \A id \in Base : promoted_id(id) \in Ids /\ promoted_id(id) \notin Base
    BY PromotedIdsAreNew DEF Ids
  <2>2. \A id \in Base : promoted_id(id) \notin Range(order)
    BY <1>3, <2>1 DEF Base
  <2>3. \A id \in Base : ~Stored(promoted_id(id))
    BY <1>2, <2>1, <2>2 DEF Stored
  <2>4. QED  BY <2>3 DEF PaperTrail
<1>8. ReadIsCurrent /\ PlanIsCurrent /\ MigrationCovers /\ NoUnscopedAfterMigration
  <2>1. total = 0 /\ offset = 0 /\ plan = {} /\ promoting = {} /\ migrated = FALSE
    BY DEF MemoryInit
  <2>2. QED  BY <1>3, <2>1 DEF ReadIsCurrent, PlanIsCurrent, MigrationCovers, NoUnscopedAfterMigration
<1>9. QED  BY <1>4, <1>5, <1>6, <1>7, <1>8 DEF MemoryInv

LEMMA WriteStep ==
    ASSUME MemoryInv, NEW ts \in Nat, NEW id \in Turns, NEW m \in Members, NEW scope \in Scopes,
           NEW origin, MemoryWrite(id, m, scope, origin, ts)
    PROVE  MemoryInv'
<1> DEFINE row == [scope |-> scope, origin |-> origin, talk |-> m,
                   by |-> None, from |-> None, ts |-> ts]
<1>1. row \in Row /\ id \in Ids
  BY DEF MemoryWrite, Row, Ids, Base
<1>2. scope = SHARED_SCOPE \/ scope \in {private_scope(m), experiential_scope(m)}
  BY DEF MemoryWrite, readable_scopes
<1>3. /\ row.scope = scope /\ row.talk = m
      /\ Add(id, row) /\ UNCHANGED <<consents, promoting, migrationVars>>
  BY DEF MemoryWrite
<1>4. \A src \in Base : id # promoted_id(src)
  BY PromotedIdsAreNew DEF Base
<1> HIDE DEF row
<1>5. QED  BY <1>1, <1>2, <1>3, <1>4, AddKeeps

LEMMA EventStep ==
    ASSUME MemoryInv, NEW ts \in Nat, NEW id \in Events, MemoryEvent(id, ts)
    PROVE  MemoryInv'
<1> DEFINE row == [scope |-> SHARED_SCOPE, origin |-> "sensor", talk |-> None,
                   by |-> None, from |-> None, ts |-> ts]
<1>1. row \in Row /\ id \in Ids /\ SHARED_SCOPE \in Scopes
  BY ScopesAreNotNone DEF Row, ORIGINS, Ids, Base
<1>2. /\ row.scope = SHARED_SCOPE
      /\ Add(id, row) /\ UNCHANGED <<consents, promoting, migrationVars>>
  BY DEF MemoryEvent
<1>3. \A src \in Base : id # promoted_id(src)
  BY PromotedIdsAreNew DEF Base
<1> HIDE DEF row
<1>4. QED  BY <1>1, <1>2, <1>3, AddKeeps

LEMMA PromoteReadStep ==
    ASSUME MemoryInv, NEW p \in Persons, NEW m \in Members, NEW id \in Base, PromoteRead(p, m, id)
    PROVE  MemoryInv'
<1> USE DEF MemoryInv
<1>1. /\ consents \subseteq consents' /\ <<p, id>> \in consents'
      /\ promoting' = promoting \cup {[person |-> p, member |-> m, id |-> id]}
      /\ rows' = rows /\ order' = order /\ total' = total /\ offset' = offset
      /\ plan' = plan /\ migrated' = migrated
      /\ Stored(id) /\ rows[id].scope = private_scope(m)
  BY DEF PromoteRead, migrationVars
<1>2. MemoryTypeOK'
  <2>1. consents' \subseteq Persons \X Base
    BY DEF PromoteRead, MemoryTypeOK
  <2>2. [person |-> p, member |-> m, id |-> id] \in [person : Persons, member : Members, id : Base]
    OBVIOUS
  <2>3. promoting' \subseteq [person : Persons, member : Members, id : Base]
    BY <1>1, <2>2 DEF MemoryTypeOK
  <2>4. QED  BY <1>1, <2>1, <2>3 DEF MemoryTypeOK
<1>3. ReadIsCurrent'
  <2>1. ASSUME NEW q \in promoting'
        PROVE  /\ rows'[q.id] # None /\ rows'[q.id].scope = private_scope(q.member)
               /\ <<q.person, q.id>> \in consents'
    <3>1. CASE q \in promoting
      <4>1. /\ rows[q.id] # None /\ rows[q.id].scope = private_scope(q.member)
            /\ <<q.person, q.id>> \in consents
        BY <3>1 DEF ReadIsCurrent, Stored
      <4>2. QED  BY <1>1, <4>1
    <3>2. CASE q = [person |-> p, member |-> m, id |-> id]
      <4>1. q.person = p /\ q.member = m /\ q.id = id
        BY <3>2
      <4>2. QED  BY <1>1, <4>1 DEF Stored
    <3>3. QED  BY <1>1, <2>1, <3>1, <3>2
  <2>2. QED  BY <2>1 DEF ReadIsCurrent, Stored
<1>4. PaperTrail' /\ TalkOwnsScope' /\ PlanIsCurrent' /\ NoUnscopedAfterMigration'
  BY <1>1 DEF PaperTrail, TalkOwnsScope, PlanIsCurrent, NoUnscopedAfterMigration, Stored
<1>5. OrderIsStore' /\ MigrationCovers'
  BY <1>1 DEF OrderIsStore, MigrationCovers, Ahead, Stored
<1>6. QED  BY <1>2, <1>3, <1>4, <1>5

LEMMA PromoteAddStep ==
    ASSUME MemoryInv, NEW q \in promoting, PromoteAdd(q)
    PROVE  MemoryInv'
<1> USE DEF MemoryInv
<1> DEFINE source == rows[q.id]
           row == [source EXCEPT !.scope = SHARED_SCOPE, !.origin = "promotion",
                                 !.by = q.person, !.from = q.id]
<1>1. q.person \in Persons /\ q.member \in Members /\ q.id \in Base /\ q.id \in Ids
  BY DEF MemoryTypeOK, Ids
<1>2. /\ Stored(q.id) /\ source.scope = private_scope(q.member)
      /\ <<q.person, q.id>> \in consents
  BY DEF ReadIsCurrent
<1>3. source \in Row
  BY <1>1, <1>2 DEF MemoryTypeOK, Stored
<1>4. promoted_id(q.id) \in Ids
  BY <1>1 DEF Ids
<1>5. /\ row \in Row /\ row.scope = SHARED_SCOPE /\ row.origin = "promotion"
      /\ row.by = q.person /\ row.from = q.id /\ row.talk = source.talk /\ row.ts = source.ts
  BY <1>1, <1>3, ScopesAreNotNone DEF Row, ORIGINS
<1>6. source.scope = private_scope(source.talk)
  <2>1. source.scope # None /\ source.scope # SHARED_SCOPE
    BY <1>1, <1>2, ScopesAreNotNone, PrivateIsOnes
  <2>2. /\ source.talk \in Members
        /\ source.scope \in {private_scope(source.talk), experiential_scope(source.talk)}
    BY <1>1, <1>2, <2>1 DEF TalkOwnsScope, LegacyRow
  <2>3. QED  BY <1>1, <1>2, <2>2, PrivateIsOnes
<1>7. /\ Add(promoted_id(q.id), row) /\ promoting' \subseteq promoting
      /\ UNCHANGED <<consents, migrationVars>>
  BY DEF PromoteAdd
<1>8. \A src \in Base : promoted_id(q.id) = promoted_id(src) =>
        src = q.id /\ rows[src] = source
  BY DEF promoted_id
<1> HIDE DEF row, source
<1>9. \A src \in Base : promoted_id(q.id) = promoted_id(src) =>
        /\ row.origin = "promotion" /\ row.from = src /\ Stored(src)
        /\ rows[src].scope = private_scope(rows[src].talk)
        /\ rows[src].talk = row.talk /\ rows[src].ts = row.ts
        /\ <<row.by, src>> \in consents
  BY <1>2, <1>5, <1>6, <1>8
<1>10. row.scope \in Scopes
  BY <1>5, ScopesAreNotNone
<1>11. QED  BY <1>4, <1>5, <1>7, <1>9, <1>10, AddKeeps

-----------------------------------------------------------------------------
\* The steps of a migration that write no row, and the crashes.
LEMMA PagingStep ==
    ASSUME MemoryInv,
           MigrateStart \/ MigratePage \/ MigrateEnd \/ EmbedderCrash \/ MigrationCrash
    PROVE  MemoryInv'
<1> USE DEF MemoryInv
<1>1. /\ rows' = rows /\ order' = order /\ consents' = consents /\ promoting' \subseteq promoting
  BY DEF MigrateStart, MigratePage, MigrateEnd, EmbedderCrash, MigrationCrash, migrationVars
<1>2. /\ order \in Seq(Ids) /\ Len(order) \in Nat /\ total \in Nat /\ offset \in Nat
      /\ Batch \in Nat \ {0} /\ DOMAIN order = 1..Len(order)
      /\ \A i \in 1..Len(order) : order[i] \in Ids /\ Stored(order[i])
      /\ rows \in [Ids -> Row \cup {None}]
  BY ScopesAssumption DEF MemoryTypeOK, OrderIsStore
<1>3. TalkOwnsScope' /\ ReadIsCurrent' /\ OrderIsStore' /\ PaperTrail'
  BY <1>1 DEF TalkOwnsScope, ReadIsCurrent, OrderIsStore, PaperTrail, Stored
<1>4. ASSUME total' \in Nat, offset' \in Nat, plan' \subseteq Ids, migrated' \in BOOLEAN
      PROVE  MemoryTypeOK'
  BY <1>1, <1>4 DEF MemoryTypeOK
<1>5. CASE MigrateStart
  <2>1. total' = Len(order) /\ offset' = 0 /\ plan' = {} /\ migrated' = migrated
    BY <1>5 DEF MigrateStart, MigrationCovers
  <2>2. MigrationCovers'
    BY <1>1, <1>2, <2>1 DEF MigrationCovers, Ahead
  <2>3. migrated' \in BOOLEAN
    BY <2>1 DEF MemoryTypeOK
  <2>4. MemoryTypeOK'
    BY <1>2, <1>4, <2>1, <2>3
  <2>5. PlanIsCurrent' /\ NoUnscopedAfterMigration'
    BY <1>1, <2>1 DEF PlanIsCurrent, NoUnscopedAfterMigration, Stored
  <2>6. QED  BY <1>3, <2>2, <2>4, <2>5
<1>6. CASE MigratePage
  <2>1. /\ total # 0 /\ total' = total /\ migrated' = migrated /\ plan = {}
        /\ plan' = plan_scope_backfill({order[i] : i \in Page})
        /\ offset' = IF offset + Batch < Len(order) THEN offset + Batch ELSE Len(order)
    BY <1>6 DEF MigratePage
  <2>2. plan' = {id \in {order[i] : i \in Page} : rows[id].scope = None}
    BY <2>1 DEF plan_scope_backfill
  <2>3. \A i \in 1..Len(order) : offset < i /\ i <= offset + Batch => i \in Page
    BY <1>2 DEF Page
  <2>4. \A id \in plan' : id \in Ids /\ rows[id] # None /\ rows[id].scope = None
    BY <1>2, <2>2 DEF Page, Stored
  <2>5. ASSUME NEW i \in 1..Len(order), rows[order[i]].scope = None
        PROVE  order[i] \in plan' \/ (offset' < i /\ i <= total)
    <3>1. offset < i /\ i <= total
      BY <2>1, <2>5 DEF MigrationCovers, Ahead
    <3>2. CASE i <= offset + Batch
      BY <2>2, <2>3, <2>5, <3>1, <3>2
    <3>3. CASE ~(i <= offset + Batch)
      BY <1>2, <2>1, <3>1, <3>3
    <3>4. QED  BY <3>2, <3>3
  <2>6. offset' \in Nat /\ offset' <= Len(order)
    BY <1>2, <2>1
  <2>7. MigrationCovers'
    BY <1>1, <2>1, <2>5, <2>6 DEF MigrationCovers, Ahead
  <2>8. migrated' \in BOOLEAN
    BY <2>1 DEF MemoryTypeOK
  <2>9. MemoryTypeOK'
    BY <1>2, <1>4, <2>1, <2>4, <2>6, <2>8
  <2>10. PlanIsCurrent' /\ NoUnscopedAfterMigration'
    BY <1>1, <2>1, <2>4 DEF PlanIsCurrent, NoUnscopedAfterMigration, Stored
  <2>11. QED  BY <1>3, <2>7, <2>9, <2>10
<1>7. CASE MigrateEnd
  <2>1. /\ total # 0 /\ offset >= total /\ plan = {}
        /\ total' = 0 /\ offset' = 0 /\ plan' = {} /\ migrated' = TRUE
    BY <1>7 DEF MigrateEnd
  <2>2. \A i \in 1..Len(order) : rows[order[i]].scope # None
    BY <1>2, <2>1 DEF MigrationCovers, Ahead
  <2>3. \A id \in Ids : Stored(id) => rows[id].scope # None
    BY <2>2 DEF OrderIsStore
  <2>4. NoUnscopedAfterMigration'
    BY <1>1, <2>3 DEF NoUnscopedAfterMigration, Stored
  <2>5. MigrationCovers' /\ PlanIsCurrent'
    BY <1>1, <1>2, <2>1 DEF MigrationCovers, PlanIsCurrent
  <2>6. migrated' \in BOOLEAN
    BY <2>1, Zenon
  <2>7. MemoryTypeOK'
    BY <1>4, <2>1, <2>6
  <2>8. QED  BY <1>3, <2>4, <2>5, <2>7
<1>8. CASE EmbedderCrash
  <2>1. total' = total /\ offset' = offset /\ plan' = plan /\ migrated' = migrated
    BY <1>8 DEF EmbedderCrash, migrationVars
  <2>2. /\ MemoryTypeOK' /\ MigrationCovers' /\ PlanIsCurrent' /\ NoUnscopedAfterMigration'
    BY <1>1, <2>1 DEF MemoryTypeOK, MigrationCovers, Ahead, PlanIsCurrent, NoUnscopedAfterMigration, Stored
  <2>3. QED  BY <1>3, <2>2
<1>9. CASE MigrationCrash
  <2>1. total' = 0 /\ offset' = 0 /\ plan' = {} /\ migrated' = migrated
    BY <1>9 DEF MigrationCrash
  <2>2. migrated' \in BOOLEAN
    BY <2>1 DEF MemoryTypeOK
  <2>3. MemoryTypeOK'
    BY <1>4, <2>1, <2>2
  <2>4. MigrationCovers' /\ PlanIsCurrent' /\ NoUnscopedAfterMigration'
    BY <1>1, <1>2, <2>1 DEF MigrationCovers, PlanIsCurrent, NoUnscopedAfterMigration, Stored
  <2>5. QED  BY <1>3, <2>3, <2>4
<1>10. QED  BY <1>5, <1>6, <1>7, <1>8, <1>9

LEMMA UpdateStep == ASSUME MemoryInv, MigrateUpdate PROVE MemoryInv'
<1> USE DEF MemoryInv
<1> DEFINE scoped == [LegacyRow EXCEPT !.scope = private_scope(FirstMember), !.origin = "conversation"]
<1>1. /\ scoped \in Row /\ scoped.scope = private_scope(FirstMember) /\ scoped.talk = FirstMember
      /\ scoped.origin = "conversation" /\ private_scope(FirstMember) # None /\ FirstMember \in Members
  BY ScopesAssumption, ScopesAreNotNone DEF LegacyRow, Row, ORIGINS
<1>2. \A id \in plan : id \in Ids /\ rows[id] = LegacyRow
  <2> TAKE id \in plan
  <2>1. id \in Ids /\ Stored(id) /\ rows[id].scope = None
    BY DEF PlanIsCurrent, MemoryTypeOK
  <2>2. CASE rows[id].scope = SHARED_SCOPE
    BY <2>1, <2>2, ScopesAreNotNone
  <2>3. CASE rows[id].talk \in Members
             /\ rows[id].scope \in {private_scope(rows[id].talk), experiential_scope(rows[id].talk)}
    BY <2>1, <2>3, ScopesAreNotNone
  <2>4. QED  BY <2>1, <2>2, <2>3 DEF TalkOwnsScope
<1>3. /\ plan' = {} /\ order' = order /\ consents' = consents /\ promoting' = promoting
      /\ total' = total /\ offset' = offset /\ migrated' = migrated /\ plan # {}
      /\ rows' = [id \in Ids |-> IF id \in plan THEN scoped ELSE rows[id]]
  BY <1>2 DEF MigrateUpdate
<1> HIDE DEF scoped
<1>4. \A id \in Ids : rows'[id] = IF id \in plan THEN scoped ELSE rows[id]
  BY <1>3
<1>5. None \notin Row /\ scoped # None
  BY <1>1, NoneIsNoRow
<1>6. MemoryTypeOK'
  BY <1>1, <1>3 DEF MemoryTypeOK
<1>7. TalkOwnsScope'
  BY <1>1, <1>4 DEF TalkOwnsScope, Stored
<1>8. ReadIsCurrent' /\ PaperTrail'
  <2>1. \A id \in Ids : Stored(id) /\ rows[id].scope # None => rows'[id] = rows[id]
    BY <1>4 DEF PlanIsCurrent
  <2>2. \A m \in Members : private_scope(m) # None
    BY ScopesAreNotNone
  <2>3. \A q \in promoting : q.id \in Ids /\ q.member \in Members
    BY DEF MemoryTypeOK, Ids
  <2>4. ReadIsCurrent'
    BY <1>3, <2>1, <2>2, <2>3 DEF ReadIsCurrent, Stored
  <2>5. ASSUME NEW src \in Base, rows'[promoted_id(src)] # None
        PROVE  /\ rows'[promoted_id(src)].origin = "promotion"
               /\ rows'[promoted_id(src)].from = src
               /\ rows'[src] # None
               /\ rows'[src].scope = private_scope(rows'[src].talk)
               /\ rows'[src].talk = rows'[promoted_id(src)].talk
               /\ rows'[src].ts = rows'[promoted_id(src)].ts
               /\ <<rows'[promoted_id(src)].by, src>> \in consents'
    <3>1. src \in Ids /\ promoted_id(src) \in Ids
      BY DEF Ids
    <3>2. rows[promoted_id(src)] # None
      BY <1>4, <2>5, <3>1 DEF PlanIsCurrent, Stored
    <3>3. /\ rows[promoted_id(src)].origin = "promotion" /\ rows[promoted_id(src)].from = src
          /\ rows[src] # None /\ rows[src].scope = private_scope(rows[src].talk)
          /\ rows[src].talk = rows[promoted_id(src)].talk
          /\ rows[src].ts = rows[promoted_id(src)].ts
          /\ <<rows[promoted_id(src)].by, src>> \in consents
      BY <3>2 DEF PaperTrail, Stored
    <3>4. promoted_id(src) \notin plan
      BY <1>2, <3>3 DEF LegacyRow
    <3>5. src \notin plan
      <4>1. ASSUME src \in plan PROVE FALSE
        <5>1. rows[src].scope = None /\ rows[src].talk = FirstMember
          BY <1>2, <4>1 DEF LegacyRow
        <5>2. QED  BY <1>1, <3>3, <5>1
      <4>2. QED  BY <4>1
    <3>6. rows'[src] = rows[src] /\ rows'[promoted_id(src)] = rows[promoted_id(src)]
      BY <1>4, <3>1, <3>4, <3>5
    <3>7. QED  BY <1>3, <3>3, <3>6
  <2>6. PaperTrail'
    BY <2>5 DEF PaperTrail, Stored
  <2>7. QED  BY <2>4, <2>6
<1>9. /\ order \in Seq(Ids) /\ \A i \in 1..Len(order) : order[i] \in Ids
  BY DEF MemoryTypeOK
<1>10. OrderIsStore'
  <2>1. \A id \in Ids : rows'[id] # None <=> rows[id] # None
    BY <1>4, <1>5 DEF PlanIsCurrent, Stored
  <2>2. QED  BY <1>3, <1>9, <2>1 DEF OrderIsStore, Stored
<1>11. MigrationCovers'
  <2>1. \A id \in Ids : rows'[id].scope = None => rows[id].scope = None /\ id \notin plan
    BY <1>1, <1>4
  <2>2. QED  BY <1>3, <1>9, <2>1 DEF MigrationCovers, Ahead
<1>12. PlanIsCurrent' /\ NoUnscopedAfterMigration'
  <2>1. \A id \in Ids : rows'[id] # None /\ rows'[id].scope = None =>
          rows[id] # None /\ rows[id].scope = None
    BY <1>1, <1>4
  <2>2. QED  BY <1>3, <2>1 DEF PlanIsCurrent, NoUnscopedAfterMigration, Stored
<1>13. QED  BY <1>6, <1>7, <1>8, <1>10, <1>11, <1>12

-----------------------------------------------------------------------------
\* The presence log knows when a member was last reported asleep.
EdgeIsStamped == \A m \in Members : last_asleep_at[m] = calledAsleep[m]

ClockTypeOK ==
    /\ now \in 0..MaxTime
    /\ presence \in [Members -> PRESENCE_STATES]
    /\ last_asleep_at \in [Members -> Nat \cup {None}]
    /\ slept \in [Members -> Nat \cup {None}]
    /\ calledAsleep \in [Members -> Nat \cup {None}]

FeedInv == MemoryInv /\ ClockTypeOK /\ EdgeIsStamped

LEMMA PresenceStep ==
    ASSUME ClockTypeOK, EdgeIsStamped, NEW m \in Sleepers, NEW p \in PRESENCE_STATES,
           SetPresence(m, p)
    PROVE  ClockTypeOK' /\ EdgeIsStamped'
<1>1. m \in Members /\ now \in Nat /\ now' = now
  BY FeedAssumption DEF SetPresence, ClockTypeOK
<1>2. presence' = [presence EXCEPT ![m] = p]
  BY DEF SetPresence
<1>3. slept' \in [Members -> Nat \cup {None}]
  BY <1>1 DEF SetPresence, RememberSleep, ClockTypeOK
<1>4. CASE p # "asleep"
  <2>1. last_asleep_at' = last_asleep_at /\ calledAsleep' = calledAsleep
    BY <1>4 DEF SetPresence, RememberSleep
  <2>2. QED  BY <1>1, <1>2, <1>3, <2>1 DEF ClockTypeOK, EdgeIsStamped
<1>5. CASE p = "asleep"
  <2>1. /\ last_asleep_at' = [last_asleep_at EXCEPT ![m] = now]
        /\ calledAsleep' = [calledAsleep EXCEPT ![m] = now]
    BY <1>5 DEF SetPresence, RememberSleep
  <2>2. QED  BY <1>1, <1>2, <1>3, <2>1 DEF ClockTypeOK, EdgeIsStamped
<1>6. QED  BY <1>4, <1>5

LEMMA MemoryStepKeeps == ASSUME MemoryInv, NEW ts \in Nat, MemoryStep(ts) PROVE MemoryInv'
  BY WriteStep, PromoteReadStep, PromoteAddStep, PagingStep, UpdateStep DEF MemoryStep

LEMMA FeedStep == ASSUME FeedInv, [Next]_vars PROVE FeedInv'
<1> USE DEF FeedInv
<1>0. now \in Nat /\ MaxTime \in Nat
  BY FeedAssumption DEF ClockTypeOK
<1>1. CASE Memory
  <2>1. MemoryInv'
    BY <1>0, <1>1, MemoryStepKeeps DEF Memory
  <2>2. QED  BY <1>1, <2>1 DEF Memory, ClockTypeOK, EdgeIsStamped
<1>2. ASSUME NEW id \in Events, NEW ts \in 0..now, HouseholdEvent(id, ts) PROVE FeedInv'
  <2>1. MemoryInv'
    BY <1>0, <1>2, EventStep DEF HouseholdEvent
  <2>2. QED  BY <1>2, <2>1 DEF HouseholdEvent, ClockTypeOK, EdgeIsStamped
<1>3. ASSUME memoryVars' = memoryVars PROVE MemoryInv'
  BY <1>3 DEF memoryVars, migrationVars, MemoryInv, MemoryTypeOK, TalkOwnsScope, ReadIsCurrent, PlanIsCurrent,
     OrderIsStore, MigrationCovers, Ahead, NoUnscopedAfterMigration, PaperTrail, Stored
<1>4. ASSUME NEW m \in Sleepers, NEW p \in PRESENCE_STATES, SetPresence(m, p)
      PROVE  FeedInv'
  <2>1. memoryVars' = memoryVars
    BY <1>4 DEF SetPresence, memoryVars
  <2>2. QED  BY <1>3, <1>4, <2>1, PresenceStep
<1>5. CASE Tick
  <2>1. memoryVars' = memoryVars
    BY <1>5 DEF Tick, memoryVars
  <2>2. ClockTypeOK' /\ EdgeIsStamped'
    BY <1>0, <1>5 DEF Tick, ClockTypeOK, EdgeIsStamped
  <2>3. QED  BY <1>3, <2>1, <2>2
<1>6. CASE UNCHANGED vars
  <2>1. memoryVars' = memoryVars
    BY <1>6 DEF vars
  <2>2. ClockTypeOK' /\ EdgeIsStamped'
    BY <1>6 DEF vars, ClockTypeOK, EdgeIsStamped
  <2>3. QED  BY <1>3, <2>1, <2>2
<1>7. QED  BY <1>1, <1>2, <1>4, <1>5, <1>6 DEF Next

LEMMA FeedInvHolds == Spec => []FeedInv
<1>1. Init => FeedInv
  <2>1. Init => ClockTypeOK
    BY FeedAssumption DEF Init, ClockTypeOK, PRESENCE_STATES
  <2>2. Init => EdgeIsStamped
    BY DEF Init, EdgeIsStamped
  <2>3. QED  BY <2>1, <2>2, InitMemory DEF Init, FeedInv
<1>2. QED  BY <1>1, FeedStep, PTL DEF Spec

-----------------------------------------------------------------------------
\* The store, the consents, the migration and the presence log have their types.
THEOREM FeedTyped == Spec => []FeedTypeOK
<1>1. FeedInv => FeedTypeOK
  BY DEF FeedInv, MemoryInv, ClockTypeOK, FeedTypeOK
<1>2. QED  BY <1>1, FeedInvHolds, PTL

LEMMA OwnTalkOnly == MemoryInv => NoCrossing
<1> SUFFICES ASSUME MemoryInv, NEW m \in Members, NEW id \in Matches(m), rows[id].talk \notin {m, None}
             PROVE  /\ rows[id].scope = SHARED_SCOPE
                    /\ id \notin Base => \E p \in Persons : <<p, rows[id].from>> \in consents
  BY DEF NoCrossing
<1> USE DEF MemoryInv
<1>1. id \in Ids /\ Stored(id) /\ rows[id].scope \in readable_scopes(m)
  BY DEF Matches
<1>2. rows[id].scope # None
  <2>1. readable_scopes(m) \subseteq Scopes
    BY ScopesAreNotNone
  <2>2. QED  BY <1>1, <2>1, NoneIsNoRow
<1>3. rows[id].scope = SHARED_SCOPE
  <2>1. rows[id] # LegacyRow
    BY <1>2 DEF LegacyRow
  <2>2. ASSUME rows[id].talk \in Members,
               rows[id].scope \in {private_scope(rows[id].talk), experiential_scope(rows[id].talk)},
               rows[id].scope \in {private_scope(m), experiential_scope(m)}
        PROVE  FALSE
    <3>1. rows[id].talk = m
      BY <2>2, PrivateIsOnes
    <3>2. QED  BY <3>1
  <2>3. QED  BY <1>1, <2>1, <2>2 DEF TalkOwnsScope, readable_scopes
<1>4. ASSUME id \notin Base PROVE \E p \in Persons : <<p, rows[id].from>> \in consents
  <2>1. PICK src \in Base : id = promoted_id(src)
    BY <1>1, <1>4 DEF Ids
  <2>2. rows[id].from = src /\ <<rows[id].by, src>> \in consents
    BY <1>1, <2>1 DEF PaperTrail
  <2>3. rows[id].by \in Persons
    BY <2>2 DEF MemoryTypeOK
  <2>4. QED  BY <2>2, <2>3
<1>5. QED  BY <1>3, <1>4

\* For any members and ids: however writes, promotions, the migration and
\* crashes interleave, a query by one member returns nothing of another's
\* conversations that was not written as shared or shared by a person.
THEOREM QueriesDoNotCross == Spec => []NoCrossing
<1>1. FeedInv => NoCrossing
  BY OwnTalkOnly DEF FeedInv
<1>2. QED  BY <1>1, FeedInvHolds, PTL

\* A copy that a promotion made always has the private row it was made of,
\* unchanged, and the person who asked, whatever origins writers ask for.
THEOREM PromotionsAreTraced == Spec => []PaperTrail
<1>1. FeedInv => PaperTrail
  BY DEF FeedInv, MemoryInv
<1>2. QED  BY <1>1, FeedInvHolds, PTL

\* Once a migration has run to its end, no row is without a scope, whatever
\* runs were cut short before and whatever was written meanwhile.
THEOREM MigrationIsComplete == Spec => []NoUnscopedAfterMigration
<1>1. FeedInv => NoUnscopedAfterMigration
  BY DEF FeedInv, MemoryInv
<1>2. QED  BY <1>1, FeedInvHolds, PTL

-----------------------------------------------------------------------------
Final == \A id \in Ids : (Stored(id) /\ rows[id].scope # None) => rows'[id] = rows[id]

LEMMA FinalStep == ASSUME MemoryInv, [Next]_vars PROVE Final
<1> USE DEF MemoryInv
<1>1. ASSUME NEW id \in Ids, NEW row, Add(id, row) PROVE Final
  <2>1. CASE Stored(id)
    BY <1>1, <2>1 DEF Add, Final
  <2>2. CASE ~Stored(id)
    <3>1. \A o \in Ids : o # id => rows'[o] = rows[o]
      BY <1>1, <2>2 DEF Add, MemoryTypeOK
    <3>2. QED  BY <2>2, <3>1 DEF Final
  <2>3. QED  BY <2>1, <2>2
<1>2. ASSUME rows' = rows PROVE Final
  BY <1>2 DEF Final
<1>3. MigrateUpdate => Final
  BY DEF MigrateUpdate, PlanIsCurrent, Final
<1>4. ASSUME NEW q \in promoting, PromoteAdd(q) PROVE Final
  <2>1. promoted_id(q.id) \in Ids
    BY DEF MemoryTypeOK, Ids
  <2>2. QED  BY <1>1, <1>4, <2>1 DEF PromoteAdd
<1>5. ASSUME NEW ts, NEW id \in Turns, NEW m \in Members, NEW scope \in Scopes, NEW origin,
             MemoryWrite(id, m, scope, origin, ts)
      PROVE  Final
  <2>1. id \in Ids
    BY DEF Ids, Base
  <2>2. QED  BY <1>1, <1>5, <2>1 DEF MemoryWrite
<1>6. ASSUME NEW ts, MemoryStep(ts) PROVE Final
  BY <1>2, <1>3, <1>4, <1>5, <1>6 DEF MemoryStep, PromoteRead, MigrateStart, MigratePage, MigrateEnd,
     EmbedderCrash, MigrationCrash
<1>7. ASSUME NEW ts, NEW id \in Events, MemoryEvent(id, ts) PROVE Final
  <2>1. id \in Ids
    BY DEF Ids, Base
  <2>2. QED  BY <1>1, <1>7, <2>1 DEF MemoryEvent
<1>8. QED  BY <1>2, <1>6, <1>7 DEF Next, Memory, HouseholdEvent, SetPresence, Tick, vars, memoryVars

\* A row that has a scope is final: no write under its id, second promotion,
\* migration or crash changes it or takes it away.
THEOREM ScopedRowsStay == Spec => ScopedRowsAreFinal
<1>1. FeedInv /\ [Next]_vars => [Final]_memoryVars
  BY FinalStep DEF FeedInv
<1>2. Spec => [][Final]_memoryVars
  BY <1>1, FeedInvHolds, PTL DEF Spec
<1>3. QED  BY <1>2 DEF ScopedRowsAreFinal, Final

-----------------------------------------------------------------------------
\* What the newest leave out is not newer than any of them, and they are as
\* many as the limit.
LEMMA NewestAreMany ==
    ASSUME NEW S, IsFiniteSet(S), NEW limit \in Nat, NEW T \in NewestFirst(S, limit),
           NEW id \in S, id \notin T
    PROVE  Cardinality(T) = limit /\ \A a \in T : rows[a].ts >= rows[id].ts
<1>1. /\ T \in SUBSET S /\ Cardinality(S) \in Nat
      /\ Cardinality(T) = IF Cardinality(S) < limit THEN Cardinality(S) ELSE limit
      /\ \A a \in T, b \in S \ T : rows[a].ts >= rows[b].ts
  BY FS_CardinalityType DEF NewestFirst
<1>2. Cardinality(T) # Cardinality(S)
  BY <1>1, FS_Subset
<1>3. QED  BY <1>1, <1>2

LEMMA BriefingHoldsNew ==
    ASSUME FeedInv, NEW m \in Members, calledAsleep[m] # None,
           Cardinality(SharedRows) <= FetchLimit, NEW B \in Briefings(m),
           NEW id \in SharedRows, rows[id].ts >= calledAsleep[m], id \notin B
    PROVE  Cardinality(B) = EventCap /\ \A b \in B : rows[b].ts >= rows[id].ts
<1>1. /\ IsFiniteSet(SharedRows) /\ Cardinality(SharedRows) \in Nat
      /\ FetchLimit \in Nat /\ EventCap \in Nat /\ EventCap <= 200
  <2>1. SharedRows \in SUBSET Ids
    BY DEF SharedRows
  <2>2. QED  BY <2>1, StoreIsFinite, FS_Subset, FS_CardinalityType, FeedAssumption
<1>2. Cutoff(m) = calledAsleep[m] /\ calledAsleep[m] \in Nat
  BY DEF Cutoff, FeedInv, EdgeIsStamped, ClockTypeOK
<1>3. \A F \in Fetched : F = SharedRows
  <2> SUFFICES ASSUME NEW F \in Fetched PROVE F = SharedRows
    OBVIOUS
  <2>1. F \in SUBSET SharedRows /\ Cardinality(F) = Cardinality(SharedRows)
    BY <1>1 DEF Fetched
  <2>2. QED  BY <1>1, <2>1, FS_Subset
<1>4. PICK T \in NewestFirst(SharedRows, 200) : B \in NewestFirst(SinceCutoff(m, T), EventCap)
  BY <1>3 DEF Briefings, Timelines
<1>5. /\ T \in SUBSET SharedRows /\ IsFiniteSet(T) /\ SinceCutoff(m, T) \in SUBSET T
      /\ IsFiniteSet(SinceCutoff(m, T)) /\ B \in SUBSET SinceCutoff(m, T)
  <2>1. T \in SUBSET SharedRows /\ SinceCutoff(m, T) \in SUBSET T
    BY DEF NewestFirst, SinceCutoff
  <2>2. IsFiniteSet(T)
    BY <1>1, <2>1, FS_Subset
  <2>3. IsFiniteSet(SinceCutoff(m, T))
    BY <2>1, <2>2, FS_Subset
  <2>4. QED  BY <1>4, <2>1, <2>2, <2>3 DEF NewestFirst
<1>6. CASE id \in T
  <2>1. id \in SinceCutoff(m, T)
    BY <1>2, <1>6 DEF SinceCutoff
  <2>2. QED  BY <1>1, <1>4, <1>5, <2>1, NewestAreMany
<1>7. CASE id \notin T
  <2>1. Cardinality(T) = 200 /\ \A a \in T : rows[a].ts >= rows[id].ts
    BY <1>1, <1>7, NewestAreMany
  <2>2. \A a \in SharedRows : rows[a].ts \in Nat
    <3>1. \A a \in Ids : Stored(a) => rows[a] \in Row
      BY DEF FeedInv, MemoryInv, MemoryTypeOK, Stored
    <3>2. QED  BY <3>1 DEF SharedRows, Row
  <2>3. SinceCutoff(m, T) = T
    <3>1. \A a \in T : rows[a].ts >= calledAsleep[m]
      BY <1>2, <1>5, <2>1, <2>2
    <3>2. QED  BY <1>2, <3>1 DEF SinceCutoff
  <2>4. Cardinality(B) = EventCap
    BY <1>1, <1>4, <2>1, <2>3 DEF NewestFirst
  <2>5. QED  BY <1>5, <2>1, <2>4
<1>8. QED  BY <1>6, <1>7

\* For any members, rows, default and clock: while the shared rows fit the
\* fetch, neither the timeline's limit nor the two sorts cost a briefing a row
\* stamped since its member was last reported asleep, but for the cap.
THEOREM BriefingIsComplete == Spec => []BriefingCoversLastReport
<1>1. FeedInv => BriefingCoversLastReport
  BY BriefingHoldsNew DEF BriefingCoversLastReport
<1>2. QED  BY <1>1, FeedInvHolds, PTL
=============================================================================
