---------------------------- MODULE MemoryScopes ----------------------------
(***************************************************************************)
(* Who may read a memory row: nodes/embedder_4070/scopes.py, the routes of *)
(* its server.py, the calls the hub makes to them, and the migration that  *)
(* gave the oldest rows a scope (scripts/migrate_memory_scopes.py).  The   *)
(* text of a row is what it came from: `talk` names the member whose       *)
(* conversation it is.  A promotion and a page of the migration read the   *)
(* store and write it later, with other requests in between.               *)
(*                                                                         *)
(* Chroma pages through a collection in the order its rows were inserted;  *)
(* an update leaves a row in its place, and nothing deletes one.           *)
(***************************************************************************)
EXTENDS Naturals, Sequences, FiniteSets, Functions

CONSTANTS Members, Persons,
          FirstMember,   \* the registry's first, default of the migration
          Turns,         \* ids "<session>:<turn>:<chunk>" of turns written
          Legacy,        \* ids of rows older than scopes
          Events,        \* ids of sensor events
          AskedOrigins,  \* origins that writers ask for, ORIGINS or not
          Batch,         \* rows of a page of the migration: 500 in the code
          None

ASSUME ScopesAssumption ==
    /\ FirstMember \in Members
    /\ None \notin Members \cup Persons \cup Turns \cup Legacy \cup Events
    /\ Turns \cap Events = {} /\ Turns \cap Legacy = {} /\ Legacy \cap Events = {}
    /\ Batch \in Nat \ {0}

VARIABLES rows,        \* the Chroma collection
          order,       \* its ids, in the order get() pages through them
          consents,    \* <<person, id>> a person asked the hub to share
          promoting,   \* promotions that have read and not yet written
          total,       \* rows the running migration counted; 0: none runs
          offset,      \* how many it has paged through
          plan,        \* ids its current page will update
          migrated     \* has a migration run to its end?

migrationVars == <<total, offset, plan, migrated>>
memoryVars == <<rows, order, consents, promoting, migrationVars>>

SHARED_SCOPE == <<"shared", "household">>
private_scope(m) == <<"private", m>>
experiential_scope(m) == <<"experiential", m>>

Scopes == {SHARED_SCOPE} \cup ({"private", "experiential"} \X Members)

readable_scopes(m) == {private_scope(m), SHARED_SCOPE, experiential_scope(m)}

Base == Turns \cup Legacy \cup Events
promoted_id(id) == <<id, "promoted">>
Ids == Base \cup {promoted_id(id) : id \in Base}

\* A turn's id ends in the number of its chunk, an event's in a uuid.
ASSUME PromotedIdsAreNew == \A id \in Base : promoted_id(id) \notin Base

ORIGINS == {"conversation", "sensor", "promotion", "vector_platform", "delegated_task"}

\* by is promoted_by, or reported_by; from is promoted_from.
Row == [scope : Scopes \cup {None}, origin : ORIGINS,
        talk : Members \cup {None}, by : Persons \cup {None}, from : Base \cup {None},
        ts : Nat]

ASSUME NoneIsNoRow == None \notin Row /\ None \notin Scopes

ASSUME StoreIsFinite == IsFiniteSet(Ids)

Stored(id) == rows[id] # None

\* collection.add: a row whose id exists is left as it is.
Add(id, row) ==
    /\ rows' = IF Stored(id) THEN rows ELSE [rows EXCEPT ![id] = row]
    /\ order' = IF Stored(id) THEN order ELSE Append(order, id)

\* The rows whose metadata satisfy build_where for member m.
Matches(m) == {id \in Ids : Stored(id) /\ rows[id].scope \in readable_scopes(m)}

LegacyRow == [scope |-> None, origin |-> "conversation", talk |-> FirstMember,
              by |-> None, from |-> None, ts |-> 0]

MemoryInit ==
    /\ order \in {o \in UNION {[1..n -> Legacy] : n \in 0..Cardinality(Legacy)} : IsInjective(o)}
    /\ rows = [id \in Ids |-> IF id \in Range(order) THEN LegacyRow ELSE None]
    /\ consents = {} /\ promoting = {}
    /\ total = 0 /\ offset = 0 /\ plan = {}
    /\ migrated = FALSE

-----------------------------------------------------------------------------
\* Mutant: validate_write_scope is not called.
WriteUnchecked(id, m, scope, origin, ts) ==
    /\ Add(id, [scope |-> scope, origin |-> origin, talk |-> m,
                by |-> None, from |-> None, ts |-> ts])
    /\ UNCHANGED <<consents, promoting, migrationVars>>

\* /memory/write for a turn with member m: any scope and any origin may be
\* asked for; a scope m cannot read and an origin that is not one are a 400.
MemoryWrite(id, m, scope, origin, ts) ==
    /\ scope \in readable_scopes(m)
    /\ origin \in ORIGINS
    /\ Add(id, [scope |-> scope, origin |-> origin, talk |-> m,
                by |-> None, from |-> None, ts |-> ts])
    /\ UNCHANGED <<consents, promoting, migrationVars>>

\* Mutant: an event that came without a ts is stored without one.
EventUnstamped(id, ts) ==
    /\ ~Stored(id)
    /\ Add(id, [scope |-> SHARED_SCOPE, origin |-> "sensor", talk |-> None,
                by |-> None, from |-> None, ts |-> None])
    /\ UNCHANGED <<consents, promoting, migrationVars>>

\* /memory/event: born shared, under a fresh uuid.
MemoryEvent(id, ts) ==
    /\ ~Stored(id)
    /\ Add(id, [scope |-> SHARED_SCOPE, origin |-> "sensor", talk |-> None,
                by |-> None, from |-> None, ts |-> ts])
    /\ UNCHANGED <<consents, promoting, migrationVars>>

\* Mutant: the owner of the source row is not compared.
PromoteAnyScope(p, m, id) ==
    /\ ~Stored(promoted_id(id))
    /\ Stored(id)
    /\ promoting' = promoting \cup {[person |-> p, member |-> m, id |-> id]}
    /\ consents' = consents \cup {<<p, id>>}
    /\ UNCHANGED <<rows, order, migrationVars>>

\* A person confirms at the hub, and /memory/promote reads: a copy that is
\* there already is a no-op, a missing source a 404, a row outside the private
\* scope of m a 400.
PromoteRead(p, m, id) ==
    /\ ~Stored(promoted_id(id))
    /\ Stored(id)
    /\ rows[id].scope = private_scope(m)
    /\ promoting' = promoting \cup {[person |-> p, member |-> m, id |-> id]}
    /\ consents' = consents \cup {<<p, id>>}
    /\ UNCHANGED <<rows, order, migrationVars>>

\* ... and adds the copy, with its paper trail.
PromoteAdd(q) ==
    /\ q \in promoting
    /\ Add(promoted_id(q.id), [rows[q.id] EXCEPT !.scope = SHARED_SCOPE, !.origin = "promotion",
                                                 !.by = q.person, !.from = q.id])
    /\ promoting' = promoting \ {q}
    /\ UNCHANGED <<consents, migrationVars>>

-----------------------------------------------------------------------------
\* The migration counts the rows ...
MigrateStart ==
    /\ total = 0 /\ Len(order) > 0
    /\ total' = Len(order)
    /\ UNCHANGED <<rows, order, consents, promoting, offset, plan, migrated>>

\* coll.get(limit=BATCH, offset=offset), as positions in the order.
Page == {i \in DOMAIN order : offset < i /\ i <= offset + Batch}

\* Mutant: the planner takes rows that have a scope too.
PlanAllRows(ids) == ids

\* plan_scope_backfill: exactly the rows without a scope.
plan_scope_backfill(ids) == {id \in ids : rows[id].scope = None}

\* Mutant: the pages are those of the rows without a scope, of which an update
\* leaves fewer.
PageOfUnscoped ==
    LET unscoped == SelectSeq(order, LAMBDA id : rows[id].scope = None)
        page == {i \in DOMAIN unscoped : offset < i /\ i <= offset + Batch}
    IN  /\ total # 0 /\ offset < total /\ plan = {}
        /\ plan' = {unscoped[i] : i \in page}
        /\ offset' = IF page = {} THEN total ELSE offset + Cardinality(page)
        /\ UNCHANGED <<rows, order, consents, promoting, total, migrated>>

\* ... reads them page by page, while the embedder may add to them ...
MigratePage ==
    /\ total # 0 /\ offset < total /\ plan = {}
    /\ plan' = plan_scope_backfill({order[i] : i \in Page})
    /\ offset' = IF offset + Batch < Len(order) THEN offset + Batch ELSE Len(order)
    /\ UNCHANGED <<rows, order, consents, promoting, total, migrated>>

\* ... and updates what a page needs.
MigrateUpdate ==
    /\ plan # {}
    /\ rows' = [id \in Ids |-> IF id \in plan
                               THEN [rows[id] EXCEPT !.scope = private_scope(FirstMember),
                                                     !.origin = "conversation"]
                               ELSE rows[id]]
    /\ plan' = {}
    /\ UNCHANGED <<order, consents, promoting, total, offset, migrated>>

\* The loop ends.  With rows added meanwhile its last page may hold more than
\* were counted, which the script calls an error; it has updated them all.
MigrateEnd ==
    /\ total # 0 /\ offset >= total /\ plan = {}
    /\ total' = 0 /\ offset' = 0 /\ migrated' = TRUE
    /\ UNCHANGED <<rows, order, consents, promoting, plan>>

\* The embedder dies with its requests, or the script with its page.
EmbedderCrash ==
    /\ promoting # {}
    /\ promoting' = {}
    /\ UNCHANGED <<rows, order, consents, migrationVars>>

MigrationCrash ==
    /\ total # 0
    /\ total' = 0 /\ offset' = 0 /\ plan' = {}
    /\ UNCHANGED <<rows, order, consents, promoting, migrated>>

MemoryStep(ts) ==
    \/ \E id \in Turns, m \in Members, scope \in Scopes, origin \in AskedOrigins :
         MemoryWrite(id, m, scope, origin, ts)
    \/ \E p \in Persons, m \in Members, id \in Base : PromoteRead(p, m, id)
    \/ \E q \in promoting : PromoteAdd(q)
    \/ MigrateStart \/ MigratePage \/ MigrateUpdate \/ MigrateEnd
    \/ EmbedderCrash \/ MigrationCrash

-----------------------------------------------------------------------------
\* Type correctness of the store and of what is under way.
MemoryTypeOK ==
    /\ rows \in [Ids -> Row \cup {None}]
    /\ order \in Seq(Ids)
    /\ consents \subseteq Persons \X Base
    /\ promoting \subseteq [person : Persons, member : Members, id : Base]
    /\ total \in Nat /\ offset \in Nat /\ plan \subseteq Ids
    /\ migrated \in BOOLEAN

\* What a query by member m returns of another member's conversation is only
\* what that member wrote as shared, or what a person asked the hub to share.
NoCrossing ==
    \A m \in Members : \A id \in Matches(m) :
      rows[id].talk \notin {m, None} =>
        /\ rows[id].scope = SHARED_SCOPE
        /\ id \notin Base => \E p \in Persons : <<p, rows[id].from>> \in consents

\* Promotion copies, never moves: a copy that /memory/promote made names the
\* row it was made of, which is still there and still private, has its text and
\* its ts, and names a person who asked for it.  What /memory/write stores
\* under the origin "promotion" is no such copy, and names nothing.
PaperTrail ==
    \A id \in Base : Stored(promoted_id(id)) =>
      LET copy == rows[promoted_id(id)] IN
      /\ copy.origin = "promotion" /\ copy.from = id
      /\ Stored(id)
      /\ rows[id].scope = private_scope(rows[id].talk)
      /\ rows[id].talk = copy.talk /\ rows[id].ts = copy.ts
      /\ <<copy.by, id>> \in consents

\* server.py:81, "unscoped rows must never exist again after the migration",
\* however many runs were cut short and whatever was written meanwhile.
NoUnscopedAfterMigration ==
    migrated => \A id \in Ids : Stored(id) => rows[id].scope # None

\* A row that has a scope is never changed nor lost: not by a write that
\* reuses its id, a second promotion, or the migration.
ScopedRowsAreFinal ==
    [][\A id \in Ids : (Stored(id) /\ rows[id].scope # None) => rows'[id] = rows[id]]_memoryVars
=============================================================================
