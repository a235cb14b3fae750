--------------------------- MODULE EmbedderMemory ---------------------------
(***************************************************************************)
(* The Chroma collection behind nodes/embedder_4070/server.py, as far as   *)
(* write-on-turn uses it.  A turn is one row: its chunks share the id      *)
(* prefix "{session}:{turn_idx}" and are added in one call.                *)
(***************************************************************************)
EXTENDS Household

VARIABLE rows  \* the rows of the collection

\* Mutant: the id lacks the session.
SameTurn(a, b) == a.turn_idx = b.turn_idx

\* The chunk ids of a and b are equal.
SameId(a, b) == a.sid = b.sid /\ a.turn_idx = b.turn_idx

\* collection.add: an id that exists is kept and the new row dropped, with no
\* error.
AddRow(row) ==
    rows' = IF \E old \in rows : SameId(old, row) THEN rows ELSE rows \cup {row}

-----------------------------------------------------------------------------
\* The scope is private:<member> and the writer is that member, which is what
\* scopes.validate_write_scope accepts; participants is the one person.
TurnRow(sid, turn_idx, text, person, member) ==
    [sid |-> sid, turn_idx |-> turn_idx, text |-> text,
     person |-> person, member |-> member]

MemoryWrite(sid, turn_idx, text, person, member) ==
    AddRow(TurnRow(sid, turn_idx, text, person, member))
=============================================================================
