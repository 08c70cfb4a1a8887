------------------------------ MODULE Postgres ------------------------------
(***************************************************************************)
(* PostgreSQL as db.Session uses it: every usecase call runs its           *)
(* statements in one transaction at the default READ COMMITTED level.      *)
(*                                                                         *)
(* A statement sees the rows committed when it starts and those its own    *)
(* transaction wrote.  A row a transaction has inserted, updated or        *)
(* deleted is locked until the transaction ends: a statement of another    *)
(* one that would write the same key waits, and then sees the outcome.     *)
(***************************************************************************)
EXTENDS Naturals, FiniteSets

CONSTANT Calls        \* RPC calls; each runs at most one transaction at a time

VARIABLES
    rows,             \* the committed rows of all tables, each a record with a unique key
    ins,              \* the rows each call's open transaction has written
    del               \* the committed rows they replace or delete

dbVars == <<rows, ins, del>>

DbInit(initial) ==
    /\ rows = initial
    /\ ins = [c \in Calls |-> {}]
    /\ del = [c \in Calls |-> {}]

KeysUnique == \A r, s \in rows : r.key = s.key => r = s

Visible(c) == (rows \ del[c]) \cup ins[c]
Exists(c, k) == \E r \in Visible(c) : r.key = k
RowOf(c, k) == CHOOSE r \in Visible(c) : r.key = k

\* No other open transaction has locked the committed row r, or the row or
\* index entry of key k.  A statement cannot see another's uncommitted insert:
\* only an insert of the same key waits for it.
Unlocked(c, r) == \A d \in Calls \ {c} : r \notin del[d]
Free(c, k) == \A d \in Calls \ {c} : \A r \in ins[d] \cup del[d] : r.key # k

\* The deadlock detector's victims: transactions of a group each of which waits
\* for a row that another one of the group has locked.
InDeadlock(c, wants) ==
    \E D \in SUBSET Calls :
        /\ c \in D
        /\ \A d \in D : \E e \in D \ {d} : \E r \in ins[e] \cup del[e] : r.key \in wants[d]

\* INSERT, UPDATE and DELETE: the rows old give way to the rows new.
Write(c, old, new) ==
    /\ \A r \in old : Unlocked(c, r)
    /\ \A r \in new : Free(c, r.key)
    /\ ins' = [ins EXCEPT ![c] = (@ \ old) \cup new]
    /\ del' = [del EXCEPT ![c] = @ \cup (old \cap rows)]
    /\ UNCHANGED rows

Insert(c, r) == Write(c, {}, {r})
Upsert(c, r) == Write(c, {s \in Visible(c) : s.key = r.key}, {r})
Delete(c, k) == Write(c, {s \in Visible(c) : s.key = k}, {})

\* run: commit when fn returned nil, roll back otherwise.
Commit(c) ==
    /\ rows' = Visible(c)
    /\ ins' = [ins EXCEPT ![c] = {}]
    /\ del' = [del EXCEPT ![c] = {}]

Rollback(c) ==
    /\ ins' = [ins EXCEPT ![c] = {}]
    /\ del' = [del EXCEPT ![c] = {}]
    /\ UNCHANGED rows
=============================================================================
