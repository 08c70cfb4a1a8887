--------------------------- MODULE PostgresProofs ---------------------------
(***************************************************************************)
(* What row locks and unique indexes give a READ COMMITTED transaction:    *)
(* lemmas about Postgres for the proofs of the services on top of it.      *)
(***************************************************************************)
EXTENDS Postgres, TLAPS

Unique(S) == \A r, s \in S : r.key = s.key => r = s

\* Keys are unique in the tables and in what a transaction has written; a row a
\* transaction replaces is committed, and nobody else replaces it; and no two
\* transactions write rows of the same key.
DbInv ==
    /\ Unique(rows)
    /\ \A c \in Calls :
          /\ Unique(ins[c])
          /\ del[c] \subseteq rows
          /\ \A r \in ins[c], s \in rows : r.key = s.key => s \in del[c]
    /\ \A c, d \in Calls : c # d =>
          /\ del[c] \cap del[d] = {}
          /\ \A r \in ins[c], s \in ins[d] : r.key # s.key

\* The rows, and what each transaction writes, are rows of the tables T.
DbType(T) ==
    /\ rows \subseteq T
    /\ ins \in [Calls -> SUBSET T]
    /\ del \in [Calls -> SUBSET T]

\* A database without open transactions.
LEMMA DbStart ==
    ASSUME NEW T, NEW initial \in SUBSET T, Unique(initial), DbInit(initial)
    PROVE  DbType(T) /\ DbInv
  BY DEF DbInit, DbType, DbInv, Unique

\* A transaction sees at most one row of each key.
LEMMA VisibleUnique ==
    ASSUME DbInv, NEW c \in Calls
    PROVE  Unique(Visible(c))
  BY DEF DbInv, Unique, Visible

\* RowOf is the row a transaction sees under a key.
LEMMA RowOfIs ==
    ASSUME DbInv, NEW c \in Calls, NEW r \in Visible(c)
    PROVE  RowOf(c, r.key) = r /\ Exists(c, r.key)
  BY VisibleUnique DEF RowOf, Exists, Unique

\* A statement that replaces the rows of the keys it writes.
LEMMA WriteStep ==
    ASSUME NEW T, DbType(T), DbInv, NEW c \in Calls, NEW old, NEW new \in SUBSET T,
           Unique(new), \A r \in new, s \in Visible(c) : r.key = s.key => s \in old,
           Write(c, old, new)
    PROVE  /\ DbType(T)' /\ DbInv'
           /\ ins'[c] = (ins[c] \ old) \cup new
           /\ del'[c] = del[c] \cup (old \cap rows)
           /\ \A d \in Calls : d # c => ins'[d] = ins[d] /\ del'[d] = del[d]
           /\ UNCHANGED rows
  <1>1. /\ ins'[c] = (ins[c] \ old) \cup new
        /\ del'[c] = del[c] \cup (old \cap rows)
        /\ \A d \in Calls : d # c => ins'[d] = ins[d] /\ del'[d] = del[d]
        /\ rows' = rows
    BY DEF Write, DbType
  <1>2. DbType(T)'
    <2>1. (ins[c] \ old) \cup new \in SUBSET T /\ del[c] \cup (old \cap rows) \in SUBSET T
      BY DEF DbType
    <2> QED
      BY <1>1, <2>1 DEF Write, DbType
  <1>3. Unique(ins'[c]) /\ del'[c] \subseteq rows
    BY <1>1 DEF DbInv, Unique, Visible
  <1>4. \A r \in ins'[c], s \in rows : r.key = s.key => s \in del'[c]
    BY <1>1 DEF DbInv, Visible
  <1>5. ASSUME NEW d \in Calls, d # c
        PROVE  /\ del'[c] \cap del'[d] = {}
               /\ \A r \in ins'[c], s \in ins'[d] : r.key # s.key
    <2>1. \A r \in old : r \notin del[d]
      BY <1>5 DEF Write, Unlocked
    <2>2. \A r \in new, s \in ins[d] : r.key # s.key
      BY <1>5 DEF Write, Free
    <2> QED
      BY <1>1, <1>5, <2>1, <2>2 DEF DbInv
  <1>6. DbInv'
    <2>1. Unique(rows')
      BY <1>1 DEF DbInv
    <2>2. \A d \in Calls :
             /\ Unique(ins'[d]) /\ del'[d] \subseteq rows'
             /\ \A r \in ins'[d], s \in rows' : r.key = s.key => s \in del'[d]
      BY <1>1, <1>3, <1>4 DEF DbInv
    <2>3. \A d, e \in Calls : d # e =>
             /\ del'[d] \cap del'[e] = {}
             /\ \A r \in ins'[d], s \in ins'[e] : r.key # s.key
      BY <1>1, <1>5 DEF DbInv
    <2> QED
      BY <2>1, <2>2, <2>3 DEF DbInv, Unique
  <1> QED
    BY <1>1, <1>2, <1>6

\* INSERT of a row whose key the transaction does not see.
LEMMA InsertStep ==
    ASSUME NEW T, DbType(T), DbInv, NEW c \in Calls, NEW r \in T,
           ~Exists(c, r.key), Insert(c, r)
    PROVE  /\ DbType(T)' /\ DbInv'
           /\ ins'[c] = ins[c] \cup {r} /\ del'[c] = del[c]
           /\ \A d \in Calls : d # c => ins'[d] = ins[d] /\ del'[d] = del[d]
           /\ UNCHANGED rows
  <1> DEFINE old == {}
  <1>1. {r} \in SUBSET T /\ Unique({r}) /\ \A s \in {r}, v \in Visible(c) : s.key = v.key => v \in old
    BY DEF Unique, Exists
  <1>2. Write(c, old, {r})
    BY DEF Insert
  <1> HIDE DEF old
  <1>3. /\ DbType(T)' /\ DbInv'
        /\ ins'[c] = (ins[c] \ old) \cup {r}
        /\ del'[c] = del[c] \cup (old \cap rows)
        /\ \A d \in Calls : d # c => ins'[d] = ins[d] /\ del'[d] = del[d]
        /\ UNCHANGED rows
    BY <1>1, <1>2, WriteStep
  <1> QED
    BY <1>3 DEF old

\* INSERT ... ON CONFLICT DO UPDATE, or an UPDATE of the row of a key.
LEMMA UpsertStep ==
    ASSUME NEW T, DbType(T), DbInv, NEW c \in Calls, NEW r \in T, Upsert(c, r)
    PROVE  /\ DbType(T)' /\ DbInv'
           /\ ins'[c] = {s \in ins[c] : s.key # r.key} \cup {r}
           /\ del'[c] = del[c] \cup {s \in rows : s.key = r.key}
           /\ \A d \in Calls : d # c => ins'[d] = ins[d] /\ del'[d] = del[d]
           /\ UNCHANGED rows
  <1> DEFINE old == {s \in Visible(c) : s.key = r.key}
  <1>1. {r} \in SUBSET T /\ Unique({r}) /\ \A s \in {r}, v \in Visible(c) : s.key = v.key => v \in old
    BY DEF Unique
  <1>2. Write(c, old, {r})
    BY DEF Upsert
  <1> HIDE DEF old
  <1>3. /\ DbType(T)' /\ DbInv'
        /\ ins'[c] = (ins[c] \ old) \cup {r}
        /\ del'[c] = del[c] \cup (old \cap rows)
        /\ \A d \in Calls : d # c => ins'[d] = ins[d] /\ del'[d] = del[d]
        /\ UNCHANGED rows
    BY <1>1, <1>2, WriteStep
  <1>4. ins[c] \ old = {s \in ins[c] : s.key # r.key}
    BY DEF old, Visible
  <1>5. del[c] \cup (old \cap rows) = del[c] \cup {s \in rows : s.key = r.key}
    BY DEF old, Visible
  <1> QED
    BY <1>3, <1>4, <1>5

\* DELETE of the row of a key.
LEMMA DeleteStep ==
    ASSUME NEW T, DbType(T), DbInv, NEW c \in Calls, NEW k, Delete(c, k)
    PROVE  /\ DbType(T)' /\ DbInv'
           /\ ins'[c] = {s \in ins[c] : s.key # k}
           /\ del'[c] = del[c] \cup {s \in rows : s.key = k /\ s \in Visible(c)}
           /\ \A d \in Calls : d # c => ins'[d] = ins[d] /\ del'[d] = del[d]
           /\ UNCHANGED rows
  <1> DEFINE old == {s \in Visible(c) : s.key = k}
  <1>1. {} \in SUBSET T /\ Unique({}) /\ \A s \in {}, v \in Visible(c) : s.key = v.key => v \in old
    BY DEF Unique
  <1>2. Write(c, old, {})
    BY DEF Delete
  <1> HIDE DEF old
  <1>3. /\ DbType(T)' /\ DbInv'
        /\ ins'[c] = (ins[c] \ old) \cup {}
        /\ del'[c] = del[c] \cup (old \cap rows)
        /\ \A d \in Calls : d # c => ins'[d] = ins[d] /\ del'[d] = del[d]
        /\ UNCHANGED rows
    BY <1>1, <1>2, WriteStep
  <1>4. ins[c] \ old = {s \in ins[c] : s.key # k}
    BY DEF old, Visible
  <1>5. old \cap rows = {s \in rows : s.key = k /\ s \in Visible(c)}
    BY DEF old
  <1> QED
    BY <1>3, <1>4, <1>5

\* A commit puts a transaction's rows in place of those it replaced; what the
\* other open transactions have written and locked stands.
LEMMA CommitStep ==
    ASSUME NEW T, DbType(T), DbInv, NEW c \in Calls, Commit(c)
    PROVE  /\ DbType(T)' /\ DbInv'
           /\ rows' = (rows \ del[c]) \cup ins[c]
           /\ ins'[c] = {} /\ del'[c] = {}
           /\ \A d \in Calls : d # c => ins'[d] = ins[d] /\ del'[d] = del[d]
  <1>1. /\ rows' = (rows \ del[c]) \cup ins[c]
        /\ ins'[c] = {} /\ del'[c] = {}
        /\ \A d \in Calls : d # c => ins'[d] = ins[d] /\ del'[d] = del[d]
    BY DEF Commit, Visible, DbType
  <1>2. DbType(T)'
    BY <1>1 DEF Commit, DbType
  <1>3. Unique(rows')
    BY <1>1 DEF DbInv, Unique
  <1>4. ASSUME NEW d \in Calls
        PROVE  /\ Unique(ins'[d]) /\ del'[d] \subseteq rows'
               /\ \A r \in ins'[d], s \in rows' : r.key = s.key => s \in del'[d]
    <2>1. CASE d = c
      BY <1>1, <2>1 DEF Unique
    <2>2. CASE d # c
      BY <1>1, <2>2 DEF DbInv
    <2> QED
      BY <2>1, <2>2
  <1>5. \A d, e \in Calls : d # e =>
             /\ del'[d] \cap del'[e] = {}
             /\ \A r \in ins'[d], s \in ins'[e] : r.key # s.key
    BY <1>1 DEF DbInv
  <1> QED
    BY <1>1, <1>2, <1>3, <1>4, <1>5 DEF DbInv, Unique

\* A rollback takes a transaction's writes and locks back.
LEMMA RollbackStep ==
    ASSUME NEW T, DbType(T), DbInv, NEW c \in Calls, Rollback(c)
    PROVE  /\ DbType(T)' /\ DbInv'
           /\ UNCHANGED rows /\ ins'[c] = {} /\ del'[c] = {}
           /\ \A d \in Calls : d # c => ins'[d] = ins[d] /\ del'[d] = del[d]
  <1>1. /\ UNCHANGED rows /\ ins'[c] = {} /\ del'[c] = {}
        /\ \A d \in Calls : d # c => ins'[d] = ins[d] /\ del'[d] = del[d]
    BY DEF Rollback, DbType
  <1>2. DbType(T)'
    BY <1>1 DEF Rollback, DbType
  <1>3. DbInv'
    BY <1>1 DEF DbInv, Unique
  <1> QED
    BY <1>1, <1>2, <1>3

\* A step that leaves the database alone.
LEMMA IdleStep ==
    ASSUME NEW T, DbType(T), DbInv, UNCHANGED dbVars
    PROVE  DbType(T)' /\ DbInv'
  BY DEF dbVars, DbType, DbInv, Unique
=============================================================================
