------------------------------- MODULE Sqlite -------------------------------
(***************************************************************************)
(* The wrappers z::Sqlite of a connection and z::SqliteStmt of a prepared  *)
(* statement, zpp/sqlite3.h, over the connections and statements of SQLite.*)
(* A SqliteStmt keeps a copy of the connection it was prepared with, which *)
(* Bind reads when it fails.  The objects end in any order.                *)
(*                                                                         *)
(*   Careful = FALSE  the classes: any sequence of calls.                  *)
(*   Careful = TRUE   a hypothesis on the callers: one Prepare for each    *)
(*                    SqliteStmt that has a statement, and Bind only then. *)
(***************************************************************************)
EXTENDS Integers, FiniteSets

CONSTANTS Dbs, Stmts,       \* the wrapper objects
          Conns, Handles,   \* the connections and statements SQLite makes
          NoHandle,         \* NULL
          Careful

ASSUME SqliteAssumption == NoHandle \notin Conns \cup Handles /\ Careful \in BOOLEAN

VARIABLES
    db,         \* db[d]: the connection of a Sqlite
    opened,     \* the connections SQLite has not freed
    broken,     \* those whose sqlite3_open_v2 said an error
    zombies,    \* those closed while they had statements
    sdb, stmt,  \* sdb[s], stmt[s]: the members db and stmt of a SqliteStmt
    conn,       \* conn[h]: the connection of a statement, NoHandle if h is free
    busy,       \* the statements stepped and not reset
    staleRead   \* Bind has read a connection that SQLite had freed

sqliteVars == <<db, opened, broken, zombies, sdb, stmt, conn, busy, staleRead>>

StatementsOf(c) == {h \in Handles : conn[h] = c}

SqliteInit ==
    /\ db = [d \in Dbs |-> NoHandle]
    /\ opened = {} /\ broken = {} /\ zombies = {}
    /\ sdb = [s \in Stmts |-> NoHandle]
    /\ stmt = [s \in Stmts |-> NoHandle]
    /\ conn = [h \in Handles |-> NoHandle]
    /\ busy = {}
    /\ staleRead = FALSE

-----------------------------------------------------------------------------
(* Mutants *)

MutClose(d) ==                  \* sqlite3_close, which refuses with statements
    /\ db[d] # NoHandle
    /\ opened' = IF StatementsOf(db[d]) = {} THEN opened \ {db[d]} ELSE opened
    /\ db' = [db EXCEPT ![d] = NoHandle]
    /\ UNCHANGED <<broken, zombies, sdb, stmt, conn, busy, staleRead>>

-----------------------------------------------------------------------------
(* Sqlite *)

\* sqlite3_open_v2 gives a connection, to be closed, with most errors as well.
Open(d, c) ==
    /\ db[d] = NoHandle
    /\ c \notin opened \cup {sdb[s] : s \in Stmts}
    /\ db' = [db EXCEPT ![d] = c]
    /\ opened' = opened \cup {c}
    /\ broken' \in {broken \ {c}, broken \cup {c}}
    /\ UNCHANGED <<zombies, sdb, stmt, conn, busy, staleRead>>

\* Close and ~Sqlite: sqlite3_close_v2 leaves a connection that still has
\* statements to the last of them.
Close(d) ==
    /\ db[d] # NoHandle
    /\ IF StatementsOf(db[d]) = {}
       THEN opened' = opened \ {db[d]} /\ UNCHANGED zombies
       ELSE zombies' = zombies \cup {db[d]} /\ UNCHANGED opened
    /\ db' = [db EXCEPT ![d] = NoHandle]
    /\ UNCHANGED <<broken, sdb, stmt, conn, busy, staleRead>>

-----------------------------------------------------------------------------
(* SqliteStmt *)

MayPrepare(s) == Careful => stmt[s] = NoHandle

\* No connection, or no text: the statement stays, its db does not.
PrepareRefused(s, d) ==
    /\ MayPrepare(s)
    /\ sdb' = [sdb EXCEPT ![s] = db[d]]
    /\ UNCHANGED <<db, opened, broken, zombies, stmt, conn, busy, staleRead>>

\* sqlite3_prepare_v3 with an error, or of a text without a statement, for
\* which Prepare says ZEOK.
PrepareNone(s, d) ==
    /\ MayPrepare(s) /\ db[d] # NoHandle
    /\ sdb' = [sdb EXCEPT ![s] = db[d]]
    /\ stmt' = [stmt EXCEPT ![s] = NoHandle]
    /\ UNCHANGED <<db, opened, broken, zombies, conn, busy, staleRead>>

Prepare(s, d, h) ==
    /\ MayPrepare(s) /\ db[d] # NoHandle /\ db[d] \notin broken
    /\ conn[h] = NoHandle /\ \A t \in Stmts : stmt[t] # h
    /\ sdb' = [sdb EXCEPT ![s] = db[d]]
    /\ stmt' = [stmt EXCEPT ![s] = h]
    /\ conn' = [conn EXCEPT ![h] = db[d]]
    /\ UNCHANGED <<db, opened, broken, zombies, busy, staleRead>>

\* Bind: sqlite3_bind refuses a NULL or busy statement and a wrong index.
BindFails(s) ==
    /\ Careful => stmt[s] # NoHandle
    /\ staleRead' = (staleRead \/ sdb[s] \notin opened)
    /\ UNCHANGED <<db, opened, broken, zombies, sdb, stmt, conn, busy>>

Step(s) ==
    /\ stmt[s] # NoHandle
    /\ busy' = busy \cup {stmt[s]}
    /\ UNCHANGED <<db, opened, broken, zombies, sdb, stmt, conn, staleRead>>

Reset(s) ==
    /\ stmt[s] # NoHandle
    /\ busy' = busy \ {stmt[s]}
    /\ UNCHANGED <<db, opened, broken, zombies, sdb, stmt, conn, staleRead>>

\* ~SqliteStmt: sqlite3_finalize, which frees a connection it was the last of.
EndStmt(s) ==
    LET c == IF stmt[s] = NoHandle THEN NoHandle ELSE conn[stmt[s]]
        freed == {c} \cap zombies IN
    /\ sdb' = [sdb EXCEPT ![s] = NoHandle]
    /\ stmt' = [stmt EXCEPT ![s] = NoHandle]
    /\ conn' = [h \in Handles |-> IF h = stmt[s] THEN NoHandle ELSE conn[h]]
    /\ busy' = busy \ {stmt[s]}
    /\ IF c # NoHandle /\ StatementsOf(c) = {stmt[s]}
       THEN opened' = opened \ freed /\ zombies' = zombies \ freed
       ELSE UNCHANGED <<opened, zombies>>
    /\ UNCHANGED <<db, broken, staleRead>>

-----------------------------------------------------------------------------
SqliteNext ==
    \/ \E d \in Dbs : Close(d) \/ \E c \in Conns : Open(d, c)
    \/ \E s \in Stmts :
          \/ BindFails(s) \/ Step(s) \/ Reset(s) \/ EndStmt(s)
          \/ \E d \in Dbs : \/ PrepareRefused(s, d) \/ PrepareNone(s, d)
                            \/ \E h \in Handles : Prepare(s, d, h)

SqliteSpec == SqliteInit /\ [][SqliteNext]_sqliteVars

-----------------------------------------------------------------------------
(* Properties *)

\* Whatever the order in which connections are closed and statements end,
\* what SQLite has not freed is still led to by a wrapper that will free it,
\* and the connection that a failing Bind asks for its message exists.
HandlesKept ==
    /\ \A h \in Handles : conn[h] # NoHandle => \E s \in Stmts : stmt[s] = h
    /\ \A c \in opened : \/ \E d \in Dbs : db[d] = c
                         \/ c \in zombies /\ StatementsOf(c) # {}
    /\ \A d \in Dbs : db[d] # NoHandle => db[d] \in opened \ zombies
    /\ ~staleRead
=============================================================================
