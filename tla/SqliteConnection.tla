------------------------- MODULE SqliteConnection -------------------------
(***************************************************************************)
(* The one aiosqlite connection a storage object shares between all        *)
(* request coroutines (products/shared/src/base_storage.py).  A connection *)
(* is a record                                                             *)
(*   data  - what a SELECT on the connection sees,                         *)
(*   saved - what the database file holds after a crash,                   *)
(*   open  - whether a transaction is open.                                *)
(* Transactions belong to the connection, not to a coroutine: whoever      *)
(* calls commit() or rollback() ends the transaction of everybody.         *)
(* Statements run one at a time on aiosqlite's worker thread, so each      *)
(* operator below is one atomic step.                                      *)
(***************************************************************************)

Connection(D) == [data : D, saved : D, open : BOOLEAN]

\* connect(): nothing pending, the file is what is seen.
Connected(d) == [data |-> d, saved |-> d, open |-> FALSE]

\* Mutant: the statement never reaches the file.
ExecuteForgetful(c, d) == [c EXCEPT !.data = d]

\* A DML statement with isolation_level = None: durable at once unless an
\* explicit transaction is open.
ExecuteAutocommit(c, d) ==
    [c EXCEPT !.data = d, !.saved = IF c.open THEN @ ELSE d]

\* A DML statement with isolation_level = "": the driver opens a transaction
\* before it.
ExecuteImplicit(c, d) == [c EXCEPT !.data = d, !.open = TRUE]

\* BEGIN IMMEDIATE; "cannot start a transaction within a transaction" when
\* one is open already.
CanBegin(c) == ~c.open
Begin(c) == [c EXCEPT !.open = TRUE]

\* commit() and rollback() are no-ops when no transaction is open.
Commit(c) == Connected(c.data)
Rollback(c) == Connected(c.saved)

\* The process dies: an open transaction is rolled back by the WAL recovery.
Crash(c) == Connected(c.saved)

\* When no transaction is open there is nothing to lose.
Settled(c) == ~c.open => c.data = c.saved
============================================================================
