----------------------------- MODULE UnitOfWork -----------------------------
(***************************************************************************)
(* How a database session writes (backend/app/database.py: SessionLocal,   *)
(* autocommit and autoflush off, READ COMMITTED, no row is read for        *)
(* update).  A session keeps the rows it loaded, changes its own copies,   *)
(* and writes, when it is committed, the columns that differ from what it  *)
(* loaded.  A row that it flushed before stays locked until then, so       *)
(* commits of the same row come one after the other.                       *)
(***************************************************************************)

\* A defect: a session that writes back every column it loaded.
BadWrittenBack(inDatabase, loaded, new) == new

\* What a commit leaves in one column.
Written(inDatabase, loaded, new) == IF new = loaded THEN inDatabase ELSE new
=============================================================================
