----------------------------- MODULE Migration -----------------------------
(***************************************************************************)
(* Opening the database: internal/store/store.go (Open) and migrate.go.    *)
(*                                                                         *)
(* The file keeps user_version and the schema.  Version 1 is written by    *)
(* one transaction; version 2 by two statements on their own, each         *)
(* committed when it returns.  Any statement may fail, and the process may *)
(* die at any moment; what was committed stays.                            *)
(***************************************************************************)
EXTENDS Integers

VARIABLES version,   (* PRAGMA user_version                                *)
          tables,    (* schemaV1 is there: the tables and the main board   *)
          lastLogin, (* the column users.last_login is there               *)
          opening    (* where main's store.Open is                         *)

fileVars == <<version, tables, lastLogin>>
migrationVars == <<fileVars, opening>>

Steps == {"readVersion", "schema", "setV1", "commit", "alter", "setV2"}

MigrationTypeOK ==
    /\ version \in 0 .. 2
    /\ tables \in BOOLEAN /\ lastLogin \in BOOLEAN
    /\ opening \in Steps \union {"down", "serving"}

(* The file is new, or was left by a program of version 1 or 2. *)
MigrationInit ==
    /\ version \in 0 .. 2
    /\ tables = (version >= 1)
    /\ lastLogin = (version >= 2)
    /\ opening = "down"

At(from, to) == opening = from /\ opening' = to

(* main starts; Open configures the connection. *)
StartProcess ==
    /\ At("down", "readVersion")
    /\ UNCHANGED fileVars

ReadVersion ==
    /\ \/ version < 1 /\ At("readVersion", "schema")
       \/ version = 1 /\ At("readVersion", "alter")
       \/ version > 1 /\ At("readVersion", "serving")
    /\ UNCHANGED fileVars

(* CREATE TABLE IF NOT EXISTS, then the pragma, in a transaction. *)
ApplySchema == At("schema", "setV1") /\ UNCHANGED fileVars

SetVersion1 == At("setV1", "commit") /\ UNCHANGED fileVars

(* Mutant: the second migration is the else branch of the first one. *)
CommitSkipsV2 ==
    /\ At("commit", "serving")
    /\ version' = 1 /\ tables' = TRUE
    /\ UNCHANGED lastLogin

Commit ==
    /\ At("commit", "alter")
    /\ version' = 1 /\ tables' = TRUE
    /\ UNCHANGED lastLogin

AddColumn ==
    /\ At("alter", "setV2")
    /\ ~lastLogin
    /\ lastLogin' = TRUE
    /\ UNCHANGED <<version, tables>>

(* Mutant: the version is counted up, once per statement. *)
SetVersionCounted ==
    /\ At("setV2", "serving")
    /\ version' = version + 2
    /\ UNCHANGED <<tables, lastLogin>>

SetVersion2 ==
    /\ At("setV2", "serving")
    /\ version' = 2
    /\ UNCHANGED <<tables, lastLogin>>

(* "duplicate column name": Open fails, and main ends with log.Fatalf. *)
DuplicateColumn ==
    /\ At("alter", "down")
    /\ lastLogin
    /\ UNCHANGED fileVars

(* A statement fails, which rolls back, or the process dies. *)
StopProcess ==
    /\ opening # "down"
    /\ opening' = "down"
    /\ UNCHANGED fileVars

MigrationStep ==
    \/ StartProcess \/ ReadVersion
    \/ ApplySchema \/ SetVersion1 \/ Commit
    \/ AddColumn \/ SetVersion2 \/ DuplicateColumn

-----------------------------------------------------------------------------
(***************************************************************************)
(* A server that serves has the whole schema under it, whatever failed or  *)
(* died in earlier attempts to open the file (Open, migrate): newSession   *)
(* relies on the main board, every query of a user on last_login.          *)
(***************************************************************************)
ServingHasSchema ==
    opening = "serving" => version = 2 /\ tables /\ lastLogin

(***************************************************************************)
(* "Running migrate again shouldn't fail" (store_test.go:217): the column  *)
(* to be added is never there already.                                     *)
(***************************************************************************)
AlterSucceeds == opening = "alter" => ~lastLogin
=============================================================================
