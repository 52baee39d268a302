------------------------------- MODULE PgSqlite -------------------------------
(***************************************************************************)
(* pgsqliteplugin.js: the database of a page.  PGSQLiteHelper opens it,    *)
(* runs CREATE_BATCH on a new file or UPDATE_BATCH on an older one, and    *)
(* then writes PRAGMA user_version; PGSQLitePlugin sends the calls to the  *)
(* native side and keeps the registry openDBs, one for all its objects.    *)
(* The native side is not part of the repository: it is modelled as this   *)
(* script uses it, one call after the other, each transaction all or       *)
(* nothing, answers in the order of the calls.                             *)
(*                                                                         *)
(* The script holds two versions of the plugin; platform says which one    *)
(* the page got.  The process may be killed between any two steps.         *)
(***************************************************************************)
EXTENDS Naturals, Sequences, FiniteSets

CONSTANTS Helpers,      \* PGSQLiteHelper objects, all for the same file
          Version,      \* their DATABASE_VERSION
          MaxOpens,     \* openDatabase calls of a process (bound)
          MaxKills      \* times the process is killed (bound)

ASSUME PgAssumption == Version \in Nat \ {0} /\ MaxOpens \in Nat /\ MaxKills \in Nat

VARIABLES platform,     \* "android" or "ios"
          openDBs,      \* the registry's entry for the file
          at,           \* how far each helper is
          hasDb,        \* whether its field db is set
          calls,        \* calls the native side has yet to do, in order
          replies,      \* its answers the page has yet to handle, in order
          exists,       \* the file is there
          userVersion,  \* its PRAGMA user_version
          created,      \* CREATE_BATCH has been committed
          updated,      \* the UPDATE_BATCH entries that have been committed
          opens, kills  \* counters for the bounds

fileVars == <<exists, userVersion, created, updated>>
pgVars == <<platform, openDBs, at, hasDb, calls, replies, fileVars, opens, kills>>

(* The result of a native open: status 1 for a new file, and user_version. *)
OpenResults == [status : {0, 1}, version : 0 .. Version]

(* What openDBs holds besides: nothing, or "true" with no result in it. *)
NoEntry == [status |-> 2, version |-> 0]
TrueEntry == [status |-> 3, version |-> 0]

(***************************************************************************)
(* A helper that has told the page that its database is open is ready, or  *)
(* empty when it handed the page null for it; one that is failed has told  *)
(* of an error, or has thrown out of openDatabase.                         *)
(***************************************************************************)
Told == {"ready", "empty"}
AtRest == Told \cup {"idle", "failed"}
Stages == AtRest \cup {"opening", "batch", "pragma"}

PgTypeOK ==
    /\ platform \in {"android", "ios"}
    /\ openDBs \in {NoEntry, TrueEntry} \cup OpenResults
    /\ at \in [Helpers -> Stages] /\ hasDb \in [Helpers -> BOOLEAN]
    /\ \A i \in DOMAIN calls : calls[i].h \in Helpers
    /\ \A i \in DOMAIN replies : replies[i].h \in Helpers
    /\ exists \in BOOLEAN /\ created \in BOOLEAN
    /\ userVersion \in 0 .. Version
    /\ updated \subseteq 0 .. Version
    /\ opens \in 0 .. MaxOpens /\ kills \in 0 .. MaxKills

(* The device has no file yet, or one of an older version. *)
PgInit ==
    /\ platform \in {"android", "ios"}
    /\ openDBs = NoEntry
    /\ at = [h \in Helpers |-> "idle"] /\ hasDb = [h \in Helpers |-> FALSE]
    /\ calls = <<>> /\ replies = <<>>
    /\ exists \in BOOLEAN
    /\ userVersion \in IF exists THEN 1 .. Version ELSE {0}
    /\ created = exists
    /\ updated = {}
    /\ opens = 0 /\ kills = 0

Call(h, op, arg) == [h |-> h, op |-> op, arg |-> arg]
Send(call) == calls' = Append(calls, call)

-----------------------------------------------------------------------------
(* Plausible slips in the code below, each caught by a property. *)

(* The version is written before the batch has run. *)
BatchOfEarly(h, op, arg) ==
    /\ calls' = calls \o <<Call(h, "version", Version), Call(h, op, arg)>>
    /\ at' = [at EXCEPT ![h] = "batch"]

(* The page is told before the version is written. *)
AfterBatchReady(h) ==
    /\ at' = [at EXCEPT ![h] = "ready"]
    /\ Send(Call(h, "version", Version))

(* A removed file stays in the registry. *)
KeepEntry == openDBs

-----------------------------------------------------------------------------
(* PGSQLiteHelper *)

(* onCreate, and the transaction of onUpdate: one batch. *)
BatchOf(h, op, arg) ==
    /\ at' = [at EXCEPT ![h] = "batch"]
    /\ Send(Call(h, op, arg))

(* onUpdate: the batches from version - 1 on, but CREATE_BATCH for a file
   whose version - 1 is below 1. *)
OnUpdate(h, version) ==
    IF version <= 1 THEN BatchOf(h, "create", {})
                    ELSE BatchOf(h, "update", (version - 1) .. (Version - 2))

(* The function openDatabase gives to open, run with db set. *)
Opened(h, result) ==
    IF result.status = 1 THEN BatchOf(h, "create", {})
    ELSE IF result.version # Version THEN OnUpdate(h, result.version)
    ELSE at' = [at EXCEPT ![h] = "ready"] /\ UNCHANGED calls

(***************************************************************************)
(* The same function within the constructor, when db is still null: the    *)
(* batches throw on it, and a page whose file is current is handed it.  db *)
(* is set when the constructor returns, unless the page's function throws  *)
(* on what it is handed.                                                   *)
(***************************************************************************)
OpenedInside(h, result) ==
    /\ UNCHANGED calls
    /\ IF result.status = 1 \/ result.version # Version
       THEN at' = [at EXCEPT ![h] = "failed"] /\ UNCHANGED hasDb
       ELSE /\ at' = [at EXCEPT ![h] = "empty"]
            /\ \E returns \in BOOLEAN : hasDb' = [hasDb EXCEPT ![h] = returns]

(* The batch has succeeded: user_version is written (by onUpdate, too, when
   it ran CREATE_BATCH: the same value twice). *)
AfterBatch(h) ==
    /\ at' = [at EXCEPT ![h] = "pragma"]
    /\ Send(Call(h, "version", Version))

-----------------------------------------------------------------------------
(* PGSQLitePlugin *)

(***************************************************************************)
(* open: a registered file counts as opened, and the helper's function     *)
(* runs within the constructor.  On Android the registry has the result of *)
(* the open that was answered first; on iOS it has "true", which has no    *)
(* result, and the function throws on it.                                  *)
(***************************************************************************)
OpenDatabase(h) ==
    /\ opens < MaxOpens
    /\ at[h] \in AtRest
    /\ opens' = opens + 1
    /\ \/ /\ openDBs = NoEntry
          /\ openDBs' = IF platform = "ios" THEN TrueEntry ELSE NoEntry
          /\ at' = [at EXCEPT ![h] = "opening"]
          /\ hasDb' = [hasDb EXCEPT ![h] = TRUE]
          /\ Send(Call(h, "open", {}))
       \/ /\ openDBs = TrueEntry
          /\ at' = [at EXCEPT ![h] = "failed"]
          /\ UNCHANGED <<openDBs, hasDb, calls>>
       \/ /\ openDBs \in OpenResults
          /\ IF hasDb[h] THEN Opened(h, openDBs) /\ UNCHANGED hasDb ELSE OpenedInside(h, openDBs)
          /\ UNCHANGED openDBs
    /\ UNCHANGED <<platform, replies, fileVars, kills>>

(* close, through the helper's db *)
Close(h) ==
    /\ openDBs # NoEntry /\ hasDb[h] /\ at[h] \in Told \cup {"failed"}
    /\ openDBs' = NoEntry
    /\ at' = [at EXCEPT ![h] = "idle"]
    /\ Send(Call(h, "close", {}))
    /\ UNCHANGED <<platform, hasDb, replies, fileVars, opens, kills>>

(* The registry after remove. *)
Forget == NoEntry

(* remove: the page gives up its database. *)
RemoveDatabase(h) ==
    /\ \A k \in Helpers : at[k] \in AtRest
    /\ at[h] \in Told
    /\ openDBs' = Forget
    /\ at' = [k \in Helpers |-> "idle"]
    /\ Send(Call(h, "remove", {}))
    /\ UNCHANGED <<platform, hasDb, replies, fileVars, opens, kills>>

(* A transaction of the page through the helper's db (getDB, if it was
   handed null): fn fills executes, and complete() sends them as one batch;
   if fn throws nothing is sent. *)
Transaction(h) ==
    /\ at[h] \in Told /\ hasDb[h] /\ opens < MaxOpens
    /\ opens' = opens + 1
    /\ Send(Call(h, "rows", {}))
    /\ UNCHANGED <<platform, openDBs, at, hasDb, replies, fileVars, kills>>

-----------------------------------------------------------------------------
Reply(h, op, ok, result) ==
    replies' = Append(replies, [h |-> h, op |-> op, ok |-> ok, result |-> result])

NewFile == [status |-> IF exists THEN 0 ELSE 1, version |-> userVersion]

(* The native side does its next call; an open may fail, and a batch as a
   whole. *)
Native ==
    /\ calls # <<>>
    /\ calls' = Tail(calls)
    /\ LET c == Head(calls) IN
       \/ /\ c.op = "open"
          /\ \E ok \in BOOLEAN : exists' = (exists \/ ok) /\ Reply(c.h, "open", ok, NewFile)
          /\ UNCHANGED <<userVersion, created, updated>>
       \/ /\ c.op \in {"create", "update", "rows"}
          /\ \E ok \in BOOLEAN :
                /\ ok => exists
                /\ created' = (created \/ (ok /\ c.op = "create"))
                /\ updated' = IF ok /\ c.op = "update" THEN updated \cup c.arg ELSE updated
                /\ Reply(c.h, c.op, ok, NewFile)
          /\ UNCHANGED <<exists, userVersion>>
       \/ /\ c.op = "version"
          /\ userVersion' = IF exists THEN c.arg ELSE userVersion
          /\ Reply(c.h, "version", exists, NewFile)
          /\ UNCHANGED <<exists, created, updated>>
       \/ /\ c.op = "close"
          /\ UNCHANGED <<replies, fileVars>>
       \/ /\ c.op = "remove"
          /\ exists' = FALSE /\ userVersion' = 0 /\ created' = FALSE /\ updated' = {}
          /\ UNCHANGED replies
    /\ UNCHANGED <<platform, openDBs, at, hasDb, opens, kills>>

(* The page handles the next answer; an open that failed leaves on iOS the
   registry's "true". *)
Handle ==
    /\ replies # <<>>
    /\ replies' = Tail(replies)
    /\ LET r == Head(replies) IN
       \/ /\ r.op = "open"
          /\ IF r.ok
             THEN /\ openDBs' = IF platform = "android" THEN r.result ELSE openDBs
                  /\ Opened(r.h, r.result)
             ELSE at' = [at EXCEPT ![r.h] = "failed"] /\ UNCHANGED <<openDBs, calls>>
       \/ /\ r.op \in {"create", "update"}
          /\ IF r.ok THEN AfterBatch(r.h)
                     ELSE at' = [at EXCEPT ![r.h] = "failed"] /\ UNCHANGED calls
          /\ UNCHANGED openDBs
       \/ /\ r.op = "version"
          /\ at' = [at EXCEPT ![r.h] = IF r.ok THEN "ready" ELSE "failed"]
          /\ UNCHANGED <<openDBs, calls>>
       \/ r.op = "rows" /\ UNCHANGED <<openDBs, at, calls>>
    /\ UNCHANGED <<platform, hasDb, fileVars, opens, kills>>

(* The process is killed; the file stays as it is. *)
Kill ==
    /\ kills < MaxKills
    /\ kills' = kills + 1
    /\ openDBs' = NoEntry
    /\ at' = [h \in Helpers |-> "idle"] /\ hasDb' = [h \in Helpers |-> FALSE]
    /\ calls' = <<>> /\ replies' = <<>>
    /\ opens' = 0
    /\ UNCHANGED <<platform, fileVars>>

PgNext ==
    \/ \E h \in Helpers : OpenDatabase(h) \/ Close(h) \/ RemoveDatabase(h) \/ Transaction(h)
    \/ Native \/ Handle \/ Kill

PgSpec == PgInit /\ [][PgNext]_pgVars

-----------------------------------------------------------------------------
(***************************************************************************)
(* VersionIsTrue: user_version says 1 or more only of a file on which      *)
(* CREATE_BATCH has been committed, wherever the process was killed (the   *)
(* next start would take the tables for granted), and while a helper has   *)
(* told the page that its database is open the file has its version.  It   *)
(* does not say that the page was handed the database: see OpenedInside.   *)
(***************************************************************************)
VersionMeansCreated == userVersion >= 1 => exists /\ created

ReadyMeansCurrent == \A h \in Helpers : at[h] \in Told => userVersion = Version

VersionIsTrue == VersionMeansCreated /\ ReadyMeansCurrent
==============================================================================
