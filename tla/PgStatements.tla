----------------------------- MODULE PgStatements ------------------------------
(***************************************************************************)
(* pgsqliteplugin.js as an iPhone gets it: insert, del, update and query   *)
(* put an SQL text together, with a question mark for each value, and the  *)
(* values in a list beside it; a transaction collects what fn calls and    *)
(* sends it as one batch between BEGIN and COMMIT.                         *)
(*                                                                         *)
(* Of the text the model keeps the columns its marks stand for, in their   *)
(* order; columns of a query, grouping, ordering and limits are text.      *)
(* Callers give where and whereArgs together, an element for each mark.    *)
(* The database is external: marks take the values in order, a statement   *)
(* may fail, its batch ends there, and what was begun is then undone.      *)
(***************************************************************************)
EXTENDS Naturals, Sequences, FiniteSets

CONSTANTS Columns,      \* of the one table
          Values,       \* what the page writes to them
          Null,         \* a column nothing was written to
          MaxStatements,\* calls of the page (bound)
          MaxBatches    \* batches on their way to the database (bound)

ASSUME StatementAssumption == IsFiniteSet(Columns)

VARIABLES rows,         \* the table's (equal rows count once)
          executes,     \* what the open transaction has collected
          inside,       \* fn runs
          batches,      \* what was sent and has yet to run
          selected,        \* rows of the latest query
          wanted,       \* ghost: rows, as the calls that ran asked for them
          due,          \* ghost: what the latest query asked for
          issued          \* counter for the bound

statementVars == <<rows, executes, inside, batches, selected, wanted, due, issued>>

\* A call: values is the object of columns and values, where a list of columns.
Asked(op, values, where, whereArgs) ==
    [op |-> op, values |-> values, where |-> where, whereArgs |-> whereArgs]

NoValues == [c \in {} |-> Null]
ValueObjects == UNION {[C -> Values] : C \in SUBSET Columns}
Conditions == {<<>>} \cup {<<c>> : c \in Columns}

Calls ==
    {Asked("insert", values, <<>>, <<>>) : values \in ValueObjects}
    \cup (UNION {[op : {"update"}, values : ValueObjects,
                  where : {w}, whereArgs : [DOMAIN w -> Values]] : w \in Conditions})
    \cup (UNION {[op : {"del", "query"}, values : {NoValues},
                  where : {w}, whereArgs : [DOMAIN w -> Values]] : w \in Conditions})

-----------------------------------------------------------------------------
(* A plausible slip in the code below, caught by a property: the values of
   the condition come before those of the columns. *)
WhereFirst(call, keys) ==
    [op |-> "update", set |-> keys, where |-> call.where,
     args |-> call.whereArgs \o [i \in DOMAIN keys |-> call.values[keys[i]]]]

\* The keys of an object in an order for-in may take them.
ForIn(values) ==
    {keys \in [1 .. Cardinality(DOMAIN values) -> DOMAIN values] :
        \A i, j \in DOMAIN keys : keys[i] = keys[j] => i = j}

Insert(call, keys) ==
    [op |-> "insert", set |-> keys, where |-> <<>>,
     args |-> [i \in DOMAIN keys |-> call.values[keys[i]]]]

Del(call) == [op |-> "del", set |-> <<>>, where |-> call.where, args |-> call.whereArgs]

Update(call, keys) ==
    [op |-> "update", set |-> keys, where |-> call.where,
     args |-> [i \in DOMAIN keys |-> call.values[keys[i]]] \o call.whereArgs]

\* The values count only if there is a condition.
Query(call) ==
    [op |-> "query", set |-> <<>>, where |-> call.where,
     args |-> IF call.where = <<>> THEN <<>> ELSE call.whereArgs]

Compiled(call) ==
    CASE call.op = "insert" -> {Insert(call, keys) : keys \in ForIn(call.values)}
      [] call.op = "update" -> {Update(call, keys) : keys \in ForIn(call.values)}
      [] call.op = "del"    -> {Del(call)}
      [] call.op = "query"  -> {Query(call)}

Begin == [op |-> "BEGIN"]
Commit == [op |-> "COMMIT"]

\* complete: the statements as one batch.
Batch(statements) == <<Begin>> \o statements \o <<Commit>>

-----------------------------------------------------------------------------
(* The database, as this script relies on it. *)
Fits(row, where, args) == \A i \in DOMAIN where : row[where[i]] = args[i]

\* What a mark of SET or VALUES gives a column, or what it had.
Assigned(s, c, old) ==
    IF \E i \in DOMAIN s.set : s.set[i] = c
    THEN s.args[CHOOSE i \in DOMAIN s.set : s.set[i] = c] ELSE old

AfterSet(s) == SubSeq(s.args, Len(s.set) + 1, Len(s.args))

\* A list of no columns is no SQL, and each mark needs its value.
IsSql(s) ==
    s.op \in {"insert", "update", "del", "query"} =>
        /\ s.op \in {"insert", "update"} => s.set # <<>>
        /\ Len(s.args) = Len(s.set) + Len(s.where)

RowsAfter1(now, s) ==
    CASE s.op = "insert" -> now \cup {[c \in Columns |-> Assigned(s, c, Null)]}
      [] s.op = "update" -> {IF Fits(row, s.where, AfterSet(s))
                             THEN [c \in Columns |-> Assigned(s, c, row[c])] ELSE row : row \in now}
      [] s.op = "del" -> {row \in now : ~Fits(row, s.where, s.args)}
      [] OTHER -> now

\* db: the rows, those to go back to, and the latest answer.
RunOne(db, s) ==
    [now   |-> RowsAfter1(db.now, s),
     kept  |-> IF s.op = "BEGIN" THEN db.now ELSE db.kept,
     open  |-> (db.open \/ s.op = "BEGIN") /\ s.op # "COMMIT",
     selected |-> IF s.op = "query" THEN {row \in db.now : Fits(row, s.where, s.args)} ELSE db.selected]

\* The first n statements of a batch.
RunFirst(batch, n) ==
    LET db[i \in 0 .. n] ==
            IF i = 0 THEN [now |-> rows, kept |-> rows, open |-> FALSE, selected |-> selected]
                     ELSE RunOne(db[i - 1], batch[i])
    IN  db[n]

-----------------------------------------------------------------------------
(* What a call asks for, without statements. *)
FitsCall(row, call) == Fits(row, call.where, call.whereArgs)

Meant(now, call) ==
    CASE call.op = "insert" -> now \cup {[c \in Columns |->
                                 IF c \in DOMAIN call.values THEN call.values[c] ELSE Null]}
      [] call.op = "update" -> {IF FitsCall(row, call)
                                THEN [c \in Columns |-> IF c \in DOMAIN call.values
                                                        THEN call.values[c] ELSE row[c]]
                                ELSE row : row \in now}
      [] call.op = "del" -> {row \in now : ~FitsCall(row, call)}
      [] OTHER -> now

\* An insert or update of nothing is an error, and with it the batch.
IsMeant(call) == call.op \in {"insert", "update"} => DOMAIN call.values # {}

MeantByAll(requests) ==
    LET db[i \in 0 .. Len(requests)] ==
            IF i = 0 THEN [now |-> wanted, selected |-> due]
            ELSE [now |-> Meant(db[i - 1].now, requests[i]),
                  selected |-> IF requests[i].op = "query"
                            THEN {row \in db[i - 1].now : FitsCall(row, requests[i])}
                            ELSE db[i - 1].selected]
    IN  db[Len(requests)]

-----------------------------------------------------------------------------
SomeRows == {r \in [Columns -> Values] : \A c, d \in Columns : c # d => r[c] # r[d]}

StatementInit ==
    /\ rows = SomeRows /\ wanted = SomeRows
    /\ executes = <<>> /\ inside = FALSE
    /\ batches = <<>>
    /\ selected = {} /\ due = {}
    /\ issued = 0

Post(statements, requests) ==
    /\ Len(batches) < MaxBatches
    /\ batches' = Append(batches, [statements |-> statements, requests |-> requests])

\* executeSql of a call by itself.
ExecuteSql(call) ==
    /\ ~inside /\ issued < MaxStatements
    /\ issued' = issued + 1
    /\ \E s \in Compiled(call) : Post(<<s>>, <<call>>)
    /\ UNCHANGED <<rows, executes, inside, selected, wanted, due>>

\* transaction: a PGSQLitePluginTransaction of its own, and fn is called.
TransactionBegins ==
    /\ ~inside /\ issued < MaxStatements
    /\ inside' = TRUE /\ executes' = <<>>
    /\ UNCHANGED <<rows, batches, selected, wanted, due, issued>>

\* A method of the transaction: the compiled statement waits.
Collect(call) ==
    /\ inside /\ issued < MaxStatements
    /\ issued' = issued + 1
    /\ \E s \in Compiled(call) : executes' = Append(executes, [s |-> s, call |-> call])
    /\ UNCHANGED <<rows, inside, batches, selected, wanted, due>>

\* fn returns: complete.
Complete ==
    /\ inside
    /\ inside' = FALSE /\ executes' = <<>>
    /\ Post(Batch([i \in DOMAIN executes |-> executes[i].s]),
            [i \in DOMAIN executes |-> executes[i].call])
    /\ UNCHANGED <<rows, selected, wanted, due, issued>>

\* fn throws: nothing is sent.
FnThrows ==
    /\ inside
    /\ inside' = FALSE /\ executes' = <<>>
    /\ UNCHANGED <<rows, batches, selected, wanted, due, issued>>

\* The native side runs a batch up to its end or to a statement that fails.
RunBatch ==
    /\ batches # <<>>
    /\ batches' = Tail(batches)
    /\ LET batch == Head(batches)
           size  == Len(batch.statements)
           legal == {n \in 0 .. size : \A i \in 1 .. n : IsSql(batch.statements[i])}
       IN \E n \in legal :
           LET db == RunFirst(batch.statements, n) IN
           /\ rows' = IF db.open THEN db.kept ELSE db.now
           /\ selected' = IF n = size THEN db.selected ELSE {}
           /\ IF n = size /\ \A i \in DOMAIN batch.requests : IsMeant(batch.requests[i])
              THEN /\ wanted' = MeantByAll(batch.requests).now
                   /\ due' = MeantByAll(batch.requests).selected
              ELSE due' = {} /\ UNCHANGED wanted
    /\ UNCHANGED <<executes, inside, issued>>

StatementNext ==
    \/ \E call \in Calls : ExecuteSql(call) \/ Collect(call)
    \/ TransactionBegins \/ Complete \/ FnThrows \/ RunBatch

StatementSpec == StatementInit /\ [][StatementNext]_statementVars

-----------------------------------------------------------------------------
StatementTypeOK ==
    /\ rows \subseteq [Columns -> Values \cup {Null}]
    /\ selected \subseteq [Columns -> Values \cup {Null}]
    /\ inside \in BOOLEAN /\ issued \in 0 .. MaxStatements
    /\ ~inside => executes = <<>>

(***************************************************************************)
(* TableAsAsked: through marks, lists of values and batches the table gets *)
(* what the calls say, column by column, and a query the rows it names; a  *)
(* transaction, or an insert of nothing in one, that fails half way leaves *)
(* no trace.                                                               *)
(***************************************************************************)
TableAsAsked == rows = wanted /\ selected = due
=============================================================================
