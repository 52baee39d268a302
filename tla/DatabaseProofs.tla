---------------------------- MODULE DatabaseProofs ----------------------------
(***************************************************************************)
(* Proofs about the ways to a database: the application's pool of objects  *)
(* and its helper for reads and writes (Pool, SQLiteHelper), for every set *)
(* of readers and writers, every MaxSize and every nesting of reads; a     *)
(* page's opening of its database (PgSqlite), for any helpers, version,    *)
(* and number of openings and kills; and a page's statements and           *)
(* transactions (PgStatements), for any columns, values and calls.         *)
(*                                                                         *)
(* The pool's inductive invariant is the conjunction of the type invariant *)
(* with exclusive lending, the agreement of the marks with the loans, and  *)
(* the absence of lost wake-ups.  Seen through the pool's variables a step *)
(* of the helper is a step of the pool or none, so that invariant carries  *)
(* over; on top of it, a reader inside the wait keeps everybody else out.  *)
(***************************************************************************)
EXTENDS SQLiteHelper, PgSqlite, PgStatements,
        FiniteSetTheorems, SequenceTheorems, NumberInduction, TLAPS

PoolInv ==
    /\ TypeOK
    /\ ExclusiveLending
    /\ MarksMatchLoans
    /\ NoLostWakeup

(***************************************************************************)
(* FullWhenNoneFree: when use() finds no free object and may not create    *)
(* one, sets.size() >= maxSize holds, so the path of Pool.java that skips  *)
(* the wait (line 47 false) cannot be taken.                               *)
(***************************************************************************)
THEOREM FullWhenNoneFree ==
    ASSUME TypeOK, Free = {}, ~MayMake
    PROVE  Cardinality(sets) >= MaxSize
<1>1. sets = 1 .. lists
  BY DEF TypeOK, Free, Objects
<1>2. lists \in Nat /\ 1 \in Nat
  BY PoolAssumption DEF TypeOK
<1>3. Cardinality(1 .. lists) = IF 1 > lists THEN 0 ELSE lists - 1 + 1
  BY <1>2, FS_Interval
<1>4. QED
  BY <1>1, <1>2, <1>3, PoolAssumption DEF MayMake

(* Waking waiters, and nothing else, preserves the invariant. *)
LEMMA PcStepKeepsInv ==
    ASSUME PoolInv, UNCHANGED <<lists, sets, held>>,
           pc' \in [Threads -> Place],
           \A u \in Threads : pc'[u] = "waiting" => pc[u] = "waiting" \/ Free = {}
    PROVE  PoolInv'
BY DEF PoolInv, TypeOK, ExclusiveLending, MarksMatchLoans, NoLostWakeup, Free, Objects

(* Lending a free object: nobody had it, and nobody waits while it is free. *)
LEMMA TakeFreeKeepsInv ==
    ASSUME PoolInv, NEW t \in Threads, TakeFree(t)
    PROVE  PoolInv'
<1>1. PICK h \in Objects : FirstFree(h) /\ HandOut(t, h) /\ UNCHANGED lists
  BY DEF TakeFree
<1>2. h \notin sets /\ Free # {}
  BY <1>1 DEF FirstFree, Free
<1>3. \A u \in Threads : h \notin held[u] /\ pc[u] # "waiting"
  BY <1>2 DEF PoolInv, MarksMatchLoans, NoLostWakeup
<1> USE <1>1 DEF PoolInv, TypeOK, HandOut
<1>4. TypeOK'
  BY DEF Objects, Place
<1>5. ExclusiveLending'
  BY <1>3 DEF ExclusiveLending
<1>6. MarksMatchLoans'
  BY DEF MarksMatchLoans
<1>7. NoLostWakeup'
  BY <1>3 DEF NoLostWakeup
<1> QED
  BY <1>4, <1>5, <1>6, <1>7

(* Creating an object and lending it: its number is new to every thread. *)
LEMMA MakeKeepsInv ==
    ASSUME PoolInv, NEW t \in Threads, Make(t)
    PROVE  PoolInv'
<1> DEFINE h == lists + 1
<1>1. HandOut(t, h) /\ lists' = lists + 1 /\ lists <= MaxSize /\ Free = {}
  BY DEF Make, MayMake
<1>2. lists \in Nat /\ h \notin sets
  BY PoolAssumption DEF PoolInv, TypeOK, Objects
<1>3. TypeOK'
  BY <1>1, <1>2, PoolAssumption DEF PoolInv, TypeOK, Objects, HandOut, Place
<1>4. \A u \in Threads : h \notin held[u]
  BY <1>2 DEF PoolInv, MarksMatchLoans
<1>5. ExclusiveLending'
  BY <1>1, <1>4 DEF PoolInv, TypeOK, ExclusiveLending, HandOut
<1>6. MarksMatchLoans'
  BY <1>1 DEF PoolInv, TypeOK, MarksMatchLoans, HandOut
<1>7. Free' = {}
  BY <1>1, <1>2 DEF Free, Objects, HandOut
<1> QED
  BY <1>3, <1>5, <1>6, <1>7 DEF PoolInv, NoLostWakeup

(* PoolInvInductive: one step of one thread keeps the invariant. *)
LEMMA PoolInvInductive == PoolInv /\ [Next]_poolVars => PoolInv'
<1> SUFFICES ASSUME PoolInv, [Next]_poolVars PROVE PoolInv'
  OBVIOUS
<1>1. CASE UNCHANGED poolVars
  BY <1>1, PcStepKeepsInv DEF poolVars, PoolInv, TypeOK
<1>2. ASSUME NEW t \in Threads, Use(t) PROVE PoolInv'
  <2>1. CASE TakeFree(t)
    BY <2>1, TakeFreeKeepsInv
  <2>2. CASE Make(t)
    BY <2>2, MakeKeepsInv
  <2>3. CASE Block(t)
    BY <2>3, PcStepKeepsInv DEF Block, PoolInv, TypeOK, Place
  <2> QED
    BY <1>2, <2>1, <2>2, <2>3 DEF Use
<1>3. ASSUME NEW t \in Threads, Rescan(t) PROVE PoolInv'
  <2>1. CASE TakeFree(t)
    BY <2>1, TakeFreeKeepsInv
  <2>2. CASE FindNothing(t)
    BY <2>2, PcStepKeepsInv DEF FindNothing, PoolInv, TypeOK, Place
  <2> QED
    BY <1>3, <2>1, <2>2 DEF Rescan
<1>4. ASSUME NEW t \in Threads, WakeAnyway(t) PROVE PoolInv'
  BY <1>4, PcStepKeepsInv DEF WakeAnyway, PoolInv, TypeOK, Place
<1>5. ASSUME NEW t \in Threads, NEW h \in held[t], Unuse(t, h) PROVE PoolInv'
  <2> USE <1>5 DEF Unuse, PoolInv
  <2>1. TypeOK'
    BY DEF TypeOK, Objects, NotifyAll, Place
  <2>2. ExclusiveLending'
    BY DEF TypeOK, ExclusiveLending
  <2>3. MarksMatchLoans'
    <3>1. \A u \in Threads : u # t => h \notin held[u]
      BY DEF ExclusiveLending
    <3>2. \A u \in Threads : held'[u] = IF u = t THEN held[t] \ {h} ELSE held[u]
      BY DEF TypeOK
    <3> QED
      BY <3>1, <3>2 DEF TypeOK, MarksMatchLoans
  <2>4. NoLostWakeup'
    BY DEF NoLostWakeup, NotifyAll
  <2> QED
    BY <2>1, <2>2, <2>3, <2>4
<1>6. ASSUME NEW t \in Threads, UnuseNull(t) PROVE PoolInv'
  BY <1>6, PcStepKeepsInv DEF UnuseNull, NotifyAll, PoolInv, TypeOK, Place
<1> QED
  BY <1>1, <1>2, <1>3, <1>4, <1>5, <1>6 DEF Next

LEMMA PoolInvInit == Init => PoolInv
BY PoolAssumption DEF Init, PoolInv, TypeOK, Objects, Place, ExclusiveLending,
   MarksMatchLoans, NoLostWakeup

LEMMA PoolInvHolds == Spec => []PoolInv
BY PoolInvInit, PoolInvInductive, PTL DEF Spec

(***************************************************************************)
(* PoolTypeCorrect: the state of the pool stays well formed; in particular *)
(* at most maxSize + 1 objects are ever created.                           *)
(***************************************************************************)
THEOREM PoolTypeCorrect == Spec => []TypeOK
<1>1. PoolInv => TypeOK
  BY DEF PoolInv
<1> QED
  BY <1>1, PoolInvHolds, PTL

(***************************************************************************)
(* PoolLendsExclusively: no interleaving of use(), unuse(), waits and      *)
(* wake-ups puts one object in the hands of two threads.                   *)
(***************************************************************************)
THEOREM PoolLendsExclusively == Spec => []ExclusiveLending
<1>1. PoolInv => ExclusiveLending
  BY DEF PoolInv
<1> QED
  BY <1>1, PoolInvHolds, PTL

(***************************************************************************)
(* PoolMarksAccurate: sets is exactly what is on loan, so no object leaks. *)
(***************************************************************************)
THEOREM PoolMarksAccurate == Spec => []MarksMatchLoans
<1>1. PoolInv => MarksMatchLoans
  BY DEF PoolInv
<1> QED
  BY <1>1, PoolInvHolds, PTL

(***************************************************************************)
(* PoolNoLostWakeup: no thread stays in the wait set beside a free object. *)
(***************************************************************************)
THEOREM PoolNoLostWakeup == Spec => []NoLostWakeup
<1>1. PoolInv => NoLostWakeup
  BY DEF PoolInv
<1> QED
  BY <1>1, PoolInvHolds, PTL
-----------------------------------------------------------------------------
(***************************************************************************)
(* PoolImplementsLending: the pool implements module Lending.  Creating or *)
(* finding an object and lending it is Take, unuse() is GiveBack, and      *)
(* waiting, waking and returning null are stuttering steps.                *)
(***************************************************************************)
LEMMA LoanOf ==
    ASSUME NEW t \in Threads, NEW h \in Things
    PROVE  <<t, h>> \in loans <=> h \in held[t]
BY DEF loans

LEMMA SamePairs ==
    ASSUME NEW A \in SUBSET (Threads \X Things), NEW B \in SUBSET (Threads \X Things),
           \A u \in Threads, g \in Things : <<u, g>> \in A <=> <<u, g>> \in B
    PROVE  A = B
OBVIOUS

LEMMA HandOutIsTake ==
    ASSUME PoolInv, PoolInv', NEW t \in Threads, NEW h \in Things,
           \A u \in Threads : h \notin held[u], HandOut(t, h)
    PROVE  Lend!Take(t, h)
<1>1. \A u \in Threads : <<u, h>> \notin loans
  BY LoanOf
<1>2. \A u \in Threads : held'[u] = IF u = t THEN held[u] \cup {h} ELSE held[u]
  BY DEF HandOut, PoolInv, TypeOK
<1>3. loans' = loans \cup {<<t, h>>}
  <2>1. \A u \in Threads, g \in Things :
           <<u, g>> \in loans' <=> <<u, g>> \in loans \cup {<<t, h>>}
    BY <1>2 DEF loans
  <2>2. /\ loans' \in SUBSET (Threads \X Things)
        /\ loans \cup {<<t, h>>} \in SUBSET (Threads \X Things)
    BY DEF loans
  <2> QED
    BY <2>1, <2>2, SamePairs
<1> QED
  BY <1>1, <1>3 DEF Lend!Take

THEOREM PoolImplementsLending == Spec => LendingSpec
<1>1. Init => Lend!Init
  BY DEF Init, Lend!Init, loans
<1>2. PoolInv /\ PoolInv' /\ [Next]_poolVars => [Lend!Next]_loans
  <2> SUFFICES ASSUME PoolInv, PoolInv', [Next]_poolVars
               PROVE  Lend!Next \/ UNCHANGED loans
    OBVIOUS
  <2>1. CASE UNCHANGED held
    BY <2>1 DEF loans
  <2>2. ASSUME NEW t \in Threads, TakeFree(t) PROVE Lend!Next
    <3>1. PICK h \in Objects : FirstFree(h) /\ HandOut(t, h)
      BY <2>2 DEF TakeFree
    <3>2. h \in Things /\ \A u \in Threads : h \notin held[u]
      BY <3>1, PoolAssumption
      DEF FirstFree, Free, Objects, Things, PoolInv, TypeOK, MarksMatchLoans
    <3> QED
      BY <3>1, <3>2, HandOutIsTake DEF Lend!Next
  <2>3. ASSUME NEW t \in Threads, Make(t) PROVE Lend!Next
    <3>1. HandOut(t, lists + 1) /\ lists <= MaxSize
      BY <2>3 DEF Make, MayMake
    <3>2. lists + 1 \in Things
      BY <3>1, PoolAssumption DEF PoolInv, TypeOK, Things
    <3>3. \A u \in Threads : lists + 1 \notin held[u]
      BY <3>2, PoolAssumption DEF PoolInv, TypeOK, Objects, Things
    <3> QED
      BY <3>1, <3>2, <3>3, HandOutIsTake DEF Lend!Next
  <2>4. ASSUME NEW t \in Threads, NEW h \in held[t], Unuse(t, h) PROVE Lend!Next
    <3>1. <<t, h>> \in loans /\ h \in Things
      BY PoolAssumption, LoanOf DEF PoolInv, TypeOK, Objects, Things
    <3>2. \A u \in Threads :
             held'[u] = IF u = t THEN held[u] \ {h} ELSE held[u]
      BY <2>4 DEF Unuse, PoolInv, TypeOK
    <3>3. loans' = loans \ {<<t, h>>}
      <4>1. \A u \in Threads, g \in Things :
               <<u, g>> \in loans' <=> <<u, g>> \in loans \ {<<t, h>>}
        BY <3>2 DEF loans
      <4>2. /\ loans' \in SUBSET (Threads \X Things)
            /\ loans \ {<<t, h>>} \in SUBSET (Threads \X Things)
        BY DEF loans
      <4> QED
        BY <4>1, <4>2, SamePairs
    <3> QED
      BY <3>1, <3>3 DEF Lend!Next, Lend!GiveBack
  <2> QED
    BY <2>1, <2>2, <2>3, <2>4
    DEF Next, Use, Rescan, Block, FindNothing, WakeAnyway, UnuseNull, poolVars
<1> QED
  BY <1>1, <1>2, PoolInvHolds, PTL DEF Spec, LendingSpec, Lend!Spec

-----------------------------------------------------------------------------
(* The helper. *)

HelperInv == PoolInv /\ HelperTypeOK /\ WaiterIsAlone

LEMMA HelperStepIsPoolStep == [HelperNext]_vars => [Next]_poolVars
BY DEF HelperNext, vars, poolVars, Next, GetReadable, FinishGetReadable,
   WakeAnywayInside, ReleaseReadable, ReleaseNull, AskWritable, GetWritable

LEMMA HelperInvInductive == HelperInv /\ [HelperNext]_vars => HelperInv'
<1> SUFFICES ASSUME HelperInv, [HelperNext]_vars PROVE HelperInv'
  OBVIOUS
<1> USE HelperAssumption
<1>1. PoolInv'
  BY HelperStepIsPoolStep, PoolInvInductive DEF HelperInv
<1>2. TypeOK /\ TypeOK'
  BY <1>1 DEF HelperInv, PoolInv
<1>3. CASE UNCHANGED vars
  BY <1>3 DEF vars, HelperInv, PoolInv, HelperTypeOK, WaiterIsAlone, TypeOK,
     ExclusiveLending, MarksMatchLoans, NoLostWakeup, Free, Objects
<1>4. ASSUME NEW t \in Threads, GetReadable(t) PROVE HelperInv'
  <2> USE <1>4 DEF GetReadable, HelperInv
  <2>1. \A u \in Threads : u # t => pc'[u] = pc[u]
    BY <1>2 DEF Use, TakeFree, Make, HandOut, Block, TypeOK
  <2>2. \A u \in Threads : pc[u] \notin {"waiting", "woken"}
    BY DEF WaiterIsAlone
  <2>3. CASE pc'[t] = "waiting"
    <3>1. Free' = {}
      BY <2>3, <1>2 DEF Use, TakeFree, Make, HandOut, Block, TypeOK, Free, Objects
    <3> QED
      BY <1>1, <1>2, <2>1, <2>2, <2>3, <3>1 DEF WaiterIsAlone, HelperTypeOK
  <2>4. CASE pc'[t] # "waiting"
    <3>1. pc'[t] = "ready"
      BY <2>4, <1>2 DEF Use, TakeFree, Make, HandOut, Block, TypeOK
    <3> QED
      BY <1>1, <1>2, <2>1, <2>2, <2>4, <3>1 DEF WaiterIsAlone, HelperTypeOK
  <2> QED
    BY <2>3, <2>4
<1>5. ASSUME NEW t \in Threads, FinishGetReadable(t) PROVE HelperInv'
  <2> USE <1>5 DEF FinishGetReadable, HelperInv
  <2>1. /\ pc'[t] \in {"ready", "null"}
        /\ \A u \in Threads : u # t => pc'[u] = pc[u]
    BY <1>2 DEF Rescan, TakeFree, HandOut, FindNothing, TypeOK
  <2> QED
    BY <1>1, <1>2, <2>1 DEF WaiterIsAlone, HelperTypeOK
<1>6. ASSUME NEW t \in Threads, WakeAnywayInside(t) PROVE HelperInv'
  BY <1>1, <1>2, <1>6
  DEF WakeAnywayInside, WakeAnyway, HelperInv, WaiterIsAlone, HelperTypeOK,
      TypeOK, Free, Objects
<1>7. ASSUME NEW t \in Threads, NEW h \in held[t], ReleaseReadable(t, h)
      PROVE  HelperInv'
  BY <1>1, <1>2, <1>7
  DEF ReleaseReadable, Unuse, NotifyAll, HelperInv, WaiterIsAlone,
      HelperTypeOK, TypeOK
<1>8. ASSUME NEW t \in Threads, ReleaseNull(t) PROVE HelperInv'
  BY <1>1, <1>2, <1>8
  DEF ReleaseNull, UnuseNull, NotifyAll, HelperInv, WaiterIsAlone,
      HelperTypeOK, TypeOK
<1>9. ASSUME NEW w \in Writers, AskWritable(w) \/ GetWritable(w) PROVE HelperInv'
  BY <1>1, <1>2, <1>9
  DEF AskWritable, GetWritable, HelperInv, WaiterIsAlone, HelperTypeOK,
      Free, Objects
<1> QED
  BY <1>3, <1>4, <1>5, <1>6, <1>7, <1>8, <1>9 DEF HelperNext

LEMMA HelperInvHolds == HelperSpec => []HelperInv
<1>1. HelperInit => HelperInv
  BY PoolInvInit, HelperAssumption
  DEF HelperInit, Init, HelperInv, PoolInv, HelperTypeOK, WaiterIsAlone
<1> QED
  BY <1>1, HelperInvInductive, PTL DEF HelperSpec

(***************************************************************************)
(* HelperWaiterIsAlone: a reader that waits for a handle owns the helper's *)
(* monitor, and no handle is free: nobody can return one to it.            *)
(***************************************************************************)
THEOREM HelperWaiterIsAlone == HelperSpec => []WaiterIsAlone
<1>1. HelperInv => WaiterIsAlone
  BY DEF HelperInv
<1> QED
  BY <1>1, HelperInvHolds, PTL

(***************************************************************************)
(* HelperLendsExclusively: two readers never share a connection.           *)
(***************************************************************************)
THEOREM HelperLendsExclusively == HelperSpec => []ExclusiveLending
<1>1. HelperInv => ExclusiveLending
  BY DEF HelperInv, PoolInv
<1> QED
  BY <1>1, HelperInvHolds, PTL

LEMMA FullInductive ==
    TypeOK /\ WaitsOnlyWhenFull /\ [Next]_poolVars => WaitsOnlyWhenFull'
<1> SUFFICES ASSUME TypeOK, WaitsOnlyWhenFull, [Next]_poolVars
             PROVE  WaitsOnlyWhenFull'
  OBVIOUS
<1> USE PoolAssumption DEF TypeOK, WaitsOnlyWhenFull
<1>1. CASE UNCHANGED poolVars
  BY <1>1 DEF poolVars
<1>2. ASSUME NEW t \in Threads, Use(t) PROVE WaitsOnlyWhenFull'
  <2>1. CASE TakeFree(t)
    BY <2>1 DEF TakeFree, HandOut
  <2>2. CASE Make(t)
    BY <2>2 DEF Make, HandOut, MayMake
  <2>3. CASE Block(t)
    BY <2>3 DEF Block, MayMake
  <2> QED
    BY <1>2, <2>1, <2>2, <2>3 DEF Use
<1>3. ASSUME NEW t \in Threads, Rescan(t) PROVE WaitsOnlyWhenFull'
  BY <1>3 DEF Rescan, TakeFree, HandOut, FindNothing
<1>4. ASSUME NEW t \in Threads, WakeAnyway(t) PROVE WaitsOnlyWhenFull'
  BY <1>4 DEF WakeAnyway
<1>5. ASSUME NEW t \in Threads, NEW h \in held[t], Unuse(t, h) PROVE WaitsOnlyWhenFull'
  BY <1>5 DEF Unuse, NotifyAll
<1>6. ASSUME NEW t \in Threads, UnuseNull(t) PROVE WaitsOnlyWhenFull'
  BY <1>6 DEF UnuseNull, NotifyAll
<1> QED
  BY <1>1, <1>2, <1>3, <1>4, <1>5, <1>6 DEF Next

(***************************************************************************)
(* HelperWaitsOnlyWhenFull: no reader blocks while the pool could still    *)
(* make a handle, for any size of the pool.                                *)
(***************************************************************************)
THEOREM HelperWaitsOnlyWhenFull == HelperSpec => []WaitsOnlyWhenFull
<1>1. HelperInit => WaitsOnlyWhenFull
  BY DEF HelperInit, Init, WaitsOnlyWhenFull
<1>2. HelperInv /\ WaitsOnlyWhenFull /\ [HelperNext]_vars => WaitsOnlyWhenFull'
  BY HelperStepIsPoolStep, FullInductive DEF HelperInv, PoolInv
<1> QED
  BY <1>1, <1>2, HelperInvHolds, PTL DEF HelperSpec

(***************************************************************************)
(* HelperWaitIsSound: a reader that waits owns the monitor, all of the     *)
(* MaxSize + 1 handles have been made, and none of them is free.           *)
(***************************************************************************)
THEOREM HelperWaitIsSound == HelperSpec => []WaitIsSound
  BY HelperWaiterIsAlone, HelperWaitsOnlyWhenFull, PTL DEF WaitIsSound

-----------------------------------------------------------------------------
(***************************************************************************)
(* The inductive invariant.  A helper that is being opened has one call or *)
(* answer under way, of the kind its stage says; what answers and registry *)
(* say of the file is still so; and behind the removal of a file there are *)
(* only openings.                                                          *)
(***************************************************************************)
Steps == {"open", "create", "update", "version"}

CallSet == [h : Helpers, op : Steps \cup {"rows", "close", "remove"},
            arg : (SUBSET (0 .. Version)) \cup (0 .. Version)]

ReplySet == [h : Helpers, op : Steps \cup {"rows"}, ok : BOOLEAN, result : OpenResults]

StageOf(op) == CASE op = "open" -> "opening" [] op \in {"create", "update"} -> "batch"
                 [] op = "version" -> "pragma"

IsStep(item) == item.op \in Steps

Types ==
    /\ platform \in {"android", "ios"}
    /\ openDBs \in {NoEntry, TrueEntry} \cup OpenResults
    /\ at \in [Helpers -> Stages]
    /\ calls \in Seq(CallSet) /\ replies \in Seq(ReplySet)
    /\ exists \in BOOLEAN /\ created \in BOOLEAN
    /\ userVersion \in 0 .. Version

FileTrue == (created => exists) /\ (userVersion >= 1 => created)

(* What the result of an open says of the file. *)
Known(result) ==
    /\ result.version >= 1 => created
    /\ result.version = Version => userVersion = Version

NoRemoval == \A i \in 1 .. Len(calls) : calls[i].op # "remove"

CallTrue(c) ==
    /\ IsStep(c) => at[c.h] = StageOf(c.op)
    /\ c.op \in {"update", "version"} => created
    /\ c.op = "version" => c.arg = Version

ReplyTrue(r) ==
    /\ IsStep(r) => at[r.h] = StageOf(r.op) /\ NoRemoval
    /\ r.op = "open" => Known(r.result)
    /\ r.op \in {"create", "update"} /\ r.ok => created
    /\ r.op = "version" /\ r.ok => userVersion = Version

CallsTrue == \A i \in 1 .. Len(calls) : CallTrue(calls[i])

RepliesTrue == \A i \in 1 .. Len(replies) : ReplyTrue(replies[i])

OneCall == \A i, j \in 1 .. Len(calls) :
    IsStep(calls[i]) /\ IsStep(calls[j]) /\ calls[i].h = calls[j].h => i = j

OneReply == \A i, j \in 1 .. Len(replies) :
    IsStep(replies[i]) /\ IsStep(replies[j]) /\ replies[i].h = replies[j].h => i = j

OneOfBoth == \A i \in 1 .. Len(calls), j \in 1 .. Len(replies) :
    IsStep(calls[i]) /\ IsStep(replies[j]) => calls[i].h # replies[j].h

(* Nobody waits for more than an opening while a removal is under way. *)
RemovalFirst ==
    \A i \in 1 .. Len(calls) : calls[i].op = "remove" =>
        /\ \A h \in Helpers : at[h] \in {"idle", "opening", "failed"}
        /\ openDBs \notin OpenResults
        /\ \A j \in 1 .. i : ~IsStep(calls[j])

PgInv ==
    /\ Types /\ FileTrue
    /\ CallsTrue /\ RepliesTrue /\ OneCall /\ OneReply /\ OneOfBoth /\ RemovalFirst
    /\ openDBs \in OpenResults => Known(openDBs)
    /\ ReadyMeansCurrent

-----------------------------------------------------------------------------
LEMMA PgInvInit == PgInit => PgInv
BY PgAssumption
DEF PgInit, PgInv, Types, FileTrue, CallsTrue, RepliesTrue, OneCall, OneReply, OneOfBoth,
    RemovalFirst, ReadyMeansCurrent, Stages, AtRest, Told, OpenResults, NoEntry

LEMMA SeqElements ==
    /\ \A s \in Seq(CallSet) : \A i \in 1 .. Len(s) : s[i] \in CallSet
    /\ \A s \in Seq(ReplySet) : \A i \in 1 .. Len(s) : s[i] \in ReplySet
BY ElementOfSeq

(* A sequence with an element more, one by one. *)
LEMMA AppendEach ==
    ASSUME NEW S, NEW s \in Seq(S), NEW e \in S, NEW t, t = Append(s, e)
    PROVE  /\ t \in Seq(S) /\ Len(t) = Len(s) + 1
           /\ \A i \in 1 .. Len(s) : t[i] = s[i]
           /\ t[Len(s) + 1] = e
           /\ \A i \in 1 .. Len(t) : i \in 1 .. Len(s) \/ i = Len(s) + 1
BY AppendProperties

LEMMA TailEach ==
    ASSUME NEW S, NEW s \in Seq(S), s # <<>>, NEW t, t = Tail(s)
    PROVE  /\ t \in Seq(S) /\ Len(s) = Len(t) + 1
           /\ s[1] = Head(s) /\ s[1] \in S
           /\ \A i \in 1 .. Len(t) : t[i] = s[i + 1] /\ i + 1 \in 1 .. Len(s)
           /\ 1 \in 1 .. Len(s)
BY HeadTailProperties, ElementOfSeq

(* No step of h is under way in s. *)
Quiet(s, h) == \A i \in 1 .. Len(s) : IsStep(s[i]) => s[i].h # h

LEMMA RestIsQuiet ==
    ASSUME PgInv, NEW h \in Helpers, at[h] \in AtRest
    PROVE  Quiet(calls, h) /\ Quiet(replies, h)
<1>1. \A op \in Steps : StageOf(op) \notin AtRest
  BY DEF Steps, StageOf, AtRest, Told
<1> QED
  BY <1>1 DEF PgInv, CallsTrue, RepliesTrue, CallTrue, ReplyTrue, Quiet, IsStep

(***************************************************************************)
(* SendStep: a call that a helper with nothing under way sends, when its   *)
(* stage goes along, keeps what the invariant says of the calls.           *)
(***************************************************************************)
LEMMA SendStep ==
    ASSUME PgInv, NEW c \in CallSet, IsStep(c), Quiet(calls, c.h),
           calls' = Append(calls, c), at' = [at EXCEPT ![c.h] = StageOf(c.op)],
           UNCHANGED fileVars,
           c.op \in {"update", "version"} => created,
           c.op = "version" => c.arg = Version,
           NoRemoval \/ (c.op = "open" /\ openDBs' \notin OpenResults)
    PROVE  /\ calls' \in Seq(CallSet) /\ at' \in [Helpers -> Stages]
           /\ CallsTrue' /\ OneCall' /\ RemovalFirst'
           /\ NoRemoval => NoRemoval'
           /\ \A h \in Helpers : h # c.h => at'[h] = at[h]
           /\ at'[c.h] = StageOf(c.op)
<1> DEFINE n == Len(calls)
<1>1. c.h \in Helpers /\ c.op \in Steps
  BY DEF CallSet, IsStep
<1>2. at \in [Helpers -> Stages] /\ calls \in Seq(CallSet)
  BY DEF PgInv, Types
<1>3. StageOf(c.op) \in Stages \ AtRest
  BY <1>1 DEF StageOf, Steps, Stages, AtRest, Told
<1>4. /\ calls' \in Seq(CallSet) /\ Len(calls') = n + 1
      /\ \A i \in 1 .. n : calls'[i] = calls[i]
      /\ calls'[n + 1] = c
      /\ \A i \in 1 .. Len(calls') : i \in 1 .. n \/ i = n + 1
  BY <1>2, AppendEach
<1>5. /\ at' \in [Helpers -> Stages]
      /\ \A h \in Helpers : h # c.h => at'[h] = at[h]
      /\ at'[c.h] = StageOf(c.op)
  BY <1>1, <1>2, <1>3
<1>6. \A i \in 1 .. n : calls[i] \in CallSet
  BY <1>2, ElementOfSeq
<1>7. CallsTrue'
  <2>1. ASSUME NEW i \in 1 .. n PROVE CallTrue(calls[i])'
    <3>1. CallTrue(calls[i]) /\ calls[i].h \in Helpers /\ calls'[i] = calls[i]
          /\ created' = created
      BY <1>4, <1>6 DEF PgInv, CallsTrue, CallSet, fileVars
    <3>2. IsStep(calls[i]) => calls[i].h # c.h
      BY DEF Quiet
    <3> QED
      BY <3>1, <3>2, <1>5 DEF CallTrue, IsStep
  <2>2. CallTrue(c)' /\ created' = created
    BY <1>5 DEF CallTrue, IsStep, fileVars
  <2> QED
    BY <1>4, <2>1, <2>2 DEF CallsTrue, CallTrue, IsStep
<1>8. OneCall'
  BY <1>4 DEF OneCall, PgInv, Quiet, IsStep
<1>9. RemovalFirst'
  <2>1. c.op # "remove"
    BY <1>1 DEF Steps
  <2>2. CASE NoRemoval
    BY <1>4, <2>1, <2>2 DEF RemovalFirst, NoRemoval
  <2>3. CASE c.op = "open" /\ openDBs' \notin OpenResults
    <3>1. at'[c.h] = "opening"
      BY <1>5, <2>3 DEF StageOf
    <3> SUFFICES ASSUME NEW i \in 1 .. Len(calls'), calls'[i].op = "remove"
                 PROVE  /\ \A h \in Helpers : at'[h] \in {"idle", "opening", "failed"}
                        /\ \A j \in 1 .. i : ~IsStep(calls'[j])
      BY <2>3 DEF RemovalFirst, IsStep
    <3>2. i \in 1 .. n /\ calls[i].op = "remove"
      BY <1>4, <2>1
    <3>3. /\ \A h \in Helpers : at[h] \in {"idle", "opening", "failed"}
          /\ \A j \in 1 .. i : ~IsStep(calls[j])
      BY <3>2 DEF PgInv, RemovalFirst
    <3> QED
      BY <1>4, <1>5, <3>1, <3>2, <3>3
  <2> QED
    BY <2>2, <2>3
<1>10. NoRemoval => NoRemoval'
  BY <1>1, <1>4 DEF NoRemoval, Steps
<1> QED
  BY <1>4, <1>5, <1>7, <1>8, <1>9, <1>10

(***************************************************************************)
(* CallsKept: calls that stay, less perhaps the first, are as true as      *)
(* before while the stages they belong to stay.                            *)
(***************************************************************************)
LEMMA CallsKept ==
    ASSUME PgInv, NEW k \in {0, 1}, calls' \in Seq(CallSet),
           \A i \in 1 .. Len(calls') : i + k \in 1 .. Len(calls) /\ calls'[i] = calls[i + k],
           \A i \in 1 .. Len(calls') :
               /\ IsStep(calls'[i]) => at'[calls'[i].h] = at[calls'[i].h]
               /\ calls'[i].op \in {"update", "version"} => created'
    PROVE  /\ CallsTrue' /\ OneCall'
           /\ NoRemoval => NoRemoval'
           /\ at' = at /\ (openDBs' \notin OpenResults \/ openDBs' = openDBs) => RemovalFirst'
<1> DEFINE n == Len(calls)
           m == Len(calls')
<1>1. n \in Nat /\ m \in Nat
  BY LenProperties DEF PgInv, Types
<1>2. CallsTrue'
  BY DEF CallsTrue, CallTrue, PgInv, IsStep
<1>3. OneCall'
  <2> SUFFICES ASSUME NEW i \in 1 .. m, NEW j \in 1 .. m,
                      IsStep(calls'[i]), IsStep(calls'[j]), calls'[i].h = calls'[j].h
               PROVE  i = j
    BY DEF OneCall, IsStep
  <2>1. /\ i + k \in 1 .. n /\ calls'[i] = calls[i + k]
        /\ j + k \in 1 .. n /\ calls'[j] = calls[j + k]
    OBVIOUS
  <2>2. IsStep(calls[i + k]) /\ IsStep(calls[j + k]) /\ calls[i + k].h = calls[j + k].h
    BY <2>1
  <2>3. i + k = j + k
    BY <2>1, <2>2 DEF PgInv, OneCall
  <2> QED
    BY <1>1, <2>3
<1>4. NoRemoval => NoRemoval'
  BY DEF NoRemoval
<1>5. ASSUME at' = at, openDBs' \notin OpenResults \/ openDBs' = openDBs
      PROVE  RemovalFirst'
  <2> SUFFICES ASSUME NEW i \in 1 .. m, calls'[i].op = "remove"
               PROVE  /\ \A h \in Helpers : at'[h] \in {"idle", "opening", "failed"}
                      /\ openDBs' \notin OpenResults
                      /\ \A j \in 1 .. i : ~IsStep(calls'[j])
    BY DEF RemovalFirst, IsStep
  <2>1. /\ \A h \in Helpers : at[h] \in {"idle", "opening", "failed"}
        /\ openDBs \notin OpenResults
        /\ \A j \in 1 .. i + k : ~IsStep(calls[j])
    BY DEF PgInv, RemovalFirst
  <2>2. \A j \in 1 .. i : j \in 1 .. m /\ j + k \in 1 .. i + k
    BY <1>1
  <2> QED
    BY <1>5, <2>1, <2>2
<1> QED
  BY <1>2, <1>3, <1>4, <1>5

(***************************************************************************)
(* RepliesKept: the same of the answers, unless the file is removed, when  *)
(* no step's answer is under way.                                          *)
(***************************************************************************)
LEMMA RepliesKept ==
    ASSUME PgInv, NEW k \in {0, 1}, replies' \in Seq(ReplySet),
           \A i \in 1 .. Len(replies') : i + k \in 1 .. Len(replies) /\ replies'[i] = replies[i + k],
           \A i \in 1 .. Len(replies') :
               IsStep(replies'[i]) => at'[replies'[i].h] = at[replies'[i].h],
           NoRemoval => NoRemoval' /\ (created => created')
                        /\ (userVersion = Version => userVersion' = Version)
    PROVE  RepliesTrue' /\ OneReply'
<1> DEFINE n == Len(replies)
           m == Len(replies')
<1>1. n \in Nat /\ m \in Nat
  BY LenProperties DEF PgInv, Types
<1>2. RepliesTrue'
  <2> SUFFICES ASSUME NEW i \in 1 .. m PROVE ReplyTrue(replies[i])'
    BY DEF RepliesTrue
  <2>1. ReplyTrue(replies[i + k]) /\ replies'[i] = replies[i + k]
        /\ replies'[i] \in ReplySet
    BY ElementOfSeq DEF PgInv, RepliesTrue
  <2>2. CASE IsStep(replies'[i])
    <3>1. NoRemoval /\ NoRemoval' /\ (created => created')
          /\ (userVersion = Version => userVersion' = Version)
      BY <2>1, <2>2 DEF ReplyTrue
    <3> QED
      BY <2>1, <2>2, <3>1 DEF ReplyTrue, IsStep, Known
  <2>3. CASE ~IsStep(replies'[i])
    BY <2>1, <2>3 DEF ReplyTrue, IsStep, Steps, Known
  <2> QED
    BY <2>2, <2>3
<1>3. OneReply'
  <2> SUFFICES ASSUME NEW i \in 1 .. m, NEW j \in 1 .. m,
                      IsStep(replies'[i]), IsStep(replies'[j]), replies'[i].h = replies'[j].h
               PROVE  i = j
    BY DEF OneReply, IsStep
  <2>1. /\ i + k \in 1 .. n /\ replies'[i] = replies[i + k]
        /\ j + k \in 1 .. n /\ replies'[j] = replies[j + k]
    OBVIOUS
  <2>2. IsStep(replies[i + k]) /\ IsStep(replies[j + k]) /\ replies[i + k].h = replies[j + k].h
    BY <2>1
  <2>3. i + k = j + k
    BY <2>1, <2>2 DEF PgInv, OneReply
  <2> QED
    BY <1>1, <2>3
<1> QED
  BY <1>2, <1>3

(***************************************************************************)
(* StepSentKeepsInv: SendStep with the rest of the invariant.  k is 1 when *)
(* the call follows from the first answer, which is then handled.          *)
(***************************************************************************)
LEMMA StepSentKeepsInv ==
    ASSUME PgInv, NEW k \in {0, 1}, replies' \in Seq(ReplySet),
           \A i \in 1 .. Len(replies') : i + k \in 1 .. Len(replies) /\ replies'[i] = replies[i + k],
           NEW c \in CallSet, IsStep(c), Quiet(calls, c.h),
           \A i \in 1 .. Len(replies') : IsStep(replies'[i]) => replies'[i].h # c.h,
           calls' = Append(calls, c), at' = [at EXCEPT ![c.h] = StageOf(c.op)],
           UNCHANGED <<platform, fileVars>>,
           c.op \in {"update", "version"} => created,
           c.op = "version" => c.arg = Version,
           openDBs' \in {NoEntry, TrueEntry} \cup OpenResults,
           openDBs' \in OpenResults => Known(openDBs'),
           NoRemoval \/ (c.op = "open" /\ openDBs' \notin OpenResults)
    PROVE  PgInv'
<1> DEFINE n == Len(calls)
<1>1. /\ calls' \in Seq(CallSet) /\ at' \in [Helpers -> Stages]
      /\ CallsTrue' /\ OneCall' /\ RemovalFirst'
      /\ NoRemoval => NoRemoval'
      /\ \A h \in Helpers : h # c.h => at'[h] = at[h]
      /\ at'[c.h] = StageOf(c.op)
  BY SendStep DEF fileVars
<1>2. \A i \in 1 .. Len(replies') : replies'[i].h \in Helpers
  BY SeqElements DEF ReplySet
<1>3. RepliesTrue' /\ OneReply'
  <2>1. \A i \in 1 .. Len(replies') :
            IsStep(replies'[i]) => at'[replies'[i].h] = at[replies'[i].h]
    BY <1>1, <1>2
  <2> QED
    BY <1>1, <2>1, RepliesKept DEF fileVars
<1>4. OneOfBoth'
  <2> SUFFICES ASSUME NEW i \in 1 .. Len(calls'), NEW j \in 1 .. Len(replies'),
                      IsStep(calls'[i]), IsStep(replies'[j])
               PROVE  calls'[i].h # replies'[j].h
    BY DEF OneOfBoth, IsStep
  <2>1. /\ \A l \in 1 .. n : calls'[l] = calls[l]
        /\ calls'[n + 1] = c
        /\ i \in 1 .. n \/ i = n + 1
    BY AppendEach DEF PgInv, Types
  <2>2. j + k \in 1 .. Len(replies) /\ replies'[j] = replies[j + k]
    OBVIOUS
  <2>3. CASE i = n + 1
    BY <2>1, <2>3
  <2>4. CASE i \in 1 .. n
    BY <2>1, <2>2, <2>4 DEF PgInv, OneOfBoth
  <2> QED
    BY <2>1, <2>3, <2>4
<1>5. ReadyMeansCurrent'
  <2>1. at'[c.h] \notin Told
    BY <1>1 DEF StageOf, IsStep, Steps, Told
  <2>2. c.h \in Helpers
    BY DEF CallSet
  <2> QED
    BY <1>1, <2>1, <2>2 DEF PgInv, ReadyMeansCurrent, fileVars
<1>6. Types' /\ FileTrue' /\ (openDBs \in OpenResults => Known(openDBs))'
  BY <1>1 DEF PgInv, Types, FileTrue, Known, fileVars
<1> QED
  BY <1>1, <1>3, <1>4, <1>5, <1>6 DEF PgInv

(***************************************************************************)
(* AtRestKeepsInv: a helper with nothing under way is at rest after the    *)
(* step, and only calls that are no steps are sent.                        *)
(***************************************************************************)
LEMMA AtRestKeepsInv ==
    ASSUME PgInv, NEW k \in {0, 1}, replies' \in Seq(ReplySet),
           \A i \in 1 .. Len(replies') : i + k \in 1 .. Len(replies) /\ replies'[i] = replies[i + k],
           NEW h \in Helpers, Quiet(calls, h),
           \A i \in 1 .. Len(replies') : IsStep(replies'[i]) => replies'[i].h # h,
           NEW s \in AtRest, at' = [at EXCEPT ![h] = s],
           calls' \in Seq(CallSet),
           \A i \in 1 .. Len(calls') :
               \/ i \in 1 .. Len(calls) /\ calls'[i] = calls[i]
               \/ ~IsStep(calls'[i]) /\ calls'[i].op # "remove",
           UNCHANGED <<platform, fileVars>>,
           openDBs' \in {NoEntry, TrueEntry} \cup OpenResults,
           openDBs' \in OpenResults => Known(openDBs'),
           s \in Told => userVersion = Version,
           NoRemoval \/ (s \notin Told /\ openDBs' \notin OpenResults)
    PROVE  PgInv'
<1>1. /\ at' \in [Helpers -> Stages] /\ at'[h] = s
      /\ \A g \in Helpers : g # h => at'[g] = at[g]
  BY DEF PgInv, Types, Stages, AtRest
<1>2. /\ \A i \in 1 .. Len(replies') : replies'[i].h \in Helpers
      /\ \A i \in 1 .. Len(calls') : calls'[i].h \in Helpers
  BY SeqElements DEF ReplySet, CallSet
<1>3. NoRemoval => NoRemoval'
  BY DEF NoRemoval
<1>4. RepliesTrue' /\ OneReply'
  <2>1. \A i \in 1 .. Len(replies') :
            IsStep(replies'[i]) => at'[replies'[i].h] = at[replies'[i].h]
    BY <1>1, <1>2
  <2> QED
    BY <1>3, <2>1, RepliesKept DEF fileVars
<1>5. CallsTrue'
  <2> SUFFICES ASSUME NEW i \in 1 .. Len(calls') PROVE CallTrue(calls[i])'
    BY DEF CallsTrue
  <2>1. CASE i \in 1 .. Len(calls) /\ calls'[i] = calls[i]
    BY <1>1, <1>2, <2>1 DEF PgInv, CallsTrue, CallTrue, IsStep, Quiet, fileVars
  <2>2. CASE ~IsStep(calls'[i])
    BY <2>2 DEF CallTrue, IsStep, Steps
  <2> QED
    BY <2>1, <2>2
<1>6. OneCall' /\ OneOfBoth'
  BY DEF PgInv, OneCall, OneOfBoth, IsStep
<1>7. RemovalFirst'
  <2> SUFFICES ASSUME NEW i \in 1 .. Len(calls'), calls'[i].op = "remove"
               PROVE  /\ \A g \in Helpers : at'[g] \in {"idle", "opening", "failed"}
                      /\ openDBs' \notin OpenResults
                      /\ \A j \in 1 .. i : ~IsStep(calls'[j])
    BY DEF RemovalFirst, IsStep
  <2>1. i \in 1 .. Len(calls) /\ calls[i].op = "remove"
    OBVIOUS
  <2>2. s \notin Told /\ openDBs' \notin OpenResults
    BY <2>1 DEF NoRemoval
  <2>3. /\ \A g \in Helpers : at[g] \in {"idle", "opening", "failed"}
        /\ \A j \in 1 .. i : ~IsStep(calls[j])
    BY <2>1 DEF PgInv, RemovalFirst
  <2>5. s \in {"idle", "opening", "failed"}
    BY <2>2 DEF AtRest, Told
  <2>4. ASSUME NEW j \in 1 .. i PROVE ~IsStep(calls'[j])
    <3>1. j \in 1 .. Len(calls')
      BY LenProperties
    <3> QED
      BY <2>3, <3>1
  <2> QED
    BY <1>1, <2>2, <2>3, <2>4, <2>5
<1>8. ReadyMeansCurrent'
  BY <1>1 DEF PgInv, ReadyMeansCurrent, fileVars
<1>9. Types' /\ FileTrue' /\ (openDBs \in OpenResults => Known(openDBs))'
  BY <1>1 DEF PgInv, Types, FileTrue, Known, fileVars
<1> QED
  BY <1>4, <1>5, <1>6, <1>7, <1>8, <1>9 DEF PgInv

(* Opened, for the answer (k = 1) or the registry's copy of one (k = 0). *)
LEMMA OpenedKeepsInv ==
    ASSUME PgInv, NEW k \in {0, 1}, replies' \in Seq(ReplySet),
           \A i \in 1 .. Len(replies') : i + k \in 1 .. Len(replies) /\ replies'[i] = replies[i + k],
           NEW h \in Helpers, Quiet(calls, h),
           \A i \in 1 .. Len(replies') : IsStep(replies'[i]) => replies'[i].h # h,
           NEW result \in OpenResults, Known(result), Opened(h, result),
           NoRemoval, UNCHANGED <<platform, fileVars>>,
           openDBs' \in {NoEntry, TrueEntry} \cup OpenResults,
           openDBs' \in OpenResults => Known(openDBs')
    PROVE  PgInv'
<1>1. result.version \in 0 .. Version /\ Version \in Nat
  BY PgAssumption DEF OpenResults
<1>2. ASSUME NEW op \in {"create", "update"}, NEW arg \in SUBSET (0 .. Version),
             BatchOf(h, op, arg), op = "update" => created
      PROVE  PgInv'
  <2> DEFINE c == Call(h, op, arg)
  <2>1. /\ c \in CallSet /\ IsStep(c) /\ c.h = h /\ c.op = op
        /\ StageOf(c.op) = "batch"
    BY DEF Call, CallSet, IsStep, Steps, StageOf
  <2>2. calls' = Append(calls, c) /\ at' = [at EXCEPT ![c.h] = StageOf(c.op)]
    BY <1>2, <2>1 DEF BatchOf, Send
  <2> HIDE DEF c
  <2> QED
    BY <1>2, <2>1, <2>2, StepSentKeepsInv
<1>3. CASE result.status = 1
  BY <1>2, <1>3 DEF Opened
<1>4. CASE result.status # 1 /\ result.version # Version
  <2>1. OnUpdate(h, result.version)
    BY <1>4 DEF Opened
  <2>2. CASE result.version <= 1
    BY <1>2, <2>1, <2>2 DEF OnUpdate
  <2>3. CASE ~(result.version <= 1)
    <3>1. (result.version - 1) .. (Version - 2) \in SUBSET (0 .. Version)
      BY <1>1, <2>3
    <3>2. created
      BY <1>1, <2>3 DEF Known
    <3>3. BatchOf(h, "update", (result.version - 1) .. (Version - 2))
      BY <2>1, <2>3 DEF OnUpdate
    <3> QED
      BY <1>2, <3>1, <3>2, <3>3
  <2> QED
    BY <2>2, <2>3
<1>5. CASE result.status # 1 /\ result.version = Version
  <2>1. at' = [at EXCEPT ![h] = "ready"] /\ calls' = calls /\ userVersion = Version
    BY <1>5 DEF Opened, Known
  <2>2. calls' \in Seq(CallSet)
    BY <2>1 DEF PgInv, Types
  <2>3. "ready" \in AtRest
    BY DEF AtRest, Told
  <2> QED
    BY <2>1, <2>2, <2>3, AtRestKeepsInv
<1> QED
  BY <1>3, <1>4, <1>5

-----------------------------------------------------------------------------
(* The steps of the page. *)

LEMMA SameReplies ==
    ASSUME PgInv, replies' = replies
    PROVE  /\ replies' \in Seq(ReplySet)
           /\ \A i \in 1 .. Len(replies') : i + 0 \in 1 .. Len(replies) /\ replies'[i] = replies[i + 0]
BY LenProperties DEF PgInv, Types

LEMMA OpenDatabaseKeepsInv ==
    ASSUME PgInv, NEW h \in Helpers, OpenDatabase(h)
    PROVE  PgInv'
<1>1. Quiet(calls, h) /\ Quiet(replies, h)
  BY RestIsQuiet DEF OpenDatabase
<1>2. replies' = replies /\ UNCHANGED <<platform, fileVars>>
  BY DEF OpenDatabase
<1>3. \A i \in 1 .. Len(replies') : IsStep(replies'[i]) => replies'[i].h # h
  BY <1>1, <1>2 DEF Quiet
<1>4. CASE openDBs = NoEntry /\ openDBs' \in {NoEntry, TrueEntry}
           /\ at' = [at EXCEPT ![h] = "opening"] /\ Send(Call(h, "open", {}))
  <2> DEFINE c == Call(h, "open", {})
  <2>1. /\ c \in CallSet /\ IsStep(c) /\ c.h = h /\ c.op = "open"
        /\ StageOf(c.op) = "opening"
    BY DEF Call, CallSet, IsStep, Steps, StageOf
  <2>2. calls' = Append(calls, c) /\ at' = [at EXCEPT ![c.h] = StageOf(c.op)]
    BY <1>4, <2>1 DEF Send
  <2>3. openDBs' \notin OpenResults
    BY <1>4 DEF NoEntry, TrueEntry, OpenResults
  <2> HIDE DEF c
  <2> QED
    BY <1>1, <1>2, <1>3, <1>4, <2>1, <2>2, <2>3, SameReplies, StepSentKeepsInv
<1>5. CASE openDBs = TrueEntry /\ at' = [at EXCEPT ![h] = "failed"]
           /\ UNCHANGED <<openDBs, calls>>
  <2>1. openDBs' \notin OpenResults /\ openDBs' = TrueEntry
    BY <1>5 DEF TrueEntry, OpenResults
  <2>2. calls' \in Seq(CallSet) /\ calls' = calls
    BY <1>5 DEF PgInv, Types
  <2>3. "failed" \in AtRest \ Told
    BY DEF AtRest, Told
  <2> QED
    BY <1>1, <1>2, <1>3, <1>5, <2>1, <2>2, <2>3, SameReplies, AtRestKeepsInv
<1>6. CASE /\ openDBs \in OpenResults /\ UNCHANGED openDBs
           /\ Opened(h, openDBs) \/ OpenedInside(h, openDBs)
  <2>1. NoRemoval
    BY <1>6 DEF PgInv, RemovalFirst, NoRemoval
  <2>2. Known(openDBs) /\ Known(openDBs')
    BY <1>2, <1>6 DEF PgInv, Known, fileVars
  <2>3. CASE Opened(h, openDBs)
    BY <1>1, <1>2, <1>3, <1>6, <2>1, <2>2, <2>3, SameReplies, OpenedKeepsInv
  <2>4. CASE OpenedInside(h, openDBs)
    <3>1. PICK s \in {"failed", "empty"} :
              /\ at' = [at EXCEPT ![h] = s] /\ calls' = calls
              /\ s = "empty" => openDBs.version = Version
      BY <2>4 DEF OpenedInside
    <3>2. s \in AtRest /\ (s \in Told => userVersion = Version)
      BY <2>2, <3>1 DEF AtRest, Told, Known
    <3>3. calls' \in Seq(CallSet)
      BY <3>1 DEF PgInv, Types
    <3> QED
      BY <1>1, <1>2, <1>3, <1>6, <2>1, <2>2, <3>1, <3>2, <3>3, SameReplies, AtRestKeepsInv
  <2> QED
    BY <1>6, <2>3, <2>4
<1> QED
  BY <1>4, <1>5, <1>6 DEF OpenDatabase

(* A call that is no step, at the end of the others. *)
LEMMA OtherSent ==
    ASSUME PgInv, NEW h \in Helpers, NEW op \in {"rows", "close", "remove"},
           Send(Call(h, op, {}))
    PROVE  /\ calls' \in Seq(CallSet) /\ Len(calls') = Len(calls) + 1
           /\ \A i \in 1 .. Len(calls') :
                  \/ i \in 1 .. Len(calls) /\ calls'[i] = calls[i]
                  \/ i = Len(calls) + 1 /\ ~IsStep(calls'[i]) /\ calls'[i].op = op
<1> DEFINE c == Call(h, op, {})
<1>1. c \in CallSet /\ ~IsStep(c) /\ c.op = op
  BY DEF Call, CallSet, IsStep, Steps
<1>2. calls' = Append(calls, c) /\ calls \in Seq(CallSet)
  BY DEF Send, PgInv, Types
<1> HIDE DEF c
<1> QED
  BY <1>1, <1>2, AppendEach

LEMMA CloseKeepsInv ==
    ASSUME PgInv, NEW h \in Helpers, Close(h) \/ Transaction(h)
    PROVE  PgInv'
<1>1. Quiet(calls, h) /\ Quiet(replies, h)
  BY RestIsQuiet DEF Close, Transaction, AtRest
<1>2. replies' = replies /\ UNCHANGED <<platform, fileVars>>
  BY DEF Close, Transaction
<1>3. \A i \in 1 .. Len(replies') : IsStep(replies'[i]) => replies'[i].h # h
  BY <1>1, <1>2 DEF Quiet
<1>4. CASE Close(h)
  <2>1. openDBs' = NoEntry /\ openDBs' \notin OpenResults
    BY <1>4 DEF Close, NoEntry, OpenResults
  <2>2. at' = [at EXCEPT ![h] = "idle"] /\ Send(Call(h, "close", {}))
    BY <1>4 DEF Close
  <2>3. "idle" \in AtRest \ Told
    BY DEF AtRest, Told
  <2> QED
    BY <1>1, <1>2, <1>3, <2>1, <2>2, <2>3, SameReplies, OtherSent, AtRestKeepsInv
<1>5. CASE Transaction(h)
  <2>1. at[h] \in Told /\ at' = at /\ openDBs' = openDBs /\ Send(Call(h, "rows", {}))
    BY <1>5 DEF Transaction
  <2>2. at[h] \in AtRest /\ at' = [at EXCEPT ![h] = at[h]]
    BY <2>1 DEF PgInv, Types, AtRest
  <2>3. NoRemoval /\ userVersion = Version
    BY <2>1 DEF PgInv, RemovalFirst, NoRemoval, ReadyMeansCurrent, Told
  <2>4. /\ openDBs' \in {NoEntry, TrueEntry} \cup OpenResults
        /\ openDBs' \in OpenResults => Known(openDBs')
    BY <1>2, <2>1 DEF PgInv, Types, Known, fileVars
  <2> QED
    BY <1>1, <1>2, <1>3, <2>1, <2>2, <2>3, <2>4, SameReplies, OtherSent, AtRestKeepsInv
<1> QED
  BY <1>4, <1>5

LEMMA RemoveDatabaseKeepsInv ==
    ASSUME PgInv, NEW h \in Helpers, RemoveDatabase(h)
    PROVE  PgInv'
<1>1. /\ \A i \in 1 .. Len(calls) : ~IsStep(calls[i])
      /\ \A i \in 1 .. Len(replies) : ~IsStep(replies[i])
  <2>1. \A g \in Helpers : Quiet(calls, g) /\ Quiet(replies, g)
    BY RestIsQuiet DEF RemoveDatabase
  <2>2. calls \in Seq(CallSet) /\ replies \in Seq(ReplySet)
    BY DEF PgInv, Types
  <2>3. /\ \A i \in 1 .. Len(calls) : calls[i].h \in Helpers
        /\ \A i \in 1 .. Len(replies) : replies[i].h \in Helpers
    BY <2>2, SeqElements DEF CallSet, ReplySet
  <2> QED
    BY <2>1, <2>3 DEF Quiet
<1>2. /\ replies' = replies /\ UNCHANGED <<platform, exists, created, userVersion>>
      /\ openDBs' = NoEntry /\ openDBs' \notin OpenResults
      /\ at' = [g \in Helpers |-> "idle"]
  BY DEF RemoveDatabase, Forget, fileVars, NoEntry, OpenResults
<1>3. /\ calls' \in Seq(CallSet) /\ Len(calls') = Len(calls) + 1
      /\ \A i \in 1 .. Len(calls') :
             \/ i \in 1 .. Len(calls) /\ calls'[i] = calls[i]
             \/ i = Len(calls) + 1 /\ ~IsStep(calls'[i]) /\ calls'[i].op = "remove"
  BY OtherSent DEF RemoveDatabase
<1>4. \A i \in 1 .. Len(calls') : ~IsStep(calls'[i])
  BY <1>1, <1>3
<1>5. Types' /\ FileTrue'
  BY <1>2, <1>3 DEF PgInv, Types, FileTrue, Stages, AtRest
<1>6. CallsTrue' /\ OneCall' /\ OneOfBoth'
  BY <1>4 DEF CallsTrue, CallTrue, OneCall, OneOfBoth, IsStep, Steps
<1>7. RepliesTrue' /\ OneReply'
  BY <1>1, <1>2 DEF RepliesTrue, ReplyTrue, OneReply, IsStep, Steps
<1>8. RemovalFirst'
  <2>1. \A i \in 1 .. Len(calls') : \A j \in 1 .. i : ~IsStep(calls'[j])
    BY <1>4, <1>3, LenProperties
  <2> QED
    BY <1>2, <2>1 DEF RemovalFirst, IsStep
<1>9. ReadyMeansCurrent'
  BY <1>2 DEF ReadyMeansCurrent, Told
<1> QED
  BY <1>2, <1>5, <1>6, <1>7, <1>8, <1>9 DEF PgInv

-----------------------------------------------------------------------------
(* The answers. *)

LEMMA HandleKeepsInv ==
    ASSUME PgInv, Handle
    PROVE  PgInv'
<1> DEFINE r == Head(replies)
<1>1. /\ replies' \in Seq(ReplySet) /\ Len(replies) = Len(replies') + 1
      /\ replies[1] = r /\ r \in ReplySet
      /\ \A i \in 1 .. Len(replies') : replies'[i] = replies[i + 1] /\ i + 1 \in 1 .. Len(replies)
      /\ 1 \in 1 .. Len(replies)
  BY TailEach DEF PgInv, Types, Handle
<1>2. UNCHANGED <<platform, fileVars>> /\ r.h \in Helpers /\ r.result \in OpenResults
  BY <1>1 DEF Handle, ReplySet
<1>3. ReplyTrue(r)
  BY <1>1 DEF PgInv, RepliesTrue
<1>4. ASSUME IsStep(r)
      PROVE  /\ Quiet(calls, r.h) /\ NoRemoval
             /\ \A i \in 1 .. Len(replies') : IsStep(replies'[i]) => replies'[i].h # r.h
  <2>1. Quiet(calls, r.h)
    BY <1>1, <1>4 DEF PgInv, OneOfBoth, Quiet
  <2>2. NoRemoval
    BY <1>3, <1>4 DEF ReplyTrue
  <2>3. ASSUME NEW i \in 1 .. Len(replies'), IsStep(replies'[i]) PROVE replies'[i].h # r.h
    <3>1. i + 1 \in 1 .. Len(replies) /\ replies'[i] = replies[i + 1] /\ i + 1 # 1
      BY <1>1
    <3> QED
      BY <1>1, <1>4, <2>3, <3>1 DEF PgInv, OneReply
  <2> QED
    BY <2>1, <2>2, <2>3
<1>5. openDBs' = openDBs => /\ openDBs' \in {NoEntry, TrueEntry} \cup OpenResults
                            /\ openDBs' \in OpenResults => Known(openDBs')
  BY <1>2 DEF PgInv, Types, Known, fileVars
<1>6. CASE r.op = "open" /\ r.ok
  <2>1. IsStep(r) /\ Known(r.result)
    BY <1>3, <1>6 DEF IsStep, Steps, ReplyTrue
  <2>2. Opened(r.h, r.result)
        /\ openDBs' = (IF platform = "android" THEN r.result ELSE openDBs)
    BY <1>6 DEF Handle
  <2>3. /\ openDBs' \in {NoEntry, TrueEntry} \cup OpenResults
        /\ openDBs' \in OpenResults => Known(openDBs')
    BY <1>2, <1>5, <2>1, <2>2 DEF Known, fileVars
  <2> HIDE DEF r
  <2> QED
    BY <1>1, <1>2, <1>4, <2>1, <2>2, <2>3, OpenedKeepsInv
<1>7. CASE r.op \in {"create", "update"} /\ r.ok
  <2> DEFINE c == Call(r.h, "version", Version)
  <2>1. IsStep(r) /\ created
    BY <1>3, <1>7 DEF IsStep, Steps, ReplyTrue
  <2>2. /\ c \in CallSet /\ IsStep(c) /\ c.h = r.h /\ c.op = "version" /\ c.arg = Version
        /\ StageOf(c.op) = "pragma"
    BY <1>2, PgAssumption DEF Call, CallSet, IsStep, Steps, StageOf
  <2>3. AfterBatch(r.h) /\ openDBs' = openDBs
    BY <1>7 DEF Handle
  <2>4. calls' = Append(calls, c) /\ at' = [at EXCEPT ![c.h] = StageOf(c.op)]
    BY <2>2, <2>3 DEF AfterBatch, Send
  <2> HIDE DEF r, c
  <2> QED
    BY <1>1, <1>2, <1>4, <1>5, <2>1, <2>2, <2>3, <2>4, StepSentKeepsInv
<1>8. CASE (r.op \in {"open", "create", "update"} /\ ~r.ok) \/ r.op = "version"
  <2> DEFINE s == IF r.op = "version" /\ r.ok THEN "ready" ELSE "failed"
  <2>1. IsStep(r) /\ (s \in Told => userVersion = Version)
    BY <1>3, <1>8 DEF IsStep, Steps, ReplyTrue, Told
  <2>2. at' = [at EXCEPT ![r.h] = s] /\ openDBs' = openDBs /\ calls' = calls
    BY <1>8 DEF Handle
  <2>3. s \in AtRest /\ calls' \in Seq(CallSet)
    BY <2>2 DEF PgInv, Types, AtRest, Told
  <2> HIDE DEF r, s
  <2> QED
    BY <1>1, <1>2, <1>4, <1>5, <2>1, <2>2, <2>3, AtRestKeepsInv
<1>9. CASE r.op = "rows"
  <2>1. UNCHANGED <<openDBs, at, calls>>
    BY <1>9 DEF Handle
  <2>2. RepliesTrue' /\ OneReply'
    <3>1. NoRemoval => NoRemoval'
      BY <2>1 DEF NoRemoval
    <3> QED
      BY <1>1, <1>2, <2>1, <3>1, RepliesKept DEF fileVars
  <2>3. CallsTrue' /\ OneCall' /\ RemovalFirst' /\ ReadyMeansCurrent'
    BY <1>2, <2>1 DEF PgInv, CallsTrue, CallTrue, OneCall, RemovalFirst, ReadyMeansCurrent,
                      IsStep, fileVars
  <2>4. OneOfBoth'
    BY <1>1, <2>1 DEF PgInv, OneOfBoth, IsStep
  <2>5. Types' /\ FileTrue' /\ (openDBs \in OpenResults => Known(openDBs))'
    BY <1>1, <1>2, <2>1 DEF PgInv, Types, FileTrue, Known, fileVars
  <2> QED
    BY <2>2, <2>3, <2>4, <2>5 DEF PgInv
<1>10. r.op \in Steps \cup {"rows"} /\ r.ok \in BOOLEAN
  BY <1>1 DEF ReplySet
<1> QED
  BY <1>6, <1>7, <1>8, <1>9, <1>10 DEF Steps

-----------------------------------------------------------------------------
(***************************************************************************)
(* AnswerKeeps: the native side does the first call and answers it; the    *)
(* answer is true of the file as it is then.                               *)
(***************************************************************************)
LEMMA AnswerKeeps ==
    ASSUME PgInv, calls # <<>>, calls' = Tail(calls), NEW e \in ReplySet,
           e.h = Head(calls).h, e.op = Head(calls).op,
           replies' = Append(replies, e), UNCHANGED <<at, openDBs>>,
           created => created', userVersion = Version => userVersion' = Version,
           e.op = "open" => /\ e.result.version >= 1 => created'
                            /\ e.result.version = Version => userVersion' = Version,
           e.op \in {"create", "update"} /\ e.ok => created',
           e.op = "version" /\ e.ok => userVersion' = Version
    PROVE  /\ calls' \in Seq(CallSet) /\ replies' \in Seq(ReplySet)
           /\ CallsTrue' /\ RepliesTrue' /\ OneCall' /\ OneReply' /\ OneOfBoth' /\ RemovalFirst'
<1> DEFINE c == Head(calls)
           n == Len(replies)
<1>1. /\ calls' \in Seq(CallSet) /\ Len(calls) = Len(calls') + 1
      /\ calls[1] = c /\ c \in CallSet /\ 1 \in 1 .. Len(calls)
      /\ \A i \in 1 .. Len(calls') : calls'[i] = calls[i + 1] /\ i + 1 \in 1 .. Len(calls)
  BY TailEach DEF PgInv, Types
<1>2. /\ replies' \in Seq(ReplySet) /\ Len(replies') = n + 1
      /\ \A i \in 1 .. n : replies'[i] = replies[i]
      /\ replies'[n + 1] = e
      /\ \A i \in 1 .. Len(replies') : i \in 1 .. n \/ i = n + 1
  BY AppendEach DEF PgInv, Types
<1>3. \A i \in 1 .. Len(calls') : calls'[i].op \in {"update", "version"} => created'
  BY <1>1 DEF PgInv, CallsTrue, CallTrue
<1>4. CallsTrue' /\ OneCall' /\ RemovalFirst' /\ (NoRemoval => NoRemoval')
  <2> HIDE DEF c
  <2> QED
    BY <1>1, <1>3, CallsKept
<1>5. IsStep(e) => at[e.h] = StageOf(e.op) /\ NoRemoval
  <2> SUFFICES ASSUME IsStep(e) PROVE at[e.h] = StageOf(e.op) /\ NoRemoval
    OBVIOUS
  <2>1. IsStep(calls[1]) /\ e.h = calls[1].h /\ e.op = calls[1].op
    BY <1>1 DEF IsStep
  <2>2. at[e.h] = StageOf(e.op)
    BY <1>1, <2>1 DEF PgInv, CallsTrue, CallTrue
  <2>3. ASSUME NEW i \in 1 .. Len(calls) PROVE calls[i].op # "remove"
    <3>1. 1 \in 1 .. i
      OBVIOUS
    <3> QED
      BY <2>1, <3>1 DEF PgInv, RemovalFirst
  <2> QED
    BY <2>2, <2>3 DEF NoRemoval
<1>6. RepliesTrue'
  <2> SUFFICES ASSUME NEW i \in 1 .. Len(replies') PROVE ReplyTrue(replies[i])'
    BY DEF RepliesTrue
  <2>1. CASE i = n + 1
    BY <1>2, <1>4, <1>5, <2>1 DEF ReplyTrue, IsStep, Known
  <2>2. CASE i \in 1 .. n
    <3>1. ReplyTrue(replies[i]) /\ replies'[i] = replies[i]
      BY <1>2, <2>2 DEF PgInv, RepliesTrue
    <3> QED
      BY <1>4, <3>1 DEF ReplyTrue, IsStep, Known
  <2> QED
    BY <1>2, <2>1, <2>2
<1>7. \A j \in 1 .. n : IsStep(e) /\ IsStep(replies[j]) => replies[j].h # e.h
  BY <1>1 DEF PgInv, OneOfBoth, IsStep
<1>8. OneReply'
  BY <1>2, <1>7 DEF PgInv, OneReply, IsStep
<1>9. OneOfBoth'
  <2> SUFFICES ASSUME NEW i \in 1 .. Len(calls'), NEW j \in 1 .. Len(replies'),
                      IsStep(calls'[i]), IsStep(replies'[j])
               PROVE  calls'[i].h # replies'[j].h
    BY DEF OneOfBoth, IsStep
  <2>1. calls'[i] = calls[i + 1] /\ i + 1 \in 1 .. Len(calls) /\ i + 1 # 1
    BY <1>1
  <2>2. CASE j = n + 1
    BY <1>1, <1>2, <2>1, <2>2 DEF PgInv, OneCall, IsStep
  <2>3. CASE j \in 1 .. n
    BY <1>2, <2>1, <2>3 DEF PgInv, OneOfBoth
  <2> QED
    BY <1>2, <2>2, <2>3
<1> QED
  BY <1>1, <1>2, <1>4, <1>6, <1>8, <1>9

LEMMA NativeKeepsInv ==
    ASSUME PgInv, Native
    PROVE  PgInv'
<1> DEFINE c == Head(calls)
<1>1. /\ calls # <<>> /\ calls' = Tail(calls)
      /\ calls' \in Seq(CallSet) /\ Len(calls) = Len(calls') + 1
      /\ calls[1] = c /\ c \in CallSet /\ 1 \in 1 .. Len(calls)
      /\ \A i \in 1 .. Len(calls') : calls'[i] = calls[i + 1] /\ i + 1 \in 1 .. Len(calls)
  BY TailEach DEF PgInv, Types, Native
<1>2. UNCHANGED <<platform, openDBs, at>>
  BY DEF Native
<1>3. CallTrue(c)
  BY <1>1 DEF PgInv, CallsTrue
<1>4. /\ NewFile \in OpenResults /\ NewFile.version = userVersion
      /\ c.h \in Helpers
  BY <1>1, PgAssumption DEF PgInv, Types, NewFile, OpenResults, CallSet
<1>5. ASSUME NEW op \in Steps \cup {"rows"}, NEW ok \in BOOLEAN, c.op = op,
             Reply(c.h, op, ok, NewFile),
             created => created', userVersion = Version => userVersion' = Version,
             op = "open" => userVersion' = userVersion,
             op \in {"create", "update"} /\ ok => created',
             op = "version" /\ ok => userVersion' = Version,
             exists' \in BOOLEAN, created' \in BOOLEAN, userVersion' \in 0 .. Version,
             FileTrue'
      PROVE  PgInv'
  <2> DEFINE e == [h |-> c.h, op |-> op, ok |-> ok, result |-> NewFile]
  <2>1. /\ e \in ReplySet /\ e.h = c.h /\ e.op = op /\ e.ok = ok /\ e.result = NewFile
        /\ replies' = Append(replies, e)
    BY <1>4, <1>5 DEF Reply, ReplySet
  <2>2. op = "open" => /\ NewFile.version >= 1 => created'
                       /\ NewFile.version = Version => userVersion' = Version
    BY <1>4, <1>5 DEF PgInv, FileTrue
  <2>3. /\ calls' \in Seq(CallSet) /\ replies' \in Seq(ReplySet)
        /\ CallsTrue' /\ RepliesTrue' /\ OneCall' /\ OneReply' /\ OneOfBoth' /\ RemovalFirst'
    <3>1. e.op = "open" => /\ e.result.version >= 1 => created'
                           /\ e.result.version = Version => userVersion' = Version
      BY <2>1, <2>2
    <3>2. /\ e.op \in {"create", "update"} /\ e.ok => created'
          /\ e.op = "version" /\ e.ok => userVersion' = Version
      BY <1>5
    <3>3. e.h = Head(calls).h /\ e.op = Head(calls).op /\ UNCHANGED <<at, openDBs>>
      BY <1>2, <1>5
    <3>4. e \in ReplySet /\ replies' = Append(replies, e)
      BY <2>1
    <3> HIDE DEF e, c
    <3> QED
      BY <1>1, <1>5, <3>1, <3>2, <3>3, <3>4, AnswerKeeps
  <2>4. Types' /\ (openDBs \in OpenResults => Known(openDBs))' /\ ReadyMeansCurrent'
    BY <1>2, <1>5, <2>3 DEF PgInv, Types, Known, ReadyMeansCurrent
  <2> QED
    BY <1>5, <2>3, <2>4 DEF PgInv
<1>6. CASE /\ c.op = "open"
           /\ \E ok \in BOOLEAN : exists' = (exists \/ ok) /\ Reply(c.h, "open", ok, NewFile)
           /\ UNCHANGED <<userVersion, created, updated>>
  BY <1>5, <1>6 DEF PgInv, Types, FileTrue, Steps
<1>7. CASE /\ c.op \in {"create", "update", "rows"}
           /\ \E ok \in BOOLEAN :
                 /\ ok => exists
                 /\ created' = (created \/ (ok /\ c.op = "create"))
                 /\ Reply(c.h, c.op, ok, NewFile)
           /\ UNCHANGED <<exists, userVersion>>
  <2>1. PICK ok \in BOOLEAN :
            /\ ok => exists
            /\ created' = (created \/ (ok /\ c.op = "create"))
            /\ Reply(c.h, c.op, ok, NewFile)
    BY <1>7
  <2>2. c.op = "update" => created
    BY <1>3 DEF CallTrue
  <2>3. /\ FileTrue' /\ exists' \in BOOLEAN /\ created' \in BOOLEAN
        /\ userVersion' \in 0 .. Version
    BY <1>7, <2>1 DEF PgInv, Types, FileTrue
  <2>4. (created => created') /\ (c.op \in {"create", "update"} /\ ok => created')
    BY <2>1, <2>2
  <2>5. c.op \in Steps \cup {"rows"} /\ c.op # "open" /\ c.op # "version"
    BY <1>7 DEF Steps
  <2> HIDE DEF c
  <2> QED
    BY <1>5, <1>7, <2>1, <2>3, <2>4, <2>5
<1>8. CASE /\ c.op = "version" /\ userVersion' = (IF exists THEN c.arg ELSE userVersion)
           /\ Reply(c.h, "version", exists, NewFile)
           /\ UNCHANGED <<exists, created, updated>>
  <2>1. c.arg = Version /\ created
    BY <1>3, <1>8 DEF CallTrue
  <2>2. exists /\ userVersion' = Version /\ Version \in 0 .. Version
    BY <1>8, <2>1, PgAssumption DEF PgInv, FileTrue
  <2> QED
    BY <1>5, <1>8, <2>1, <2>2 DEF PgInv, Types, FileTrue, Steps
<1>9. CASE c.op \in {"close", "remove"} /\ UNCHANGED replies
           /\ (c.op = "close" => UNCHANGED fileVars)
           /\ (c.op = "remove" => exists' = FALSE /\ userVersion' = 0 /\ created' = FALSE)
  <2>1. c.op = "remove" =>
            /\ \A h \in Helpers : at[h] \in {"idle", "opening", "failed"}
            /\ openDBs \notin OpenResults
            /\ ~NoRemoval
    BY <1>1 DEF PgInv, RemovalFirst, NoRemoval
  <2>2. ASSUME NEW i \in 1 .. Len(calls'), calls'[i].op \in {"update", "version"}
        PROVE  created'
    <3>1. calls'[i] = calls[i + 1] /\ i + 1 \in 1 .. Len(calls)
      BY <1>1
    <3>2. CallTrue(calls[i + 1]) /\ calls[i + 1].h \in Helpers
      BY <3>1, SeqElements DEF PgInv, Types, CallsTrue, CallSet
    <3>3. created /\ at[calls[i + 1].h] \in {"batch", "pragma"}
      BY <2>2, <3>1, <3>2 DEF CallTrue, IsStep, Steps, StageOf
    <3> QED
      BY <1>9, <2>1, <3>2, <3>3 DEF fileVars
  <2>3. CallsTrue' /\ OneCall' /\ RemovalFirst' /\ (NoRemoval => NoRemoval')
    <3> HIDE DEF c
    <3> QED
      BY <1>1, <1>2, <2>2, CallsKept
  <2>4. RepliesTrue' /\ OneReply'
    <3>1. NoRemoval => NoRemoval' /\ (created => created')
                       /\ (userVersion = Version => userVersion' = Version)
      BY <1>9, <2>1, <2>3 DEF fileVars
    <3> QED
      BY <1>2, <1>9, <3>1, SameReplies, RepliesKept
  <2>5. OneOfBoth'
    BY <1>1, <1>9 DEF PgInv, OneOfBoth, IsStep
  <2>6. Types' /\ FileTrue'
    <3>1. CASE c.op = "close"
      BY <1>1, <1>2, <1>9, <3>1 DEF PgInv, Types, FileTrue, fileVars
    <3>2. CASE c.op = "remove"
      <4>1. exists' = FALSE /\ userVersion' = 0 /\ created' = FALSE /\ replies' = replies
        BY <1>9, <3>2
      <4>2. 0 \in 0 .. Version
        BY PgAssumption
      <4>3. FileTrue'
        BY <4>1 DEF FileTrue
      <4>4. calls' \in Seq(CallSet) /\ replies' \in Seq(ReplySet)
        BY <1>1, <4>1 DEF PgInv, Types
      <4>5. /\ platform' \in {"android", "ios"} /\ at' \in [Helpers -> Stages]
            /\ openDBs' \in {NoEntry, TrueEntry} \cup OpenResults
        BY <1>2 DEF PgInv, Types
      <4>6. Types'
        BY <4>1, <4>2, <4>4, <4>5 DEF Types
      <4> QED
        BY <4>3, <4>6
    <3> QED
      BY <1>9, <3>1, <3>2
  <2>7. (openDBs \in OpenResults => Known(openDBs))' /\ ReadyMeansCurrent'
    BY <1>2, <1>9, <2>1 DEF PgInv, Known, ReadyMeansCurrent, fileVars, Told
  <2> QED
    BY <2>3, <2>4, <2>5, <2>6, <2>7 DEF PgInv
<1> QED
  BY <1>6, <1>7, <1>8, <1>9 DEF Native, fileVars

LEMMA KillKeepsInv ==
    ASSUME PgInv, Kill
    PROVE  PgInv'
<1>1. /\ UNCHANGED <<platform, exists, created, userVersion>>
      /\ openDBs' = NoEntry /\ openDBs' \notin OpenResults
      /\ at' = [h \in Helpers |-> "idle"] /\ calls' = <<>> /\ replies' = <<>>
  BY DEF Kill, fileVars, NoEntry, OpenResults
<1>2. Types' /\ FileTrue' /\ ReadyMeansCurrent'
  BY <1>1 DEF PgInv, Types, FileTrue, ReadyMeansCurrent, Stages, AtRest, Told
<1>3. CallsTrue' /\ RepliesTrue' /\ OneCall' /\ OneReply' /\ OneOfBoth' /\ RemovalFirst'
  BY <1>1 DEF CallsTrue, RepliesTrue, OneCall, OneReply, OneOfBoth, RemovalFirst
<1> QED
  BY <1>1, <1>2, <1>3 DEF PgInv

LEMMA PgInvInductive == PgInv /\ [PgNext]_pgVars => PgInv'
<1> SUFFICES ASSUME PgInv, [PgNext]_pgVars PROVE PgInv'
  OBVIOUS
<1>1. CASE \E h \in Helpers :
               OpenDatabase(h) \/ Close(h) \/ RemoveDatabase(h) \/ Transaction(h)
  BY <1>1, OpenDatabaseKeepsInv, CloseKeepsInv, RemoveDatabaseKeepsInv
<1>2. CASE Native \/ Handle \/ Kill
  BY <1>2, NativeKeepsInv, HandleKeepsInv, KillKeepsInv
<1>3. CASE UNCHANGED pgVars
  BY <1>3
  DEF pgVars, fileVars, PgInv, Types, FileTrue, CallsTrue, CallTrue, RepliesTrue, ReplyTrue,
      OneCall, OneReply, OneOfBoth, RemovalFirst, NoRemoval, Known, ReadyMeansCurrent, IsStep
<1> QED
  BY <1>1, <1>2, <1>3 DEF PgNext

(***************************************************************************)
(* PgVersionIsTrue: however many helpers open, close and remove the file,  *)
(* and wherever the process is killed, user_version speaks only of a file  *)
(* whose CREATE_BATCH is committed, and a helper that told its page that   *)
(* the database is open did so of a file of its version.                   *)
(***************************************************************************)
THEOREM PgVersionIsTrue == PgSpec => []VersionIsTrue
<1>1. PgInv => VersionIsTrue
  BY DEF PgInv, FileTrue, VersionIsTrue, VersionMeansCreated
<1> QED
  BY <1>1, PgInvInit, PgInvInductive, PTL DEF PgSpec

-----------------------------------------------------------------------------
(***************************************************************************)
(* The statements of a page.  Several functions defined by recursion go    *)
(* along marks, values and batches; induction shows step by step that what *)
(* the database runs is what the calls mean.                               *)
(***************************************************************************)
(* for-in takes every column of an object, and each once. *)
LEMMA ForInTakesAll ==
    ASSUME NEW values \in ValueObjects, NEW keys \in ForIn(values)
    PROVE  /\ DOMAIN values \subseteq Columns
           /\ keys \in Seq(DOMAIN values)
           /\ \A i, j \in 1 .. Len(keys) : keys[i] = keys[j] => i = j
           /\ \A c \in DOMAIN values : \E i \in 1 .. Len(keys) : keys[i] = c
           /\ keys = <<>> <=> DOMAIN values = {}
<1> DEFINE C == DOMAIN values
           n == Cardinality(C)
<1>1. C \subseteq Columns
  BY DEF ValueObjects
<1>2. IsFiniteSet(C) /\ n \in Nat
  BY <1>1, StatementAssumption, FS_Subset, FS_CardinalityType
<1>3. keys \in [1 .. n -> C] /\ \A i, j \in 1 .. n : keys[i] = keys[j] => i = j
  BY DEF ForIn
<1> HIDE DEF C, n
<1>4. keys \in Seq(C) /\ Len(keys) = n /\ DOMAIN keys = 1 .. n
  BY <1>2, <1>3
<1>5. ASSUME NEW c \in C, \A i \in 1 .. n : keys[i] # c PROVE FALSE
  <2>1. IsFiniteSet(C \ {c}) /\ Cardinality(C \ {c}) = n - 1
    BY <1>2, FS_RemoveElement DEF n
  <2>2. IsFiniteSet(1 .. n) /\ Cardinality(1 .. n) = n
    <3>1. n \in Int /\ 1 \in Int /\ (IF 1 > n THEN 0 ELSE n - 1 + 1) = n
      BY <1>2
    <3> QED
      BY <3>1, FS_Interval
  <2>3. keys \in [1 .. n -> C \ {c}]
    BY <1>3, <1>5
  <2>4. n - 1 < n
    BY <1>2
  <2>5. \E i, j \in 1 .. n : i # j /\ keys[i] = keys[j]
    BY <2>1, <2>2, <2>3, <2>4, FS_PigeonHole
  <2> QED
    BY <1>3, <2>5
<1>6. keys = <<>> <=> C = {}
  <2>1. keys = <<>> <=> n = 0
    BY <1>2, <1>4
  <2>2. n = 0 <=> C = {}
    BY <1>2, FS_EmptySet DEF n
  <2> QED
    BY <2>1, <2>2
<1> QED
  BY <1>1, <1>3, <1>4, <1>5, <1>6 DEF C

(* Marks for the keys and the values beside them give each column its own. *)
LEMMA AssignedByKeys ==
    ASSUME NEW values \in ValueObjects, NEW keys \in ForIn(values), NEW s,
           s.set = keys, \A i \in 1 .. Len(keys) : s.args[i] = values[keys[i]]
    PROVE  \A c, old : Assigned(s, c, old) = IF c \in DOMAIN values THEN values[c] ELSE old
<1> SUFFICES ASSUME NEW c, NEW old
             PROVE  Assigned(s, c, old) = IF c \in DOMAIN values THEN values[c] ELSE old
  OBVIOUS
<1>1. /\ keys \in Seq(DOMAIN values) /\ DOMAIN keys = 1 .. Len(keys)
      /\ \A i \in 1 .. Len(keys) : keys[i] \in DOMAIN values
      /\ \A d \in DOMAIN values : \E i \in 1 .. Len(keys) : keys[i] = d
  BY ForInTakesAll
<1>2. CASE c \in DOMAIN values
  <2> DEFINE i == CHOOSE i \in DOMAIN s.set : s.set[i] = c
  <2>1. i \in 1 .. Len(keys) /\ keys[i] = c
    BY <1>1, <1>2
  <2>2. Assigned(s, c, old) = s.args[i]
    BY <1>1, <1>2 DEF Assigned
  <2> HIDE DEF i
  <2> QED
    BY <1>2, <2>1, <2>2
<1>3. CASE c \notin DOMAIN values
  BY <1>1, <1>3 DEF Assigned
<1> QED
  BY <1>2, <1>3

-----------------------------------------------------------------------------
LEMMA CallShape ==
    ASSUME NEW call \in Calls
    PROVE  /\ call.op \in {"insert", "update", "del", "query"}
           /\ call.op \in {"insert", "update"} => call.values \in ValueObjects
           /\ call.op # "insert" => call.where \in Conditions
                                    /\ call.whereArgs \in [DOMAIN call.where -> Values]
<1>1. CASE call \in {Asked("insert", values, <<>>, <<>>) : values \in ValueObjects}
  BY <1>1 DEF Asked
<1>2. ASSUME NEW w \in Conditions,
             call \in [op : {"update"}, values : ValueObjects, where : {w},
                       whereArgs : [DOMAIN w -> Values]]
      PROVE  call.op = "update" /\ call.values \in ValueObjects /\ call.where = w
             /\ call.whereArgs \in [DOMAIN w -> Values]
  BY <1>2
<1>3. ASSUME NEW w \in Conditions,
             call \in [op : {"del", "query"}, values : {NoValues}, where : {w},
                       whereArgs : [DOMAIN w -> Values]]
      PROVE  call.op \in {"del", "query"} /\ call.where = w
             /\ call.whereArgs \in [DOMAIN w -> Values]
  BY <1>3
<1> QED
  BY <1>1, <1>2, <1>3 DEF Calls

(* The arguments of a condition are a list, one for each of its marks. *)
LEMMA ArgsOfCondition ==
    ASSUME NEW where \in Conditions, NEW args \in [DOMAIN where -> Values]
    PROVE  /\ args \in Seq(Values) /\ Len(args) = Len(where) /\ Len(where) \in Nat
           /\ DOMAIN where = 1 .. Len(where)
<1>1. where \in Seq(Columns)
  <2>1. CASE where = <<>>
    BY <2>1
  <2>2. ASSUME NEW c \in Columns, where = <<c>> PROVE where \in Seq(Columns)
    BY <2>2
  <2> QED
    BY <2>1, <2>2 DEF Conditions
<1>2. Len(where) \in Nat /\ DOMAIN where = 1 .. Len(where)
  BY <1>1
<1> QED
  BY <1>2

(* The values of the keys, as a list. *)
LEMMA ValuesOfKeys ==
    ASSUME NEW values \in ValueObjects, NEW keys \in ForIn(values), NEW args,
           args = [i \in DOMAIN keys |-> values[keys[i]]]
    PROVE  /\ args \in Seq(Values) /\ Len(args) = Len(keys) /\ Len(keys) \in Nat
           /\ \A i \in 1 .. Len(keys) : args[i] = values[keys[i]]
<1>1. keys \in Seq(DOMAIN values) /\ Len(keys) \in Nat /\ DOMAIN keys = 1 .. Len(keys)
  BY ForInTakesAll
<1>2. \A i \in 1 .. Len(keys) : keys[i] \in DOMAIN values
  BY <1>1
<1>3. \A c \in DOMAIN values : values[c] \in Values
  BY DEF ValueObjects
<1>4. args \in [1 .. Len(keys) -> Values]
  BY <1>1, <1>2, <1>3
<1> QED
  BY <1>1, <1>4

(***************************************************************************)
(* A statement does to any table what its call means.                      *)
(***************************************************************************)
RunsAsMeant(s, call) ==
    /\ s.op = call.op
    /\ IsSql(s) => IsMeant(call)
    /\ \A now : RowsAfter1(now, s) = Meant(now, call)
    /\ call.op = "query" => \A row : Fits(row, s.where, s.args) = FitsCall(row, call)

LEMMA InsertRuns ==
    ASSUME NEW call \in Calls, call.op = "insert", NEW keys \in ForIn(call.values)
    PROVE  RunsAsMeant(Insert(call, keys), call)
<1> DEFINE s == Insert(call, keys)
<1>1. call.values \in ValueObjects
  BY CallShape
<1>2. /\ s.op = "insert" /\ s.set = keys
      /\ s.args = [i \in DOMAIN keys |-> call.values[keys[i]]]
  BY DEF Insert
<1>3. \A i \in 1 .. Len(keys) : s.args[i] = call.values[keys[i]]
  BY <1>1, <1>2, ValuesOfKeys
<1> HIDE DEF s
<1>4. \A c : Assigned(s, c, Null) = IF c \in DOMAIN call.values THEN call.values[c] ELSE Null
  BY <1>1, <1>2, <1>3, AssignedByKeys
<1>5. \A now : RowsAfter1(now, s) = Meant(now, call)
  BY <1>2, <1>4 DEF RowsAfter1, Meant
<1>6. IsSql(s) => IsMeant(call)
  BY <1>1, <1>2, ForInTakesAll DEF IsSql, IsMeant
<1> QED
  BY <1>2, <1>5, <1>6 DEF RunsAsMeant, s

LEMMA UpdateRuns ==
    ASSUME NEW call \in Calls, call.op = "update", NEW keys \in ForIn(call.values)
    PROVE  RunsAsMeant(Update(call, keys), call)
<1> DEFINE s == Update(call, keys)
           front == [i \in DOMAIN keys |-> call.values[keys[i]]]
           back == call.whereArgs
<1>1. /\ call.values \in ValueObjects /\ call.where \in Conditions
      /\ back \in [DOMAIN call.where -> Values]
  BY CallShape
<1>2. s.op = "update" /\ s.set = keys /\ s.where = call.where /\ s.args = front \o back
  BY DEF Update
<1>3. /\ front \in Seq(Values) /\ Len(front) = Len(keys) /\ Len(keys) \in Nat
      /\ \A i \in 1 .. Len(keys) : front[i] = call.values[keys[i]]
  BY <1>1, ValuesOfKeys
<1>4. /\ back \in Seq(Values) /\ Len(back) = Len(call.where) /\ Len(back) \in Nat
      /\ DOMAIN call.where = 1 .. Len(back)
  BY <1>1, ArgsOfCondition
<1> HIDE DEF s, front, back
<1>5. /\ s.args \in Seq(Values) /\ Len(s.args) = Len(keys) + Len(back)
      /\ \A i \in 1 .. Len(keys) : s.args[i] = front[i]
      /\ \A i \in 1 .. Len(back) : s.args[Len(keys) + i] = back[i]
  <2>1. \A p, q \in Seq(Values) :
           /\ p \o q \in Seq(Values) /\ Len(p \o q) = Len(p) + Len(q)
           /\ \A i \in 1 .. Len(p) : (p \o q)[i] = p[i]
           /\ \A i \in 1 .. Len(q) : (p \o q)[Len(p) + i] = q[i]
    OBVIOUS
  <2>2. /\ front \o back \in Seq(Values) /\ Len(front \o back) = Len(front) + Len(back)
        /\ \A i \in 1 .. Len(front) : (front \o back)[i] = front[i]
        /\ \A i \in 1 .. Len(back) : (front \o back)[Len(front) + i] = back[i]
    BY <1>3, <1>4, <2>1
  <2> QED
    BY <1>2, <1>3, <2>2
<1>6. \A i \in 1 .. Len(back) : AfterSet(s)[i] = back[i]
  <2>1. ASSUME NEW i \in 1 .. Len(back)
        PROVE  SubSeq(s.args, Len(keys) + 1, Len(s.args))[i] = s.args[Len(keys) + i]
    BY <1>3, <1>4, <1>5
  <2> QED
    BY <1>2, <1>5, <2>1 DEF AfterSet
<1>7. \A c, old : Assigned(s, c, old)
                    = IF c \in DOMAIN call.values THEN call.values[c] ELSE old
  <2>1. \A i \in 1 .. Len(keys) : s.args[i] = call.values[keys[i]]
    BY <1>3, <1>5
  <2>2. s.set = keys /\ call.values \in ValueObjects
    BY <1>1, <1>2
  <2> QED
    BY <2>1, <2>2, AssignedByKeys
<1>8. \A row : Fits(row, s.where, AfterSet(s)) = FitsCall(row, call)
  BY <1>2, <1>4, <1>6 DEF Fits, FitsCall, back
<1>9. \A now : RowsAfter1(now, s) = Meant(now, call)
  BY <1>2, <1>7, <1>8 DEF RowsAfter1, Meant
<1>10. IsSql(s) => IsMeant(call)
  BY <1>1, <1>2, ForInTakesAll DEF IsSql, IsMeant
<1> QED
  BY <1>2, <1>9, <1>10 DEF RunsAsMeant, s

LEMMA DelRuns ==
    ASSUME NEW call \in Calls, call.op = "del"
    PROVE  RunsAsMeant(Del(call), call)
BY DEF RunsAsMeant, Del, IsMeant, IsSql, RowsAfter1, Meant, FitsCall

LEMMA QueryRuns ==
    ASSUME NEW call \in Calls, call.op = "query"
    PROVE  RunsAsMeant(Query(call), call)
<1> DEFINE s == Query(call)
<1>1. s.op = "query" /\ s.where = call.where
      /\ s.args = IF call.where = <<>> THEN <<>> ELSE call.whereArgs
  BY DEF Query
<1> HIDE DEF s
<1>2. \A row : Fits(row, s.where, s.args) = FitsCall(row, call)
  <2>1. CASE call.where = <<>>
    <3>1. DOMAIN call.where = {}
      BY <2>1
    <3> QED
      BY <1>1, <3>1 DEF Fits, FitsCall
  <2>2. CASE call.where # <<>>
    BY <1>1, <2>2 DEF FitsCall
  <2> QED
    BY <2>1, <2>2
<1>3. \A now : RowsAfter1(now, s) = Meant(now, call)
  BY <1>1 DEF RowsAfter1, Meant
<1> QED
  BY <1>1, <1>2, <1>3 DEF RunsAsMeant, IsMeant, s

LEMMA CompiledRuns ==
    ASSUME NEW call \in Calls, NEW s \in Compiled(call)
    PROVE  RunsAsMeant(s, call) /\ s.op \in {"insert", "update", "del", "query"}
<1>1. call.op \in {"insert", "update", "del", "query"}
  BY CallShape
<1>2. RunsAsMeant(s, call)
  BY <1>1, InsertRuns, UpdateRuns, DelRuns, QueryRuns DEF Compiled
<1> QED
  BY <1>1, <1>2 DEF RunsAsMeant

-----------------------------------------------------------------------------
(* What a run of a batch and what the calls ask for go through, step by step. *)
Db == [now |-> rows, kept |-> rows, open |-> FALSE, selected |-> selected]

DbSteps(batch, n, f) ==
    f = [i \in 0 .. n |-> IF i = 0 THEN Db ELSE RunOne(f[i - 1], batch[i])]

Ask(a, call) ==
    [now |-> Meant(a.now, call),
     selected |-> IF call.op = "query" THEN {row \in a.now : FitsCall(row, call)}
                  ELSE a.selected]

AskedSteps(requests, f) ==
    f = [i \in 0 .. Len(requests) |->
            IF i = 0 THEN [now |-> wanted, selected |-> due] ELSE Ask(f[i - 1], requests[i])]

(* The same, one step at a time. *)
Ran(batch, n, f) ==
    f[0] = Db /\ \A i \in 1 .. n : f[i] = RunOne(f[i - 1], batch[i])

Asks(requests, f) ==
    /\ f[0] = [now |-> wanted, selected |-> due]
    /\ \A i \in 1 .. Len(requests) : f[i] = Ask(f[i - 1], requests[i])

LEMMA DbStepsExist ==
    ASSUME NEW batch, NEW n \in Nat
    PROVE  \E f : DbSteps(batch, n, f)
<1> DEFINE S == {k \in Nat : \E f : DbSteps(batch, k, f)}
<1>1. 0 \in S
  <2> DEFINE f == [i \in 0 .. 0 |-> Db]
             h == [i \in 0 .. 0 |-> IF i = 0 THEN Db ELSE RunOne(f[i - 1], batch[i])]
  <2>1. f = h
    OBVIOUS
  <2>2. DbSteps(batch, 0, f)
    BY <2>1 DEF DbSteps
  <2> QED
    BY <2>2
<1>2. ASSUME NEW k \in Nat, k \in S PROVE k + 1 \in S
  <2>1. PICK g : DbSteps(batch, k, g)
    BY <1>2
  <2> DEFINE step == RunOne(g[k], batch[k + 1])
             f == [i \in 0 .. (k + 1) |-> IF i <= k THEN g[i] ELSE step]
             h == [i \in 0 .. (k + 1) |-> IF i = 0 THEN Db ELSE RunOne(f[i - 1], batch[i])]
  <2>2. \A i \in 0 .. k : g[i] = IF i = 0 THEN Db ELSE RunOne(g[i - 1], batch[i])
    BY <2>1 DEF DbSteps
  <2>3. ASSUME NEW i \in 0 .. (k + 1) PROVE f[i] = h[i]
    <3>1. CASE i = k + 1
      <4>1. i # 0 /\ i - 1 = k /\ ~(i <= k) /\ k <= k /\ k \in 0 .. (k + 1)
        BY <3>1
      <4>2. f[i] = step /\ f[i - 1] = g[k]
        BY <4>1
      <4> QED
        BY <4>1, <4>2, <3>1
    <3>2. CASE i \in 0 .. k /\ i # 0
      <4>1. i - 1 \in 0 .. k /\ i - 1 \in 0 .. (k + 1) /\ i <= k /\ i - 1 <= k
        BY <3>2
      <4>2. f[i] = g[i] /\ f[i - 1] = g[i - 1]
        BY <4>1
      <4> HIDE DEF f
      <4> QED
        BY <2>2, <3>2, <4>2
    <3>3. CASE i = 0
      BY <2>2, <3>3
    <3> QED
      BY <3>1, <3>2, <3>3
  <2>4. f = h
    BY <2>3
  <2>5. DbSteps(batch, k + 1, f)
    BY <2>4 DEF DbSteps
  <2> HIDE DEF f
  <2> QED
    BY <2>5
<1> HIDE DEF S
<1>3. \A k \in Nat : k \in S
  BY <1>1, <1>2, SetInduction
<1> QED
  BY <1>3 DEF S

LEMMA AskedStepsExist ==
    ASSUME NEW requests, Len(requests) \in Nat
    PROVE  \E f : AskedSteps(requests, f)
<1> DEFINE Asked0 == [now |-> wanted, selected |-> due]
           Part(k, f) == f = [i \in 0 .. k |-> IF i = 0 THEN Asked0
                                               ELSE Ask(f[i - 1], requests[i])]
           S == {k \in Nat : \E f : Part(k, f)}
<1>1. 0 \in S
  <2> DEFINE f == [i \in 0 .. 0 |-> Asked0]
             h == [i \in 0 .. 0 |-> IF i = 0 THEN Asked0 ELSE Ask(f[i - 1], requests[i])]
  <2>1. f = h
    OBVIOUS
  <2>2. Part(0, f)
    BY <2>1
  <2> QED
    BY <2>2
<1>2. ASSUME NEW k \in Nat, k \in S PROVE k + 1 \in S
  <2>1. PICK g : Part(k, g)
    BY <1>2
  <2> HIDE DEF Asked0
  <2> DEFINE step == Ask(g[k], requests[k + 1])
             f == [i \in 0 .. (k + 1) |-> IF i <= k THEN g[i] ELSE step]
             h == [i \in 0 .. (k + 1) |-> IF i = 0 THEN Asked0 ELSE Ask(f[i - 1], requests[i])]
  <2>2. \A i \in 0 .. k : g[i] = IF i = 0 THEN Asked0 ELSE Ask(g[i - 1], requests[i])
    BY <2>1
  <2>3. ASSUME NEW i \in 0 .. (k + 1) PROVE f[i] = h[i]
    <3>1. CASE i = k + 1
      <4>1. i # 0 /\ i - 1 = k /\ ~(i <= k) /\ k <= k /\ k \in 0 .. (k + 1)
        BY <3>1
      <4>2. f[i] = step /\ f[i - 1] = g[k]
        BY <4>1
      <4> QED
        BY <4>1, <4>2, <3>1
    <3>2. CASE i \in 0 .. k /\ i # 0
      <4>1. i - 1 \in 0 .. k /\ i - 1 \in 0 .. (k + 1) /\ i <= k /\ i - 1 <= k
        BY <3>2
      <4>2. f[i] = g[i] /\ f[i - 1] = g[i - 1]
        BY <4>1
      <4> HIDE DEF f
      <4> QED
        BY <2>2, <3>2, <4>2
    <3>3. CASE i = 0
      BY <2>2, <3>3
    <3> QED
      BY <3>1, <3>2, <3>3
  <2>4. f = h
    BY <2>3
  <2>5. Part(k + 1, f)
    BY <2>4
  <2> HIDE DEF f, Part
  <2> QED
    BY <2>5
<1> HIDE DEF S
<1>3. \A k \in Nat : k \in S
  BY <1>1, <1>2, SetInduction
<1>4. Len(requests) \in S
  BY <1>3
<1> QED
  BY <1>4 DEF S, AskedSteps

LEMMA RunFirstSteps ==
    ASSUME NEW batch, NEW n \in Nat
    PROVE  \E f : RunFirst(batch, n) = f[n] /\ Ran(batch, n, f)
<1> DEFINE f == CHOOSE f : DbSteps(batch, n, f)
<1>1. DbSteps(batch, n, f)
  BY DbStepsExist
<1>2. RunFirst(batch, n) = f[n]
  BY DEF RunFirst, DbSteps, Db
<1> HIDE DEF f
<1>3. \A i \in 0 .. n : f[i] = IF i = 0 THEN Db ELSE RunOne(f[i - 1], batch[i])
  BY <1>1 DEF DbSteps
<1>4. Ran(batch, n, f)
  BY <1>3 DEF Ran
<1> QED
  BY <1>2, <1>4

LEMMA MeantByAllSteps ==
    ASSUME NEW requests, Len(requests) \in Nat
    PROVE  \E f : MeantByAll(requests) = f[Len(requests)] /\ Asks(requests, f)
<1> DEFINE f == CHOOSE f : AskedSteps(requests, f)
<1>1. AskedSteps(requests, f)
  BY AskedStepsExist
<1>2. MeantByAll(requests) = f[Len(requests)]
  BY DEF MeantByAll, AskedSteps, Ask
<1> HIDE DEF f
<1>3. \A i \in 0 .. Len(requests) :
         f[i] = IF i = 0 THEN [now |-> wanted, selected |-> due] ELSE Ask(f[i - 1], requests[i])
  BY <1>1 DEF AskedSteps
<1>4. Asks(requests, f)
  BY <1>3 DEF Asks
<1> QED
  BY <1>2, <1>4

-----------------------------------------------------------------------------
Statements == UNION {Compiled(call) : call \in Calls}

(* Statements ss, each compiled from its call in cs. *)
Matches(ss, cs) ==
    /\ ss \in Seq(Statements) /\ cs \in Seq(Calls) /\ Len(ss) = Len(cs)
    /\ \A i \in 1 .. Len(cs) : cs[i] \in Calls /\ ss[i] \in Compiled(cs[i])

(* A batch is a statement by itself, or the calls of a transaction. *)
BatchTrue(b) ==
    \/ Len(b.requests) = 1 /\ Matches(b.statements, b.requests)
    \/ \E ss : Matches(ss, b.requests) /\ b.statements = Batch(ss)

(***************************************************************************)
(* TableInv is inductive: what waits in a transaction or on the way to the *)
(* database is compiled from the calls it stands for, in their order.      *)
(***************************************************************************)
TableInv ==
    /\ TableAsAsked
    /\ executes \in Seq([s : Statements, call : Calls])
    /\ \A i \in 1 .. Len(executes) : executes[i].s \in Compiled(executes[i].call)
    /\ batches \in Seq([statements : Seq(Statements \cup {Begin, Commit}), requests : Seq(Calls)])
    /\ \A i \in 1 .. Len(batches) : BatchTrue(batches[i])

(* One statement takes the table where its call wants it. *)
LEMMA RunOneAsks ==
    ASSUME NEW call \in Calls, NEW s \in Compiled(call), NEW db, NEW a,
           db.open \in BOOLEAN, db.now = a.now, db.selected = a.selected
    PROVE  RunOne(db, s) = [now |-> Ask(a, call).now, kept |-> db.kept, open |-> db.open,
                            selected |-> Ask(a, call).selected]
<1>1. /\ s.op = call.op /\ s.op \in {"insert", "update", "del", "query"}
      /\ RowsAfter1(db.now, s) = Meant(a.now, call)
      /\ call.op = "query" => \A row : Fits(row, s.where, s.args) = FitsCall(row, call)
  BY CompiledRuns DEF RunsAsMeant
<1>2. s.op # "BEGIN" /\ s.op # "COMMIT"
  BY <1>1
<1>3. ((db.open \/ s.op = "BEGIN") /\ s.op # "COMMIT") = db.open
  BY <1>2
<1>4. (IF s.op = "query" THEN {row \in db.now : Fits(row, s.where, s.args)} ELSE db.selected)
        = (IF call.op = "query" THEN {row \in a.now : FitsCall(row, call)} ELSE a.selected)
  BY <1>1
<1> QED
  BY <1>1, <1>2, <1>3, <1>4 DEF RunOne, Ask

LEMMA RunCommit ==
    ASSUME NEW db
    PROVE  /\ RunOne(db, Commit).now = db.now /\ RunOne(db, Commit).open = FALSE
           /\ RunOne(db, Commit).selected = db.selected
<1>1. RowsAfter1(db.now, Commit) = db.now
  BY DEF RowsAfter1, Commit
<1> QED
  BY <1>1 DEF RunOne, Commit

LEMMA BatchElements ==
    ASSUME NEW ss \in Seq(Statements)
    PROVE  /\ Batch(ss) \in Seq(Statements \cup {Begin, Commit})
           /\ Len(ss) \in Nat /\ Len(Batch(ss)) = Len(ss) + 2
           /\ Batch(ss)[1] = Begin
           /\ \A i \in 1 .. Len(ss) : Batch(ss)[i + 1] = ss[i]
           /\ Batch(ss)[Len(ss) + 2] = Commit
<1> DEFINE T == Statements \cup {Begin, Commit}
<1>1. <<Begin>> \in Seq(T) /\ <<Commit>> \in Seq(T) /\ ss \in Seq(T)
  OBVIOUS
<1> HIDE DEF T
<1>2. \A p, q, r \in Seq(T) :
         /\ (p \o q) \o r \in Seq(T)
         /\ Len((p \o q) \o r) = Len(p) + Len(q) + Len(r)
         /\ \A i \in 1 .. Len(p) : ((p \o q) \o r)[i] = p[i]
         /\ \A i \in 1 .. Len(q) : ((p \o q) \o r)[Len(p) + i] = q[i]
         /\ \A i \in 1 .. Len(r) : ((p \o q) \o r)[Len(p) + Len(q) + i] = r[i]
  OBVIOUS
<1>3. Len(ss) \in Nat /\ Len(<<Begin>>) = 1 /\ Len(<<Commit>>) = 1
      /\ <<Begin>>[1] = Begin /\ <<Commit>>[1] = Commit
  OBVIOUS
<1>4. /\ (<<Begin>> \o ss) \o <<Commit>> \in Seq(T)
      /\ Len((<<Begin>> \o ss) \o <<Commit>>) = 1 + Len(ss) + 1
      /\ ((<<Begin>> \o ss) \o <<Commit>>)[1] = Begin
      /\ \A i \in 1 .. Len(ss) : ((<<Begin>> \o ss) \o <<Commit>>)[1 + i] = ss[i]
      /\ ((<<Begin>> \o ss) \o <<Commit>>)[1 + Len(ss) + 1] = Commit
  BY <1>1, <1>2, <1>3
<1>5. 1 + Len(ss) + 1 = Len(ss) + 2 /\ \A i \in 1 .. Len(ss) : 1 + i = i + 1
  BY <1>3
<1> QED
  BY <1>3, <1>4, <1>5 DEF Batch, T

(* The database within a transaction in which a was asked so far. *)
Within(a) == [now |-> a.now, kept |-> rows, open |-> TRUE, selected |-> a.selected]

LEMMA WithinFields ==
    ASSUME NEW a
    PROVE  /\ Within(a).now = a.now /\ Within(a).kept = rows
           /\ Within(a).open = TRUE /\ Within(a).selected = a.selected
BY DEF Within

(* Between BEGIN and COMMIT the rows go where the calls want them, and those
   from before are kept. *)
LEMMA InTransaction ==
    ASSUME TableAsAsked, NEW ss, NEW cs, Matches(ss, cs), NEW n \in Nat, n <= Len(cs) + 2,
           NEW f, Ran(Batch(ss), n, f), NEW g, Asks(cs, g)
    PROVE  \A k \in 0 .. Len(cs) : k + 1 <= n =>
               f[k + 1] = Within(g[k])
<1> DEFINE L == Len(cs)
           S == {k \in Nat : k <= L /\ k + 1 <= n => f[k + 1] = Within(g[k])}
<1>1. /\ L \in Nat /\ Batch(ss)[1] = Begin
      /\ \A i \in 1 .. L : Batch(ss)[i + 1] = ss[i]
      /\ \A i \in 1 .. L : cs[i] \in Calls /\ ss[i] \in Compiled(cs[i])
  BY BatchElements DEF Matches
<1>2. 0 \in S
  <2> SUFFICES ASSUME 1 <= n PROVE f[1] = Within(g[0])
    BY <1>1
  <2>1. f[1] = RunOne(Db, Begin) /\ g[0] = [now |-> wanted, selected |-> due]
    BY <1>1 DEF Ran, Asks
  <2>2. RowsAfter1(rows, Begin) = rows
    BY DEF RowsAfter1, Begin
  <2>3. RunOne(Db, Begin) = [now |-> rows, kept |-> rows, open |-> TRUE, selected |-> selected]
    BY <2>2 DEF RunOne, Db, Begin
  <2>4. g[0].now = rows /\ g[0].selected = selected
    BY <2>1 DEF TableAsAsked
  <2> QED
    BY <2>1, <2>3, <2>4 DEF Within
<1>3. ASSUME NEW k \in Nat, k \in S PROVE k + 1 \in S
  <2> SUFFICES ASSUME k + 1 <= L, (k + 1) + 1 <= n PROVE f[(k + 1) + 1] = Within(g[k + 1])
    OBVIOUS
  <2>1. /\ k + 1 \in 1 .. L /\ (k + 1) + 1 \in 1 .. n
        /\ ((k + 1) + 1) - 1 = k + 1 /\ (k + 1) - 1 = k /\ k <= L /\ k + 1 <= n
    BY <1>1
  <2>2. f[k + 1] = Within(g[k])
    BY <1>3, <2>1
  <2>3. f[(k + 1) + 1] = RunOne(f[k + 1], ss[k + 1]) /\ g[k + 1] = Ask(g[k], cs[k + 1])
    BY <1>1, <2>1 DEF Ran, Asks
  <2>4. cs[k + 1] \in Calls /\ ss[k + 1] \in Compiled(cs[k + 1])
    BY <1>1, <2>1
  <2>5. /\ f[k + 1].open = TRUE /\ f[k + 1].kept = rows
        /\ f[k + 1].now = g[k].now /\ f[k + 1].selected = g[k].selected
    BY <2>2, WithinFields
  <2>6. RunOne(f[k + 1], ss[k + 1])
          = [now |-> Ask(g[k], cs[k + 1]).now, kept |-> f[k + 1].kept, open |-> f[k + 1].open,
             selected |-> Ask(g[k], cs[k + 1]).selected]
    <3> DEFINE db == f[k + 1]
               a == g[k]
               call == cs[k + 1]
               s == ss[k + 1]
    <3>1. call \in Calls /\ s \in Compiled(call)
      BY <2>4
    <3>2. db.open \in BOOLEAN /\ db.now = a.now /\ db.selected = a.selected
      BY <2>5
    <3> HIDE DEF db, a, call, s
    <3>3. RunOne(db, s) = [now |-> Ask(a, call).now, kept |-> db.kept, open |-> db.open,
                           selected |-> Ask(a, call).selected]
      BY <3>1, <3>2, RunOneAsks
    <3> QED
      BY <3>3 DEF db, a, call, s
  <2> QED
    BY <2>3, <2>5, <2>6 DEF Within
<1> HIDE DEF S
<1>4. \A k \in Nat : k \in S
  BY <1>2, <1>3, SetInduction
<1> QED
  BY <1>1, <1>4 DEF S

(* Statements that are SQL come from calls that ask for something. *)
LEMMA SqlIsMeant ==
    ASSUME NEW call \in Calls, NEW s \in Compiled(call), IsSql(s)
    PROVE  IsMeant(call)
BY CompiledRuns DEF RunsAsMeant

(* RunBatch with the batch b and n statements that run. *)
RunsFirst(b, n) ==
    LET db == RunFirst(b.statements, n) IN
    /\ rows' = IF db.open THEN db.kept ELSE db.now
    /\ selected' = IF n = Len(b.statements) THEN db.selected ELSE {}
    /\ IF n = Len(b.statements) /\ \A i \in DOMAIN b.requests : IsMeant(b.requests[i])
       THEN /\ wanted' = MeantByAll(b.requests).now
            /\ due' = MeantByAll(b.requests).selected
       ELSE due' = {} /\ UNCHANGED wanted

LEMMA SingleRuns ==
    ASSUME TableAsAsked, NEW b, Len(b.requests) = 1, Matches(b.statements, b.requests),
           NEW n \in 0 .. Len(b.statements), \A i \in 1 .. n : IsSql(b.statements[i]),
           RunsFirst(b, n)
    PROVE  TableAsAsked'
<1> DEFINE s == b.statements[1]
           call == b.requests[1]
<1>1. /\ Len(b.statements) = 1 /\ call \in Calls /\ s \in Compiled(call)
      /\ DOMAIN b.requests = {1}
  BY DEF Matches
<1>2. PICK f : RunFirst(b.statements, n) = f[n] /\ Ran(b.statements, n, f)
  <2>1. n \in Nat
    BY <1>1
  <2> QED
    BY <2>1, RunFirstSteps
<1>3. CASE n = 0
  <2>1. RunFirst(b.statements, n) = Db
    BY <1>2, <1>3 DEF Ran
  <2> QED
    BY <1>1, <1>3, <2>1 DEF RunsFirst, Db, TableAsAsked
<1>4. CASE n = 1
  <2>1. f[1] = RunOne(Db, s) /\ IsSql(s)
    BY <1>2, <1>4 DEF Ran
  <2> DEFINE a == [now |-> wanted, selected |-> due]
  <2>2. RunOne(Db, s) = [now |-> Ask(a, call).now, kept |-> Db.kept, open |-> Db.open,
                         selected |-> Ask(a, call).selected]
    <3>1. Db.open \in BOOLEAN /\ Db.now = a.now /\ Db.selected = a.selected
      BY DEF Db, TableAsAsked
    <3> HIDE DEF a
    <3> QED
      BY <1>1, <3>1, RunOneAsks
  <2>3. Db.open = FALSE
    BY DEF Db
  <2>4. \A i \in DOMAIN b.requests : IsMeant(b.requests[i])
    BY <1>1, <2>1, SqlIsMeant
  <2>5. PICK g : MeantByAll(b.requests) = g[Len(b.requests)] /\ Asks(b.requests, g)
    <3>1. Len(b.requests) \in Nat
      OBVIOUS
    <3> QED
      BY <3>1, MeantByAllSteps
  <2>6. MeantByAll(b.requests) = Ask(a, call)
    BY <2>5 DEF Asks
  <2> HIDE DEF a, s, call
  <2> QED
    BY <1>1, <1>2, <1>4, <2>1, <2>2, <2>3, <2>4, <2>6 DEF RunsFirst, TableAsAsked
<1> QED
  BY <1>1, <1>3, <1>4

LEMMA TransactionRuns ==
    ASSUME TableAsAsked, NEW b, NEW ss, Matches(ss, b.requests), b.statements = Batch(ss),
           NEW n \in 0 .. Len(b.statements), \A i \in 1 .. n : IsSql(b.statements[i]),
           RunsFirst(b, n)
    PROVE  TableAsAsked'
<1> DEFINE L == Len(b.requests)
<1>1. /\ ss \in Seq(Statements) /\ L \in Nat /\ Len(ss) = L /\ Len(b.statements) = L + 2
      /\ DOMAIN b.requests = 1 .. L /\ n \in Nat /\ n <= L + 2
      /\ \A i \in 1 .. L : b.statements[i + 1] = ss[i]
      /\ b.statements[L + 2] = Commit
  BY BatchElements DEF Matches
<1>2. PICK f : RunFirst(b.statements, n) = f[n] /\ Ran(b.statements, n, f)
  <2>1. n \in Nat
    BY <1>1
  <2> QED
    BY <2>1, RunFirstSteps
<1>3. PICK g : MeantByAll(b.requests) = g[L] /\ Asks(b.requests, g)
  BY <1>1, MeantByAllSteps
<1> HIDE DEF L
<1>4. \A k \in 0 .. L : k + 1 <= n => f[k + 1] = Within(g[k])
  BY <1>1, <1>2, <1>3, InTransaction DEF L
<1>5. CASE n = 0
  <2>1. RunFirst(b.statements, n) = Db
    BY <1>2, <1>5 DEF Ran
  <2> QED
    BY <1>1, <1>5, <2>1 DEF RunsFirst, Db, TableAsAsked
<1>6. CASE n \in 1 .. (L + 1)
  <2>1. n - 1 \in 0 .. L /\ (n - 1) + 1 = n /\ (n - 1) + 1 <= n /\ n # L + 2
    BY <1>1, <1>6
  <2>2. f[n].open = TRUE /\ f[n].kept = rows
    <3>1. f[n] = Within(g[n - 1])
      BY <1>4, <2>1
    <3> QED
      BY <3>1, WithinFields
  <2> QED
    BY <1>1, <1>2, <2>1, <2>2 DEF RunsFirst, TableAsAsked
<1>7. CASE n = L + 2
  <2>1. L \in 0 .. L /\ L + 1 <= n /\ n \in 1 .. n /\ n - 1 = L + 1
    BY <1>1, <1>7
  <2>2. f[L + 1] = Within(g[L])
    BY <1>4, <2>1
  <2>3. f[n] = RunOne(f[L + 1], Commit)
    BY <1>1, <1>2, <1>7, <2>1 DEF Ran
  <2>5. f[n].now = g[L].now /\ f[n].open = FALSE /\ f[n].selected = g[L].selected
    <3>1. f[L + 1].now = g[L].now /\ f[L + 1].selected = g[L].selected
      BY <2>2, WithinFields
    <3> QED
      BY <2>3, <3>1, RunCommit
  <2>6. ASSUME NEW i \in DOMAIN b.requests PROVE IsMeant(b.requests[i])
    <3>1. i \in 1 .. L /\ i + 1 \in 1 .. n
      BY <1>1, <1>7
    <3>2. IsSql(ss[i])
      BY <1>1, <3>1
    <3>3. b.requests[i] \in Calls /\ ss[i] \in Compiled(b.requests[i])
      BY <1>1, <3>1 DEF Matches, L
    <3> QED
      BY <3>2, <3>3, SqlIsMeant
  <2> QED
    BY <1>1, <1>2, <1>3, <1>7, <2>5, <2>6 DEF RunsFirst, TableAsAsked
<1> QED
  BY <1>1, <1>5, <1>6, <1>7

-----------------------------------------------------------------------------
LEMMA TableInvInit == StatementInit => TableInv
<1> SUFFICES ASSUME StatementInit PROVE TableInv
  OBVIOUS
<1>1. executes = <<>> /\ batches = <<>> /\ TableAsAsked
  BY DEF StatementInit, TableAsAsked
<1>2. /\ executes \in Seq([s : Statements, call : Calls])
      /\ batches \in Seq([statements : Seq(Statements \cup {Begin, Commit}), requests : Seq(Calls)])
      /\ 1 .. Len(executes) = {} /\ 1 .. Len(batches) = {}
  BY <1>1
<1> QED
  BY <1>1, <1>2 DEF TableInv

LEMMA CompiledIsStatement ==
    ASSUME NEW call \in Calls, NEW s \in Compiled(call)
    PROVE  s \in Statements
BY DEF Statements

(* A true batch can be sent. *)
LEMMA PostKeepsInv ==
    ASSUME TableInv, NEW statements \in Seq(Statements \cup {Begin, Commit}),
           NEW requests \in Seq(Calls),
           BatchTrue([statements |-> statements, requests |-> requests]),
           Post(statements, requests), UNCHANGED <<rows, selected, wanted, due>>,
           UNCHANGED executes \/ executes' = <<>>
    PROVE  TableInv'
<1> DEFINE b == [statements |-> statements, requests |-> requests]
           B == [statements : Seq(Statements \cup {Begin, Commit}), requests : Seq(Calls)]
<1>1. TableAsAsked'
  BY DEF TableInv, TableAsAsked
<1>2. /\ executes' \in Seq([s : Statements, call : Calls])
      /\ \A i \in 1 .. Len(executes') : executes'[i].s \in Compiled(executes'[i].call)
  <2>1. CASE UNCHANGED executes
    BY <2>1 DEF TableInv
  <2>2. CASE executes' = <<>>
    <3>1. 1 .. Len(executes') = {} /\ executes' \in Seq([s : Statements, call : Calls])
      BY <2>2
    <3> QED
      BY <3>1
  <2> QED
    BY <2>1, <2>2
<1>3. b \in B /\ batches \in Seq(B) /\ batches' = Append(batches, b) /\ BatchTrue(b)
  BY DEF TableInv, Post
<1> HIDE DEF b, B
<1>4. /\ batches' \in Seq(B) /\ Len(batches') = Len(batches) + 1 /\ Len(batches) \in Nat
      /\ \A i \in 1 .. Len(batches) : batches'[i] = batches[i]
      /\ batches'[Len(batches) + 1] = b
  BY <1>3
<1>5. \A i \in 1 .. Len(batches') : BatchTrue(batches'[i])
  <2>1. ASSUME NEW i \in 1 .. Len(batches') PROVE i \in 1 .. Len(batches) \/ i = Len(batches) + 1
    BY <1>4
  <2>2. \A i \in 1 .. Len(batches) : BatchTrue(batches[i])
    BY DEF TableInv
  <2> QED
    BY <1>3, <1>4, <2>1, <2>2
<1> QED
  BY <1>1, <1>2, <1>4, <1>5 DEF TableInv, B, BatchTrue

LEMMA ExecuteSqlInv ==
    ASSUME TableInv, NEW call \in Calls, ExecuteSql(call)
    PROVE  TableInv'
<1>1. PICK s \in Compiled(call) : Post(<<s>>, <<call>>)
  BY DEF ExecuteSql
<1>2. s \in Statements
  BY CompiledIsStatement
<1>3. <<s>> \in Seq(Statements) /\ <<call>> \in Seq(Calls)
  BY <1>2
<1>4. <<s>> \in Seq(Statements \cup {Begin, Commit})
  BY <1>2
<1>5. Matches(<<s>>, <<call>>)
  <2>1. \A i \in 1 .. 1 : <<call>>[i] = call /\ <<s>>[i] = s
    OBVIOUS
  <2>2. Len(<<s>>) = 1 /\ Len(<<call>>) = 1
    OBVIOUS
  <2> QED
    BY <1>3, <2>1, <2>2 DEF Matches
<1>6. BatchTrue([statements |-> <<s>>, requests |-> <<call>>])
  BY <1>5 DEF BatchTrue
<1>7. UNCHANGED <<rows, selected, wanted, due>> /\ UNCHANGED executes
  BY DEF ExecuteSql
<1> QED
  BY <1>1, <1>3, <1>4, <1>6, <1>7, PostKeepsInv

LEMMA CollectInv ==
    ASSUME TableInv, NEW call \in Calls, Collect(call)
    PROVE  TableInv'
<1> DEFINE E == [s : Statements, call : Calls]
<1>1. PICK s \in Compiled(call) : executes' = Append(executes, [s |-> s, call |-> call])
  BY DEF Collect
<1> DEFINE e == [s |-> s, call |-> call]
<1>2. e \in E /\ executes \in Seq(E) /\ e.s \in Compiled(e.call)
  BY CompiledIsStatement DEF TableInv
<1> HIDE DEF e, E
<1>3. executes' = Append(executes, e)
  BY <1>1 DEF e
<1>4. /\ executes' \in Seq(E) /\ Len(executes') = Len(executes) + 1 /\ Len(executes) \in Nat
      /\ \A i \in 1 .. Len(executes) : executes'[i] = executes[i]
      /\ executes'[Len(executes) + 1] = e
  BY <1>2, <1>3
<1>5. \A i \in 1 .. Len(executes') : executes'[i].s \in Compiled(executes'[i].call)
  <2>1. ASSUME NEW i \in 1 .. Len(executes')
        PROVE  i \in 1 .. Len(executes) \/ i = Len(executes) + 1
    BY <1>4
  <2>2. \A i \in 1 .. Len(executes) : executes[i].s \in Compiled(executes[i].call)
    BY DEF TableInv
  <2> QED
    BY <1>2, <1>4, <2>1, <2>2
<1>6. UNCHANGED <<rows, selected, wanted, due, batches>>
  BY DEF Collect
<1> QED
  BY <1>4, <1>5, <1>6 DEF TableInv, TableAsAsked, E, BatchTrue

LEMMA CompleteInv ==
    ASSUME TableInv, Complete
    PROVE  TableInv'
<1> DEFINE ss == [i \in DOMAIN executes |-> executes[i].s]
           cs == [i \in DOMAIN executes |-> executes[i].call]
           L == Len(executes)
<1>1. /\ L \in Nat /\ DOMAIN executes = 1 .. L
      /\ \A i \in 1 .. L : executes[i] \in [s : Statements, call : Calls]
      /\ \A i \in 1 .. L : executes[i].s \in Compiled(executes[i].call)
  <2> DEFINE E == [s : Statements, call : Calls]
  <2>1. executes \in Seq(E) /\ \A i \in 1 .. L : executes[i].s \in Compiled(executes[i].call)
    BY DEF TableInv
  <2> HIDE DEF E
  <2>2. L \in Nat /\ DOMAIN executes = 1 .. L /\ \A i \in 1 .. L : executes[i] \in E
    BY <2>1
  <2> QED
    BY <2>1, <2>2 DEF E
<1>2. \A i \in 1 .. L : executes[i].s \in Statements /\ executes[i].call \in Calls
  BY <1>1
<1>3. ss \in [1 .. L -> Statements] /\ cs \in [1 .. L -> Calls]
  BY <1>1, <1>2
<1>4. \A i \in 1 .. L : cs[i] \in Calls /\ ss[i] \in Compiled(cs[i])
  BY <1>1, <1>2
<1>5. Post(Batch(ss), cs) /\ executes' = <<>> /\ UNCHANGED <<rows, selected, wanted, due>>
  BY DEF Complete
<1> HIDE DEF ss, cs, L
<1>6. /\ ss \in Seq(Statements) /\ cs \in Seq(Calls) /\ Len(ss) = L /\ Len(cs) = L
  BY <1>1, <1>3
<1>7. Matches(ss, cs)
  BY <1>4, <1>6 DEF Matches
<1>8. BatchTrue([statements |-> Batch(ss), requests |-> cs])
  BY <1>7 DEF BatchTrue
<1>9. Batch(ss) \in Seq(Statements \cup {Begin, Commit})
  BY <1>6, BatchElements
<1> QED
  BY <1>5, <1>6, <1>8, <1>9, PostKeepsInv

LEMMA RunBatchInv ==
    ASSUME TableInv, RunBatch
    PROVE  TableInv'
<1> DEFINE b == Head(batches)
           B == [statements : Seq(Statements \cup {Begin, Commit}), requests : Seq(Calls)]
<1>1. batches \in Seq(B) /\ batches # <<>> /\ batches' = Tail(batches)
  BY DEF TableInv, RunBatch
<1> HIDE DEF B
<1>2. /\ batches' \in Seq(B) /\ Len(batches) = Len(batches') + 1 /\ b = batches[1]
      /\ Len(batches') \in Nat /\ 1 \in 1 .. Len(batches)
      /\ \A i \in 1 .. Len(batches') : batches'[i] = batches[i + 1]
  BY <1>1
<1>3. BatchTrue(b)
  BY <1>2 DEF TableInv
<1>4. \A i \in 1 .. Len(batches') : BatchTrue(batches'[i])
  <2>1. \A i \in 1 .. Len(batches') : i + 1 \in 1 .. Len(batches)
    BY <1>2
  <2> QED
    BY <1>2, <2>1 DEF TableInv
<1>5. PICK n \in 0 .. Len(b.statements) :
         (\A i \in 1 .. n : IsSql(b.statements[i])) /\ RunsFirst(b, n)
  BY DEF RunBatch, RunsFirst
<1>6. TableAsAsked'
  <2>1. TableAsAsked
    BY DEF TableInv
  <2> HIDE DEF b
  <2>2. CASE Len(b.requests) = 1 /\ Matches(b.statements, b.requests)
    BY <1>5, <2>1, <2>2, SingleRuns
  <2>3. ASSUME NEW ss, Matches(ss, b.requests), b.statements = Batch(ss)
        PROVE  TableAsAsked'
    BY <1>5, <2>1, <2>3, TransactionRuns
  <2> QED
    BY <1>3, <2>2, <2>3 DEF BatchTrue
<1>7. UNCHANGED executes
  BY DEF RunBatch
<1> QED
  BY <1>2, <1>4, <1>6, <1>7 DEF TableInv, B, BatchTrue

LEMMA TableInvNext == TableInv /\ [StatementNext]_statementVars => TableInv'
<1> SUFFICES ASSUME TableInv, [StatementNext]_statementVars PROVE TableInv'
  OBVIOUS
<1>1. ASSUME TransactionBegins \/ FnThrows PROVE TableInv'
  <2>1. executes' = <<>> /\ UNCHANGED <<rows, batches, selected, wanted, due>>
    BY <1>1 DEF TransactionBegins, FnThrows
  <2>2. executes' \in Seq([s : Statements, call : Calls]) /\ 1 .. Len(executes') = {}
    BY <2>1
  <2> QED
    BY <2>1, <2>2 DEF TableInv, TableAsAsked, BatchTrue
<1>2. CASE UNCHANGED statementVars
  BY <1>2 DEF statementVars, TableInv, TableAsAsked, BatchTrue
<1> QED
  BY <1>1, <1>2, ExecuteSqlInv, CollectInv, CompleteInv, RunBatchInv DEF StatementNext

(***************************************************************************)
(* Through the builders of the statements, their marks and lists of        *)
(* values, transactions, failures half way and batches that come late, the *)
(* table has what the calls of the page say and the latest query returned  *)
(* the rows it names: for any columns, values and number of calls.         *)
(***************************************************************************)
THEOREM PgTableAsAsked == StatementSpec => []TableAsAsked
<1>1. TableInv => TableAsAsked
  BY DEF TableInv
<1> QED
  BY TableInvInit, TableInvNext, <1>1, PTL DEF StatementSpec
================================================================================
