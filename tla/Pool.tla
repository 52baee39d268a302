--------------------------------- MODULE Pool ---------------------------------
(***************************************************************************)
(* db/Pool.java: the monitor that lends read handles to database readers.  *)
(*                                                                         *)
(* Every method of the class is synchronized, so a call is one step, except *)
(* that wait() inside use() splits it in two: the part before the wait and *)
(* the rescan after it.  Handles are numbered in the order in which        *)
(* create() made them, so the array list is the interval 1..lists and its  *)
(* first free element is the least free number.                            *)
(*                                                                         *)
(* A thread may be inside a read while it starts another one               *)
(* (dao/BusinessBaseDao.java:815-826 queries inside an open cursor), hence  *)
(* MaxHeld.  The result null of use() is a state of its own: the query then *)
(* throws, and its finally block gives null back.                          *)
(***************************************************************************)
EXTENDS Naturals, FiniteSets

CONSTANTS Threads,   \* the threads that read the database
          MaxSize,   \* the constructor's argument, 8 in SQLiteHelper
          MaxHeld    \* reads one thread nests (2 in the DAO classes)

ASSUME PoolAssumption == MaxSize \in Nat \ {0} /\ MaxHeld \in Nat \ {0}

VARIABLES lists,     \* how many objects were created: 1..lists are alive
          sets,      \* the objects the pool believes are in use
          held,      \* held[t]: the objects thread t got and not yet returned
          pc         \* pc[t]: where thread t is

poolVars == <<lists, sets, held, pc>>

(***************************************************************************)
(* "ready"    outside the pool                                             *)
(* "waiting"  in wait(), inside use()                                      *)
(* "woken"    notified, about to rescan                                    *)
(* "null"     use() returned null; the reader is unwinding                 *)
(***************************************************************************)
Place == {"ready", "waiting", "woken", "null"}

Objects == 1 .. lists

Free == Objects \ sets

FirstFree(h) == h \in Free /\ \A g \in Free : h <= g

TypeOK ==
    /\ lists \in 0 .. (MaxSize + 1)
    /\ sets \in SUBSET Objects
    /\ held \in [Threads -> SUBSET Objects]
    /\ pc \in [Threads -> Place]

Init ==
    /\ lists = 0
    /\ sets = {}
    /\ held = [t \in Threads |-> {}]
    /\ pc = [t \in Threads |-> "ready"]

-----------------------------------------------------------------------------
(* Plausible slips in the code below, each caught by a property. *)

HandOutUnmarked(t, h) ==
    /\ held' = [held EXCEPT ![t] = @ \cup {h}]
    /\ pc' = [pc EXCEPT ![t] = "ready"]
    /\ UNCHANGED sets

NotifyNone(p) == p

MakeFewer == lists < MaxSize

MakeMore == lists <= MaxSize + 1

UnuseKeepsMark(t, h) ==
    /\ pc[t] = "ready" /\ h \in held[t]
    /\ held' = [held EXCEPT ![t] = @ \ {h}]
    /\ pc' = [u \in Threads |-> IF pc[u] = "waiting" THEN "woken" ELSE pc[u]]
    /\ UNCHANGED <<lists, sets>>

-----------------------------------------------------------------------------
(* use() *)

(* sets.add(t); return t *)
HandOut(t, h) ==
    /\ sets' = sets \cup {h}
    /\ held' = [held EXCEPT ![t] = @ \cup {h}]
    /\ pc' = [pc EXCEPT ![t] = "ready"]

(* The first loop: the first object that is not in use is lent. *)
TakeFree(t) ==
    \E h \in Objects : FirstFree(h) /\ HandOut(t, h) /\ UNCHANGED lists

MayMake == lists <= MaxSize

(* The object that create() made is lent at once. *)
Make(t) ==
    /\ Free = {} /\ MayMake
    /\ lists' = lists + 1
    /\ HandOut(t, lists + 1)

(***************************************************************************)
(* sets.size() >= maxSize: wait().  The test has no other outcome here     *)
(* (every object is in sets by now), see PoolProofs!FullWhenNoneFree.      *)
(***************************************************************************)
Block(t) ==
    /\ Free = {} /\ ~MayMake
    /\ Cardinality(sets) >= MaxSize
    /\ pc' = [pc EXCEPT ![t] = "waiting"]
    /\ UNCHANGED <<lists, sets, held>>

Use(t) ==
    /\ pc[t] = "ready" /\ Cardinality(held[t]) < MaxHeld
    /\ TakeFree(t) \/ Make(t) \/ Block(t)

(* After wait(): one more pass over the list, and null if it finds nothing. *)
FindNothing(t) ==
    /\ Free = {}
    /\ pc' = [pc EXCEPT ![t] = "null"]
    /\ UNCHANGED <<lists, sets, held>>

Rescan(t) ==
    /\ pc[t] = "woken"
    /\ TakeFree(t) \/ FindNothing(t)

(* wait() may end without a notify: an interrupt or a spurious wake-up. *)
WakeAnyway(t) ==
    /\ pc[t] = "waiting"
    /\ pc' = [pc EXCEPT ![t] = "woken"]
    /\ UNCHANGED <<lists, sets, held>>

-----------------------------------------------------------------------------
(* unuse() *)

(* notifyAll(): every thread of the wait set competes for the monitor. *)
NotifyAll(p) ==
    [t \in Threads |-> IF p[t] = "waiting" THEN "woken" ELSE p[t]]

Unuse(t, h) ==
    /\ pc[t] = "ready" /\ h \in held[t]
    /\ sets' = sets \ {h}
    /\ held' = [held EXCEPT ![t] = @ \ {h}]
    /\ pc' = NotifyAll(pc)
    /\ UNCHANGED lists

(* unuse(null), from the finally block of a reader that got null. *)
UnuseNull(t) ==
    /\ pc[t] = "null"
    /\ pc' = NotifyAll([pc EXCEPT ![t] = "ready"])
    /\ UNCHANGED <<lists, sets, held>>

-----------------------------------------------------------------------------
Next ==
    \E t \in Threads :
        \/ Use(t)
        \/ Rescan(t)
        \/ WakeAnyway(t)
        \/ \E h \in held[t] : Unuse(t, h)
        \/ UnuseNull(t)

Spec == Init /\ [][Next]_poolVars

(***************************************************************************)
(* A reader closes its cursor and gives its handle back (every DAO query   *)
(* does so in a finally block), and a thread that was notified runs.       *)
(* Nothing makes a thread read, and nothing promises spurious wake-ups.    *)
(***************************************************************************)
Fairness ==
    \A t \in Threads :
        /\ WF_poolVars(\E h \in held[t] : Unuse(t, h))
        /\ WF_poolVars(Rescan(t))
        /\ WF_poolVars(UnuseNull(t))

FairSpec == Spec /\ Fairness

-----------------------------------------------------------------------------
(***************************************************************************)
(* ExclusiveLending: use() never hands an object to a thread while another *)
(* thread has it (two readers on one connection), over any interleaving of *)
(* lending, waiting and waking.                                            *)
(***************************************************************************)
ExclusiveLending ==
    \A t, u \in Threads : t # u => held[t] \cap held[u] = {}

(***************************************************************************)
(* MarksMatchLoans: the pool's set of objects in use is exactly what the   *)
(* threads hold, so no object is leaked as "in use" with nobody using it,  *)
(* and unuse() of a null never frees anything.                             *)
(***************************************************************************)
MarksMatchLoans == sets = UNION {held[t] : t \in Threads}

(***************************************************************************)
(* NoLostWakeup: while a thread is in the wait set every object is lent;   *)
(* unuse() never leaves a waiter behind next to a free object.             *)
(***************************************************************************)
NoLostWakeup == \A t \in Threads : pc[t] = "waiting" => Free = {}

(***************************************************************************)
(* WaiterReturns: a thread in wait() comes out of it, provided that again  *)
(* and again some thread outside the wait set holds an object (nested      *)
(* readers can all wait for each other).                                   *)
(***************************************************************************)
SomeoneCanReturn == \E u \in Threads : pc[u] = "ready" /\ held[u] # {}

WaiterReturns ==
    []<>SomeoneCanReturn =>
        \A t \in Threads : pc[t] = "waiting" ~> pc[t] # "waiting"

(***************************************************************************)
(* LendingSpec: the pool implements module Lending; a loan is an object in *)
(* held[t].                                                                *)
(***************************************************************************)
Things == 1 .. (MaxSize + 1)

loans == {p \in Threads \X Things : p[2] \in held[p[1]]}

Lend == INSTANCE Lending
          WITH Users <- Threads, Things <- Things, loans <- loans

LendingSpec == Lend!Spec
==============================================================================
