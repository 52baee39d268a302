----------------------------- MODULE SQLiteHelper -----------------------------
(***************************************************************************)
(* db/SQLiteHelper.java on top of db/Pool.java, as the DAO classes use it: *)
(* getReadableDatabase, releaseReadableDatabase and getWritableDatabase    *)
(* are synchronized on the one helper, and the pool is only reached from   *)
(* inside them.  wait() in Pool.use() releases the pool's monitor but not  *)
(* the helper's, which its caller still owns.                              *)
(*                                                                         *)
(* A call that does not block is one step, possible while nobody owns the  *)
(* helper's monitor; owner is the thread that waits inside the pool, if    *)
(* there is one.                                                           *)
(***************************************************************************)
EXTENDS Pool

CONSTANTS Writers,   \* threads that write
          NoOne      \* the owner of the free monitor

ASSUME HelperAssumption == NoOne \notin Threads

VARIABLES owner,     \* who keeps the helper's monitor
          wants      \* writers inside getWritableDatabase()

vars == <<lists, sets, held, pc, owner, wants>>

HelperTypeOK ==
    /\ TypeOK
    /\ owner \in Threads \cup {NoOne}
    /\ wants \in SUBSET Writers

HelperInit == Init /\ owner = NoOne /\ wants = {}

-----------------------------------------------------------------------------
(* A plausible slip: releasing without the monitor. *)
ReleaseUnlocked(t, h) ==
    /\ Unuse(t, h)
    /\ UNCHANGED <<owner, wants>>

-----------------------------------------------------------------------------
(* getReadableDatabase(), up to the wait if there is one. *)
GetReadable(t) ==
    /\ owner = NoOne
    /\ Use(t)
    /\ owner' = IF pc'[t] = "waiting" THEN t ELSE NoOne
    /\ UNCHANGED wants

(* The rest of getReadableDatabase(), after the wait. *)
FinishGetReadable(t) ==
    /\ owner = t
    /\ Rescan(t)
    /\ owner' = NoOne
    /\ UNCHANGED wants

WakeAnywayInside(t) == WakeAnyway(t) /\ UNCHANGED <<owner, wants>>

ReleaseReadable(t, h) ==
    /\ owner = NoOne
    /\ Unuse(t, h)
    /\ UNCHANGED <<owner, wants>>

ReleaseNull(t) ==
    /\ owner = NoOne
    /\ UnuseNull(t)
    /\ UNCHANGED <<owner, wants>>

(* A writer calls getWritableDatabase() ... *)
AskWritable(w) ==
    /\ w \notin wants
    /\ wants' = wants \cup {w}
    /\ UNCHANGED <<lists, sets, held, pc, owner>>

(* ... and returns from it with the one write connection. *)
GetWritable(w) ==
    /\ owner = NoOne
    /\ w \in wants
    /\ wants' = wants \ {w}
    /\ UNCHANGED <<lists, sets, held, pc, owner>>

HelperNext ==
    \/ \E t \in Threads :
           \/ GetReadable(t)
           \/ FinishGetReadable(t)
           \/ WakeAnywayInside(t)
           \/ \E h \in held[t] : ReleaseReadable(t, h)
           \/ ReleaseNull(t)
    \/ \E w \in Writers : AskWritable(w) \/ GetWritable(w)

HelperSpec == HelperInit /\ [][HelperNext]_vars

(***************************************************************************)
(* Readers give back what they hold, and a thread whose call can proceed   *)
(* does.  A Java monitor is not fair: no more is assumed than that a       *)
(* thread that asks for it while it stays free gets it.                    *)
(***************************************************************************)
HelperFairness ==
    /\ \A t \in Threads :
           /\ WF_vars(\E h \in held[t] : ReleaseReadable(t, h))
           /\ WF_vars(FinishGetReadable(t))
           /\ WF_vars(ReleaseNull(t))
    /\ \A w \in Writers : WF_vars(GetWritable(w))

HelperFairSpec == HelperSpec /\ HelperFairness

-----------------------------------------------------------------------------
(***************************************************************************)
(* WaiterIsAlone: a reader that waits in the pool is the owner of the      *)
(* helper's monitor, so there is at most one, no handle is free while it   *)
(* waits, and nobody can race it for one.                                  *)
(***************************************************************************)
WaiterIsAlone ==
    \A t \in Threads :
        /\ pc[t] \in {"waiting", "woken"} <=> owner = t
        /\ owner = t => Free = {}

(***************************************************************************)
(* WaitsOnlyWhenFull: a reader blocks only when the pool has made all its  *)
(* MaxSize + 1 handles; WaiterIsAlone adds that all of them are lent.      *)
(***************************************************************************)
WaitsOnlyWhenFull ==
    (\E t \in Threads : pc[t] = "waiting") => lists = MaxSize + 1

(* Both: what it means that a reader waits. *)
WaitIsSound == WaiterIsAlone /\ WaitsOnlyWhenFull

(***************************************************************************)
(* CanBeReleased: SQLiteHelper.java:178 asks every reader to call          *)
(* releaseReadableDatabase() when it is done, so the monitor that call     *)
(* needs does not stay taken for ever.                                     *)
(***************************************************************************)
CanBeReleased == []<>(owner = NoOne)

==============================================================================
