---------------------------- MODULE EraserProofs ----------------------------
(***************************************************************************)
(* For every number of words, threads and locks: the checker reports no    *)
(* word that one lock protects, keeps the exclusive state to one thread    *)
(* and passes an access to a shared word only if the stored 16 bits of its *)
(* lock are those of the lock at every access since the word was shared.   *)
(***************************************************************************)
EXTENDS Eraser, TLAPS

\* What the shadow stores of a lock is in range, and null is stored as 0.
LEMMA ShortInRange ==
  ASSUME NEW l \in Locks \cup {0}
  PROVE  Short(l) \in 0 .. LsRange - 1 /\ Short(0) = 0
<1>1. LsRange \in Nat \ {0} /\ l \in Nat
  BY EraserAssumption
<1>2. l % LsRange \in 0 .. LsRange - 1 /\ 0 % LsRange = 0
  BY <1>1
<1>3. QED
  BY <1>2 DEF Short

-----------------------------------------------------------------------------
(* Types. *)

LEMMA TypeInit == Init => TypeOK
<1>1. SUFFICES ASSUME Init PROVE TypeOK
  OBVIOUS
<1>2. 0 \in Threads /\ 0 \in 0 .. LsRange - 1
  BY EraserAssumption DEF Threads
<1>3. QED
  BY <1>1, <1>2 DEF Init, TypeOK, States

\* A handled access keeps the types.
LEMMA TypeHandler ==
  ASSUME TypeOK, NEW w \in Words, NEW load_p \in BOOLEAN, eraser_handler(w, load_p)
  PROVE  TypeOK'
<1>1. Short(lockset[cur_thread_id]) \in 0 .. LsRange - 1
  BY ShortInRange DEF TypeOK
<1>2. /\ touched' \in [Words -> SUBSET Threads]
      /\ under' \in [Words -> SUBSET (Locks \cup {0})]
      /\ UNCHANGED <<held, lockset, cur_thread_id>>
  BY DEF eraser_handler, Own, Share, shadow_check, Access, TypeOK
<1>3. /\ stopped' \in {"none", "error", "panic"}
      /\ reported' \in Words \cup {0} /\ (reported' # 0 <=> stopped' = "error")
  <2>1. stopped = "none" /\ reported = 0 /\ w # 0
    BY DEF eraser_handler, TypeOK, Words
  <2>2. CASE UNCHANGED <<stopped, reported>>
    BY <2>1, <2>2
  <2>3. CASE shadow_check(w)
    BY <2>1, <2>3 DEF shadow_check
  <2>4. QED
    BY <2>2, <2>3 DEF eraser_handler, Own, Share
<1>4. shadow' \in [Words -> [state : States, tid : Threads, ls : 0 .. LsRange - 1]]
  <2>1. CASE Own(w)
    <3>1. PICK r \in [state : States, tid : Threads, ls : 0 .. LsRange - 1] :
            shadow' = [shadow EXCEPT ![w] = r]
      <4>1. [shadow[w] EXCEPT !.state = "EXCLUSIVE", !.tid = cur_thread_id]
              \in [state : States, tid : Threads, ls : 0 .. LsRange - 1]
        BY DEF TypeOK, States
      <4>2. QED
        BY <2>1, <4>1 DEF Own
    <3>2. QED
      BY <3>1 DEF TypeOK
  <2>2. CASE Share(w, load_p)
    <3>1. PICK r \in [state : States, tid : Threads, ls : 0 .. LsRange - 1] :
            shadow' = [shadow EXCEPT ![w] = r]
      <4>1. [shadow[w] EXCEPT !.state = IF load_p THEN "SHARED" ELSE "SHARED_MOD",
                              !.ls = Short(lockset[cur_thread_id])]
              \in [state : States, tid : Threads, ls : 0 .. LsRange - 1]
        <5>1. PICK st \in States : st = IF load_p THEN "SHARED" ELSE "SHARED_MOD"
          <6>1. {"SHARED", "SHARED_MOD"} \subseteq States
            BY DEF States
          <6>2. QED
            BY <6>1
        <5>2. shadow[w] \in [state : States, tid : Threads, ls : 0 .. LsRange - 1]
          BY DEF TypeOK
        <5>3. Short(lockset[cur_thread_id]) \in 0 .. LsRange - 1
          BY <1>1 DEF TypeOK
        <5>4. [shadow[w] EXCEPT !.state = st, !.ls = Short(lockset[cur_thread_id])]
                \in [state : States, tid : Threads, ls : 0 .. LsRange - 1]
          BY <5>2, <5>3
        <5>5. QED
          BY <5>1, <5>4
      <4>2. QED
        BY <2>2, <4>1 DEF Share
    <3>2. QED
      BY <3>1 DEF TypeOK
  <2>3. CASE shadow_check(w)
    BY <2>3 DEF shadow_check, TypeOK
  <2>4. QED
    BY <2>1, <2>2, <2>3 DEF eraser_handler
<1>5. QED
  BY <1>2, <1>3, <1>4 DEF TypeOK

LEMMA TypeStep == TypeOK /\ [Next]_vars => TypeOK'
<1>1. SUFFICES ASSUME TypeOK, [Next]_vars PROVE TypeOK'
  OBVIOUS
<1>2. ASSUME NEW tid \in Threads \ {0}, eraser_set_thread_id(tid) PROVE TypeOK'
  BY <1>1, <1>2 DEF eraser_set_thread_id, program, TypeOK
<1>3. ASSUME NEW addr \in Words, NEW last \in Words, eraser_mark_alloc(addr, last)
      PROVE  TypeOK'
  BY <1>1, <1>3 DEF eraser_mark_alloc, sh_mark_range, TypeOK, States
<1>4. ASSUME NEW addr \in Words, NEW last \in Words, eraser_mark_free(addr, last)
      PROVE  TypeOK'
  BY <1>1, <1>4 DEF eraser_mark_free, sh_mark_range, program, TypeOK, States
<1>5. ASSUME NEW l \in Locks, eraser_lock(l) PROVE TypeOK'
  BY <1>1, <1>5 DEF eraser_lock, TypeOK
<1>6. ASSUME NEW l \in Locks, eraser_unlock(l) PROVE TypeOK'
  BY <1>1, <1>6 DEF eraser_unlock, TypeOK
<1>7. ASSUME NEW w \in Words, NEW load_p \in BOOLEAN, eraser_handler(w, load_p)
      PROVE  TypeOK'
  BY <1>1, <1>7, TypeHandler
<1>8. CASE UNCHANGED vars
  BY <1>1, <1>8 DEF vars, program, TypeOK
<1>9. QED
  BY <1>1, <1>2, <1>3, <1>4, <1>5, <1>6, <1>7, <1>8 DEF Next

\* Every variable keeps its type, for any program the checker watches.
THEOREM TypeHolds == Spec => []TypeOK
BY TypeInit, TypeStep, PTL DEF Spec

-----------------------------------------------------------------------------
(* The inductive invariant: the checker knows the lock each thread holds,  *)
(* the ghosts agree with the state of each word, and as long as nothing is *)
(* reported ls stands for the lock of every access since the word was      *)
(* shared.                                                                 *)

KnowsLocks == \A t \in Threads \ {0} : lockset[t] = held[t]

\* Before the first eraser_set_thread_id no word belongs to another thread.
BootIsFirst == cur_thread_id = 0 => \A w \in Words : shadow[w].tid = 0

UnderMatches ==
  \A w \in Words :
    /\ shadow[w].state \in {"VIRGIN", "EXCLUSIVE"} => under[w] = {}
    /\ IsShared(w) => /\ under[w] # {}
                      /\ stopped = "none" => \A h \in under[w] : Short(h) = shadow[w].ls

IInv == /\ TypeOK
        /\ KnowsLocks
        /\ BootIsFirst
        /\ ExclusiveToOne
        /\ UnderMatches
        /\ NoFalseAlarm

LEMMA IInvInit == Init => IInv
<1>1. SUFFICES ASSUME Init PROVE IInv
  OBVIOUS
<1>2. TypeOK
  BY <1>1, TypeInit
<1>3. QED
  BY <1>1, <1>2 DEF Init, IInv, KnowsLocks, BootIsFirst, ExclusiveToOne,
                    UnderMatches, NoFalseAlarm, IsShared

\* The thread that owns a word is the only one that has touched it.
LEMMA OwnKeeps ==
  ASSUME IInv, NEW w \in Words, stopped = "none", Live(w), Own(w),
         UNCHANGED <<lockset, cur_thread_id>>
  PROVE  KnowsLocks' /\ BootIsFirst' /\ ExclusiveToOne' /\ UnderMatches' /\ NoFalseAlarm'
<1>1. /\ shadow'[w].state = "EXCLUSIVE" /\ shadow'[w].tid = cur_thread_id
      /\ \A v \in Words \ {w} : shadow'[v] = shadow[v]
      /\ touched'[w] = touched[w] \cup {cur_thread_id}
      /\ \A v \in Words \ {w} : touched'[v] = touched[v]
  BY DEF Own, Access, IInv, TypeOK
<1>2. UNCHANGED <<under, held, lockset, cur_thread_id, stopped, reported>>
  BY DEF Own, Access, IsOwner, IsShared
<1>3. touched[w] \subseteq {cur_thread_id} /\ under[w] = {}
  BY DEF Own, IsOwner, IInv, ExclusiveToOne, UnderMatches
<1>4. KnowsLocks'
  BY <1>2 DEF IInv, KnowsLocks
<1>5. BootIsFirst'
  BY <1>1, <1>2 DEF IInv, BootIsFirst
<1>6. ExclusiveToOne'
  BY <1>1, <1>3 DEF IInv, ExclusiveToOne, IsShared
<1>7. UnderMatches'
  BY <1>1, <1>2, <1>3 DEF IInv, UnderMatches, IsShared
<1>8. NoFalseAlarm'
  BY <1>2 DEF IInv, NoFalseAlarm
<1>9. QED
  BY <1>4, <1>5, <1>6, <1>7, <1>8

\* The second thread is not the one before the first thread switch, so that
\* the lock stored is the lock held.
LEMMA ShareKeeps ==
  ASSUME IInv, NEW w \in Words, NEW load_p \in BOOLEAN, stopped = "none", Live(w),
         Share(w, load_p), UNCHANGED <<lockset, cur_thread_id>>
  PROVE  KnowsLocks' /\ BootIsFirst' /\ ExclusiveToOne' /\ UnderMatches' /\ NoFalseAlarm'
<1>1. /\ shadow'[w].state \in {"SHARED", "SHARED_MOD"}
      /\ shadow'[w].tid = shadow[w].tid
      /\ shadow'[w].ls = Short(lockset[cur_thread_id])
      /\ \A v \in Words \ {w} : shadow'[v] = shadow[v]
      /\ touched'[w] = touched[w] \cup {cur_thread_id}
      /\ under'[w] = under[w] \cup {held[cur_thread_id]}
      /\ \A v \in Words \ {w} : touched'[v] = touched[v] /\ under'[v] = under[v]
  BY DEF Share, Access, IInv, TypeOK
<1>2. UNCHANGED <<held, lockset, cur_thread_id, stopped, reported>>
  BY DEF Share, Access
<1>3. /\ touched[w] = {shadow[w].tid} /\ under[w] = {}
      /\ shadow[w].tid # cur_thread_id
  BY DEF Share, IsOwner, IInv, ExclusiveToOne, UnderMatches
<1>4. cur_thread_id # 0 /\ lockset[cur_thread_id] = held[cur_thread_id]
  BY <1>3 DEF IInv, BootIsFirst, KnowsLocks, TypeOK
<1>5. KnowsLocks' /\ BootIsFirst'
  BY <1>1, <1>2 DEF IInv, KnowsLocks, BootIsFirst
<1>6. ExclusiveToOne'
  BY <1>1, <1>3 DEF IInv, ExclusiveToOne, IsShared
<1>7. UnderMatches'
  BY <1>1, <1>2, <1>3, <1>4 DEF IInv, UnderMatches, IsShared
<1>8. NoFalseAlarm'
  BY <1>2 DEF IInv, NoFalseAlarm, TypeOK
<1>9. QED
  BY <1>5, <1>6, <1>7, <1>8

\* A later access: when it is reported, its lock is not the one of the
\* accesses before it, or it has none.
LEMMA CheckKeeps ==
  ASSUME IInv, NEW w \in Words, stopped = "none", Live(w), shadow_check(w),
         UNCHANGED <<lockset, cur_thread_id>>
  PROVE  KnowsLocks' /\ BootIsFirst' /\ ExclusiveToOne' /\ UnderMatches' /\ NoFalseAlarm'
<1>1. /\ IsShared(w) /\ UNCHANGED shadow
      /\ touched'[w] = touched[w] \cup {cur_thread_id}
      /\ under'[w] = under[w] \cup {held[cur_thread_id]}
      /\ \A v \in Words \ {w} : touched'[v] = touched[v] /\ under'[v] = under[v]
      /\ UNCHANGED <<held, lockset, cur_thread_id>>
  BY DEF shadow_check, Access, IsOwner, IsShared, Live, IInv, TypeOK, States
<1>2. under[w] # {} /\ \A h \in under[w] : Short(h) = shadow[w].ls
  BY <1>1 DEF IInv, UnderMatches
<1>3. KnowsLocks' /\ BootIsFirst'
  BY <1>1 DEF IInv, KnowsLocks, BootIsFirst
<1>4. ExclusiveToOne'
  BY <1>1 DEF IInv, ExclusiveToOne, IsShared
<1>5. CASE cur_thread_id = 0
  <2>1. stopped' = "panic" /\ reported' = reported
    BY <1>5 DEF shadow_check
  <2>2. reported = 0
    BY DEF IInv, TypeOK
  <2>3. UnderMatches'
    BY <1>1, <1>2, <2>1 DEF IInv, UnderMatches, IsShared
  <2>4. NoFalseAlarm'
    BY <2>1, <2>2 DEF NoFalseAlarm
  <2>5. QED
    BY <1>3, <1>4, <2>3, <2>4
<1>6. CASE cur_thread_id # 0 /\ Consistent(w)
  <2>1. UNCHANGED <<stopped, reported>>
    BY <1>6 DEF shadow_check
  <2>2. Short(held[cur_thread_id]) = shadow[w].ls
    BY <1>6 DEF Consistent, IInv, KnowsLocks, TypeOK
  <2>3. UnderMatches'
    BY <1>1, <1>2, <2>1, <2>2 DEF IInv, UnderMatches, IsShared
  <2>4. NoFalseAlarm'
    BY <2>1 DEF IInv, TypeOK, NoFalseAlarm
  <2>5. QED
    BY <1>3, <1>4, <2>3, <2>4
<1>7. CASE cur_thread_id # 0 /\ ~Consistent(w)
  <2>1. stopped' = "error" /\ reported' = w
    BY <1>7 DEF shadow_check
  <2>2. UnderMatches'
    BY <1>1, <1>2, <2>1 DEF IInv, UnderMatches, IsShared
  <2>3. ASSUME NEW l \in Locks, under'[w] = {l} PROVE FALSE
    <3>1. held[cur_thread_id] = l /\ l \in under[w]
      BY <1>1, <1>2, <2>3
    <3>2. lockset[cur_thread_id] = l /\ l # 0
      BY <1>7, <3>1, EraserAssumption DEF IInv, KnowsLocks, TypeOK
    <3>3. Consistent(w)
      BY <1>2, <3>1, <3>2 DEF Consistent
    <3>4. QED
      BY <1>7, <3>3
  <2>4. NoFalseAlarm'
    BY <2>1, <2>3 DEF NoFalseAlarm
  <2>5. QED
    BY <1>3, <1>4, <2>2, <2>4
<1>8. QED
  BY <1>5, <1>6, <1>7

LEMMA IInvStep == IInv /\ [Next]_vars => IInv'
<1>1. SUFFICES ASSUME IInv, [Next]_vars
               PROVE  /\ KnowsLocks' /\ BootIsFirst' /\ ExclusiveToOne'
                      /\ UnderMatches' /\ NoFalseAlarm'
  BY TypeStep DEF IInv
<1>2. ASSUME NEW tid \in Threads \ {0}, eraser_set_thread_id(tid)
      PROVE  KnowsLocks' /\ BootIsFirst' /\ ExclusiveToOne' /\ UnderMatches' /\ NoFalseAlarm'
  BY <1>1, <1>2 DEF eraser_set_thread_id, program, IInv, KnowsLocks, BootIsFirst,
                    ExclusiveToOne, UnderMatches, NoFalseAlarm, IsShared
<1>3. ASSUME NEW addr \in Words, NEW last \in Words, eraser_mark_alloc(addr, last)
      PROVE  KnowsLocks' /\ BootIsFirst' /\ ExclusiveToOne' /\ UnderMatches' /\ NoFalseAlarm'
  <2>1. \A w \in addr .. last : w \in Words =>
          shadow'[w].state = "VIRGIN" /\ shadow'[w].tid = shadow[w].tid
          /\ touched'[w] = {} /\ under'[w] = {}
    BY <1>1, <1>3 DEF eraser_mark_alloc, sh_mark_range, IInv, TypeOK
  <2>2. \A w \in Words \ (addr .. last) :
          shadow'[w] = shadow[w] /\ touched'[w] = touched[w] /\ under'[w] = under[w]
    BY <1>3 DEF eraser_mark_alloc, sh_mark_range
  <2>3. UNCHANGED <<lockset, cur_thread_id, stopped, reported, held>>
    BY <1>3 DEF eraser_mark_alloc
  <2>4. KnowsLocks' /\ BootIsFirst'
    BY <1>1, <2>1, <2>2, <2>3 DEF IInv, KnowsLocks, BootIsFirst
  <2>5. ExclusiveToOne'
    BY <1>1, <2>1, <2>2 DEF IInv, ExclusiveToOne, IsShared
  <2>6. UnderMatches'
    BY <1>1, <2>1, <2>2, <2>3 DEF IInv, UnderMatches, IsShared
  <2>7. NoFalseAlarm'
    BY <1>1, <1>3, <2>3 DEF eraser_mark_alloc, IInv, TypeOK, NoFalseAlarm
  <2>8. QED
    BY <2>4, <2>5, <2>6, <2>7
<1>4. ASSUME NEW addr \in Words, NEW last \in Words, eraser_mark_free(addr, last)
      PROVE  KnowsLocks' /\ BootIsFirst' /\ ExclusiveToOne' /\ UnderMatches' /\ NoFalseAlarm'
  <2>1. /\ \A w \in Words : /\ shadow'[w].tid = shadow[w].tid
                            /\ shadow'[w].state = "FREED" \/ shadow'[w] = shadow[w]
        /\ UNCHANGED <<lockset, cur_thread_id, stopped, reported, program>>
    BY <1>1, <1>4 DEF eraser_mark_free, sh_mark_range, IInv, TypeOK
  <2>2. KnowsLocks' /\ BootIsFirst'
    BY <1>1, <2>1 DEF program, IInv, KnowsLocks, BootIsFirst
  <2>3. ExclusiveToOne' /\ UnderMatches'
    BY <1>1, <2>1 DEF program, IInv, ExclusiveToOne, UnderMatches, IsShared
  <2>4. NoFalseAlarm'
    BY <1>1, <2>1 DEF program, IInv, NoFalseAlarm
  <2>5. QED
    BY <2>2, <2>3, <2>4
<1>5. ASSUME NEW l \in Locks, eraser_lock(l)
      PROVE  KnowsLocks' /\ BootIsFirst' /\ ExclusiveToOne' /\ UnderMatches' /\ NoFalseAlarm'
  <2>1. /\ UNCHANGED <<shadow, cur_thread_id, reported, touched, under>>
        /\ stopped = "none"
    BY <1>5 DEF eraser_lock
  <2>2. KnowsLocks'
    BY <1>1, <1>5 DEF eraser_lock, IInv, TypeOK, KnowsLocks
  <2>3. QED
    BY <1>1, <2>1, <2>2 DEF IInv, BootIsFirst, ExclusiveToOne, UnderMatches,
                            NoFalseAlarm, IsShared
<1>6. ASSUME NEW l \in Locks, eraser_unlock(l)
      PROVE  KnowsLocks' /\ BootIsFirst' /\ ExclusiveToOne' /\ UnderMatches' /\ NoFalseAlarm'
  <2>1. /\ UNCHANGED <<shadow, cur_thread_id, reported, touched, under>>
        /\ stopped = "none"
    BY <1>6 DEF eraser_unlock
  <2>2. KnowsLocks'
    BY <1>1, <1>6 DEF eraser_unlock, IInv, TypeOK, KnowsLocks
  <2>3. QED
    BY <1>1, <2>1, <2>2 DEF IInv, BootIsFirst, ExclusiveToOne, UnderMatches,
                            NoFalseAlarm, IsShared
<1>7. ASSUME NEW w \in Words, NEW load_p \in BOOLEAN, eraser_handler(w, load_p)
      PROVE  KnowsLocks' /\ BootIsFirst' /\ ExclusiveToOne' /\ UnderMatches' /\ NoFalseAlarm'
  BY <1>1, <1>7, OwnKeeps, ShareKeeps, CheckKeeps DEF eraser_handler
<1>8. CASE UNCHANGED vars
  BY <1>1, <1>8 DEF vars, program, IInv, KnowsLocks, BootIsFirst, ExclusiveToOne,
                    UnderMatches, NoFalseAlarm, IsShared
<1>9. QED
  BY <1>1, <1>2, <1>3, <1>4, <1>5, <1>6, <1>7, <1>8 DEF Next

LEMMA IInvHolds == Spec => []IInv
BY IInvInit, IInvStep, PTL DEF Spec

\* A reported word is one that no lock protects.
THEOREM NoFalseAlarmHolds == Spec => []NoFalseAlarm
<1>1. IInv => NoFalseAlarm
  BY DEF IInv
<1>2. QED
  BY <1>1, IInvHolds, PTL

\* An exclusive word has been touched by its owner only, however often the
\* memory has been freed and allocated again.
THEOREM ExclusiveToOneHolds == Spec => []ExclusiveToOne
<1>1. IInv => ExclusiveToOne
  BY DEF IInv
<1>2. QED
  BY <1>1, IInvHolds, PTL

-----------------------------------------------------------------------------
\* A checked access that passes, a load or a store, holds a lock with the same
\* stored bits as at every access since the word was shared; if the word is
\* shared-modified, it does hold one.
THEOREM LocksAgreeHolds == Spec => LocksAgree
<1>1. ASSUME IInv, NEW w \in Words, NEW load_p \in BOOLEAN, eraser_handler(w, load_p),
             IsShared(w), stopped' = "none"
      PROVE  /\ \A h \in under[w] : Short(h) = Short(held[cur_thread_id])
             /\ shadow[w].state = "SHARED_MOD" => held[cur_thread_id] # 0
  <2>1. shadow_check(w) /\ stopped = "none"
    BY <1>1 DEF eraser_handler, Own, Share, IsOwner, IsShared
  <2>2. cur_thread_id # 0 /\ Consistent(w)
    BY <1>1, <2>1 DEF shadow_check
  <2>3. held[cur_thread_id] = lockset[cur_thread_id]
    BY <1>1, <2>2 DEF IInv, KnowsLocks, TypeOK
  <2>4. /\ Short(held[cur_thread_id]) = shadow[w].ls
        /\ shadow[w].state = "SHARED_MOD" => held[cur_thread_id] # 0
    BY <2>2, <2>3 DEF Consistent
  <2>5. \A h \in under[w] : Short(h) = shadow[w].ls
    BY <1>1, <2>1 DEF IInv, UnderMatches
  <2>6. QED
    BY <2>4, <2>5
<1>2. IInv /\ [Next]_vars =>
        [\A w \in Words, load_p \in BOOLEAN :
           eraser_handler(w, load_p) /\ IsShared(w) /\ stopped' = "none"
           => /\ \A h \in under[w] : Short(h) = Short(held[cur_thread_id])
              /\ shadow[w].state = "SHARED_MOD" => held[cur_thread_id] # 0]_vars
  BY <1>1
<1>3. QED
  BY <1>2, IInvHolds, PTL DEF Spec, LocksAgree
=============================================================================
