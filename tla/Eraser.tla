------------------------------- MODULE Eraser -------------------------------
(***************************************************************************)
(* The lockset checker of labs/16-eraser-trap/code/checker-eraser.c.  Every*)
(* load and store of the heap traps into eraser_handler, which looks up the*)
(* shadow state of the word and decides whether the access is consistent   *)
(* with the lock under which the word was shared.  The first report ends   *)
(* the program (error calls clean_reboot).                                 *)
(*                                                                         *)
(* The program under test is the environment: it switches threads between  *)
(* any two calls, allocates and frees blocks, touches allocated words only *)
(* and holds at most one lock per thread, as eraser_lock demands.  Thread 0*)
(* is the program before its first eraser_set_thread_id.  A lock is its    *)
(* address; 0 is the null pointer.                                         *)
(***************************************************************************)
EXTENDS Integers, FiniteSets

CONSTANTS
  NWords,       \* heap words that are tracked
  MAXTHREADS,
  Locks,        \* addresses of locks
  LsRange       \* values of the shadow's ls: 2^16 in the code

ASSUME EraserAssumption ==
  /\ NWords \in Nat \ {0} /\ MAXTHREADS \in Nat \ {0} /\ LsRange \in Nat \ {0}
  /\ Locks \subseteq Nat \ {0}

VARIABLES
  shadow,          \* state, tid and ls of each word
  lockset,         \* the lock each thread holds, as the checker knows it
  cur_thread_id,
  stopped,         \* none, error (a report), or panic
  reported,        \* the word of the report, or 0
  held,            \* the lock each thread does hold
  touched,         \* ghost: threads that accessed the word since it was allocated
  under            \* ghost: locks (0 for none) held at the accesses since it was shared

program == <<held, touched, under>>
vars    == <<shadow, lockset, cur_thread_id, stopped, reported, program>>

Words   == 1 .. NWords
Threads == 0 .. MAXTHREADS - 1
States  == {"zero", "VIRGIN", "FREED", "SHARED", "EXCLUSIVE", "SHARED_MOD"}

Live(w)     == shadow[w].state \notin {"zero", "FREED"}
IsShared(w) == shadow[w].state \in {"SHARED", "SHARED_MOD"}
Short(l)    == l % LsRange

-----------------------------------------------------------------------------
Init ==
  /\ shadow = [w \in Words |-> [state |-> "zero", tid |-> 0, ls |-> 0]]
  /\ lockset = [t \in Threads |-> 0]
  /\ cur_thread_id = 0
  /\ stopped = "none" /\ reported = 0
  /\ held = [t \in Threads |-> 0]
  /\ touched = [w \in Words |-> {}]
  /\ under = [w \in Words |-> {}]

eraser_set_thread_id(tid) ==
  /\ stopped = "none"
  /\ cur_thread_id' = tid
  /\ UNCHANGED <<shadow, lockset, stopped, reported, program>>

\* The block is addr .. last; its tid and ls stay what they were.
sh_mark_range(addr, last, state) ==
  shadow' = [w \in Words |-> IF w \in addr .. last
                             THEN [shadow[w] EXCEPT !.state = state] ELSE shadow[w]]

\* A new block has been touched by nobody.
eraser_mark_alloc(addr, last) ==
  /\ stopped = "none"
  /\ \A w \in addr .. last : ~Live(w)
  /\ sh_mark_range(addr, last, "VIRGIN")
  /\ touched' = [w \in Words |-> IF w \in addr .. last THEN {} ELSE touched[w]]
  /\ under' = [w \in Words |-> IF w \in addr .. last THEN {} ELSE under[w]]
  /\ UNCHANGED <<lockset, cur_thread_id, stopped, reported, held>>

eraser_mark_free(addr, last) ==
  /\ stopped = "none"
  /\ \A w \in addr .. last : Live(w)
  /\ sh_mark_range(addr, last, "FREED")
  /\ UNCHANGED <<lockset, cur_thread_id, stopped, reported, program>>

-----------------------------------------------------------------------------
(* Locks. *)

\* A thread without a lock takes one that nobody holds.
eraser_lock(l) ==
  /\ stopped = "none"
  /\ held[cur_thread_id] = 0 /\ \A t \in Threads : held[t] # l
  /\ IF lockset[cur_thread_id] # 0
     THEN stopped' = "panic" /\ UNCHANGED <<lockset, held>>
     ELSE /\ lockset' = [lockset EXCEPT ![cur_thread_id] = l]
          /\ held' = [held EXCEPT ![cur_thread_id] = l]
          /\ UNCHANGED stopped
  /\ UNCHANGED <<shadow, cur_thread_id, reported, touched, under>>

\* state is the variable of the first version of the checker; its tid is
\* still 0, so that thread 0 returns at once.
eraser_unlock(l) ==
  /\ stopped = "none" /\ l # 0 /\ held[cur_thread_id] = l
  /\ held' = [held EXCEPT ![cur_thread_id] = 0]
  /\ IF cur_thread_id = 0
     THEN UNCHANGED <<lockset, stopped>>
     ELSE IF lockset[cur_thread_id] # l
     THEN stopped' = "panic" /\ UNCHANGED lockset
     ELSE lockset' = [lockset EXCEPT ![cur_thread_id] = 0] /\ UNCHANGED stopped
  /\ UNCHANGED <<shadow, cur_thread_id, reported, touched, under>>

-----------------------------------------------------------------------------
(* Loads and stores. *)

\* Mutant: any lock will do.
ConsistentAnyLock(w) ==
  lockset[cur_thread_id] # 0 \/ shadow[w].state = "SHARED"

\* ls_intersect and the tests of shadow_check_ld and shadow_check_st.
Consistent(w) ==
  /\ Short(lockset[cur_thread_id]) = shadow[w].ls
  /\ lockset[cur_thread_id] # 0 \/ shadow[w].state = "SHARED"

\* Mutant: the tid of a word that is no longer exclusive counts, too.
IsOwnerStaleTid(w) ==
  shadow[w].state = "VIRGIN" \/ shadow[w].tid = cur_thread_id

\* The first access, or another one of the thread that made it.
IsOwner(w) ==
  \/ shadow[w].state = "VIRGIN"
  \/ shadow[w].tid = cur_thread_id /\ shadow[w].state = "EXCLUSIVE"

\* The program makes the access: what it does to the ghosts.
Access(w, shares) ==
  /\ touched' = [touched EXCEPT ![w] = @ \cup {cur_thread_id}]
  /\ under' = IF shares \/ IsShared(w)
              THEN [under EXCEPT ![w] = @ \cup {held[cur_thread_id]}] ELSE under
  /\ UNCHANGED held

Own(w) ==
  /\ IsOwner(w)
  /\ shadow' = [shadow EXCEPT ![w].state = "EXCLUSIVE", ![w].tid = cur_thread_id]
  /\ UNCHANGED <<stopped, reported>>
  /\ Access(w, FALSE)

\* Mutant: the lockset is not initialised.
ShareKeepsLs(w, load_p) ==
  /\ ~IsOwner(w) /\ shadow[w].state = "EXCLUSIVE"
  /\ shadow' = [shadow EXCEPT ![w].state = IF load_p THEN "SHARED" ELSE "SHARED_MOD"]
  /\ UNCHANGED <<stopped, reported>>
  /\ Access(w, TRUE)

\* The second thread's first access.
Share(w, load_p) ==
  /\ ~IsOwner(w) /\ shadow[w].state = "EXCLUSIVE"
  /\ shadow' = [shadow EXCEPT ![w].state = IF load_p THEN "SHARED" ELSE "SHARED_MOD",
                              ![w].ls = Short(lockset[cur_thread_id])]
  /\ UNCHANGED <<stopped, reported>>
  /\ Access(w, TRUE)

\* Every later access; the state and ls stay.
shadow_check(w) ==
  /\ ~IsOwner(w) /\ shadow[w].state # "EXCLUSIVE"
  /\ IF cur_thread_id = 0
     THEN stopped' = "panic" /\ UNCHANGED reported
     ELSE IF Consistent(w)
     THEN UNCHANGED <<stopped, reported>>
     ELSE stopped' = "error" /\ reported' = w
  /\ UNCHANGED shadow
  /\ Access(w, FALSE)

eraser_handler(w, load_p) ==
  /\ stopped = "none" /\ Live(w)
  /\ Own(w) \/ Share(w, load_p) \/ shadow_check(w)
  /\ UNCHANGED <<lockset, cur_thread_id>>

-----------------------------------------------------------------------------
Next ==
  \/ \E tid \in Threads \ {0} : eraser_set_thread_id(tid)
  \/ \E addr, last \in Words : addr <= last /\ eraser_mark_alloc(addr, last)
  \/ \E addr, last \in Words : addr <= last /\ eraser_mark_free(addr, last)
  \/ \E l \in Locks : eraser_lock(l) \/ eraser_unlock(l)
  \/ \E w \in Words, load_p \in BOOLEAN : eraser_handler(w, load_p)

Spec == Init /\ [][Next]_vars

-----------------------------------------------------------------------------
\* The type of every variable; a report names a word, anything else none.
TypeOK ==
  /\ shadow \in [Words -> [state : States, tid : Threads, ls : 0 .. LsRange - 1]]
  /\ lockset \in [Threads -> Locks \cup {0}]
  /\ cur_thread_id \in Threads
  /\ stopped \in {"none", "error", "panic"}
  /\ reported \in Words \cup {0} /\ (reported # 0 <=> stopped = "error")
  /\ held \in [Threads -> Locks \cup {0}]
  /\ touched \in [Words -> SUBSET Threads]
  /\ under \in [Words -> SUBSET (Locks \cup {0})]

\* No false alarm (eraser_handler, ls_intersect): a word is reported only if
\* no lock was held at every access since a second thread came to it.
NoFalseAlarm == reported # 0 => \A l \in Locks : under[reported] # {l}

\* Eraser's exclusive state (eraser_handler): a word is exclusive exactly when
\* one thread has touched it since it was allocated, whatever its shadow held
\* before, and shared when two have.
ExclusiveToOne ==
  \A w \in Words :
    /\ shadow[w].state = "VIRGIN" => touched[w] = {}
    /\ shadow[w].state = "EXCLUSIVE" => touched[w] = {shadow[w].tid}
    /\ IsShared(w) => \E s, t \in touched[w] : s # t

\* What passes (shadow_check_ld, shadow_check_st): an access to a word that is
\* shared by now passes only with a lock of the same stored bits as at every
\* access since the second thread came, and, when that thread came with a
\* store, only with a lock.  When it came with a load the word stays SHARED
\* and the null lock is one to agree in: there a store under no lock passes
\* after accesses under no lock, and the word does not become SHARED_MOD
\* (labs/16-eraser-trap/README.md:256-259 asks for both).
LocksAgree ==
  [][\A w \in Words, load_p \in BOOLEAN :
       eraser_handler(w, load_p) /\ IsShared(w) /\ stopped' = "none"
       => /\ \A h \in under[w] : Short(h) = Short(held[cur_thread_id])
          /\ shadow[w].state = "SHARED_MOD" => held[cur_thread_id] # 0]_vars
=============================================================================
