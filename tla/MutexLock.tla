----------------------------- MODULE MutexLock -----------------------------
(***************************************************************************)
(* base/Mutex.h: a pthread mutex and a record of the thread that holds it. *)
(* lock() and unlock() are two steps each, and in unlock() "the order must *)
(* not be turned round" (:37).  A program is a sequence of instructions    *)
(* <<operation, object>>.                                                  *)
(***************************************************************************)
EXTENDS Sequences

CONSTANT Nobody

VARIABLES mutex_,    \* the thread the pthread mutex belongs to, or Nobody
          holder_    \* the thread it was recorded for, or Nobody

Lock(m) == << <<"acquire", m>>, <<"setHolder", m>> >>

(* Mutant: the mutex is released first.                                    *)
UnlockTurned(m) == << <<"release", m>>, <<"clearHolder", m>> >>
Unlock(m) == << <<"clearHolder", m>>, <<"release", m>> >>

(* MutexLockGuard: body runs under the lock.                               *)
Guarded(m, body) == Lock(m) \o body \o Unlock(m)

Acquire(t, m) == /\ mutex_[m] = Nobody
                 /\ mutex_' = [mutex_ EXCEPT ![m] = t]
                 /\ UNCHANGED holder_
SetHolder(t, m) == holder_' = [holder_ EXCEPT ![m] = t] /\ UNCHANGED mutex_
ClearHolder(m) == holder_' = [holder_ EXCEPT ![m] = Nobody] /\ UNCHANGED mutex_
Release(m) == mutex_' = [mutex_ EXCEPT ![m] = Nobody] /\ UNCHANGED holder_

IsLockedBy(t, m) == holder_[m] = t
=============================================================================
