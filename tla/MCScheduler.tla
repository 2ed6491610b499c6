---------------------------- MODULE MCScheduler ----------------------------
(* Programs and instances for Scheduler.                                   *)
EXTENDS Scheduler, TLC

CONSTANTS t1, t2, t3, o1, o2, w1

New(t) == [op |-> "new", thread |-> t]
Go(t) == [op |-> "start", thread |-> t]
Bg(t) == [op |-> "background", thread |-> t]
TryLock(o, ms, n) == [op |-> "enter", obj |-> o, time |-> ms, else |-> n]
Lock(o) == TryLock(o, -1, 1)
Unlock(o) == [op |-> "exit", obj |-> o]
Nap(ms) == [op |-> "sleep", time |-> ms]
Weak(o) == [op |-> "weak", ref |-> w1, obj |-> o]
Again(n) == [op |-> "loop", to |-> n]

(* What the main thread and a worker do with the locks; the last one exits *)
(* whether it got the lock or not.                                         *)
Works == {
  <<Lock(o1), Nap(1), Unlock(o1)>>,
  <<Lock(o1), Lock(o2), Unlock(o2), Unlock(o1)>>,
  <<Lock(o2), Lock(o1), Lock(o2), Unlock(o2), Unlock(o1), Unlock(o2)>>,
  <<TryLock(o1, 1, 4), Nap(2), Unlock(o1)>>,
  <<TryLock(o2, 0, 4), Weak(o2), Unlock(o2), Nap(1)>>,
  <<TryLock(o1, 1, 2), Unlock(o1)>> }

MainWorks == {<<>>, <<Lock(o2), Nap(1), Unlock(o2)>>}

(* Two workers, started by the main thread or by each other, in the        *)
(* foreground or in the background, and one perhaps never started.         *)
MCPrograms ==
  {t1 :> (<<New(t2), Go(t2), New(t3), Go(t3)>> \o m) @@ t2 :> a @@ t3 :> b :
     m \in MainWorks, a \in Works, b \in Works}
  \cup
  {t1 :> (<<New(t2), New(t3), Bg(t2), Go(t2)>> \o m) @@ t2 :> (a \o <<Go(t3)>>) @@ t3 :> b :
     m \in MainWorks, a \in Works, b \in {<<Nap(1)>>}}
  \cup
  {t1 :> <<New(t2), New(t3), Go(t3)>> @@ t2 :> <<>> @@ t3 :> b :
     b \in Works \cup {<<Nap(-1)>>}}

(* Threads that loop: two or three threads that enter and leave the same   *)
(* lock again and again, one that sleeps, one that only computes.          *)
Locker(o) == <<Lock(o), Unlock(o), Again(1)>>
SlowLocker(o) == <<Lock(o), Nap(1), Unlock(o), Again(1)>>

MCLoops ==
  {t1 :> (<<New(t2), Go(t2), New(t3), Go(t3)>> \o m) @@ t2 :> a @@ t3 :> b :
     m \in {<<>>, <<Lock(o1), Unlock(o1), Again(5)>>},
     a \in {Locker(o1), SlowLocker(o1), <<Nap(1), Again(1)>>},
     b \in {Locker(o1), <<Again(1)>>}}
=============================================================================
