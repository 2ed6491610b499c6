---------------------------- MODULE MonitorSpec ----------------------------
(***************************************************************************)
(* What Monitor.Enter and Monitor.Exit promise to managed code: one        *)
(* re-entrant lock per object.  An object is held by at most one thread,   *)
(* which may enter it again, and which gives it up by leaving it as many   *)
(* times as it entered.  SyncBlock.tla is the code that implements it.     *)
(***************************************************************************)
EXTENDS Naturals

CONSTANTS Threads,  \* the managed threads
          Objects,  \* the heap objects used as locks
          NULL      \* no thread: not a member of Threads

VARIABLES holder,   \* holder[o]: the thread inside o, or NULL
          depth     \* depth[o]: how many times the holder entered o

mvars == <<holder, depth>>

MonitorTypeOK ==
  /\ holder \in [Objects -> Threads \cup {NULL}]
  /\ depth \in [Objects -> Nat]

MonitorInit ==
  /\ holder = [o \in Objects |-> NULL]
  /\ depth = [o \in Objects |-> 0]

Acquire(t, o) ==
  /\ holder[o] \in {NULL, t}
  /\ holder' = [holder EXCEPT ![o] = t]
  /\ depth' = [depth EXCEPT ![o] = @ + 1]

Release(t, o) ==
  /\ holder[o] = t
  /\ depth[o] > 0
  /\ holder' = [holder EXCEPT ![o] = IF depth[o] = 1 THEN NULL ELSE t]
  /\ depth' = [depth EXCEPT ![o] = @ - 1]

MonitorNext == \E t \in Threads, o \in Objects : Acquire(t, o) \/ Release(t, o)

MonitorSafety == MonitorInit /\ [][MonitorNext]_mvars
=============================================================================
