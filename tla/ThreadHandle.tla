----------------------------- MODULE ThreadHandle -----------------------------
(***************************************************************************)
(* One thread handle of datara_thread.c (POSIX branch): the spawned thread *)
(* runs datara_thread_proxy on the handle, other threads join it, and one  *)
(* thread frees it.  A critical section on the handle's mutex is one step. *)
(***************************************************************************)
EXTENDS Naturals, FiniteSets

CONSTANTS Joiners,
          FreeEarly     \* may the program free a handle it has not joined?

ThreadHandleAssumption == FreeEarly \in BOOLEAN

VARIABLES handle,       \* the struct: "none", "live", "freed", "null" (spawn failed)
          finished, joined,
          proxy,        \* the new thread: "none", "entry", "body", "exits", "over"
          os,           \* the OS thread: "none", "attached", "detached",
                        \* "zombie" (over, never waited for), "reclaimed"
          pc,           \* pc[j]: "idle", "waiting", "awake", "expired"
          how,          \* how[j]: "forever" or "timed", while j waits
          ret,          \* ret[j]: "none", "ok" (0), "timeout" (1)
          dangling      \* the threads that touched the struct after free()

vars == <<handle, finished, joined, proxy, os, pc, how, ret, dangling>>

TypeOK == /\ handle \in {"none", "live", "freed", "null"}
          /\ finished \in BOOLEAN /\ joined \in BOOLEAN
          /\ proxy \in {"none", "entry", "body", "exits", "over"}
          /\ os \in {"none", "attached", "detached", "zombie", "reclaimed"}
          /\ pc \in [Joiners -> {"idle", "waiting", "awake", "expired"}]
          /\ how \in [Joiners -> {"none", "forever", "timed"}]
          /\ ret \in [Joiners -> {"none", "ok", "timeout"}]
          /\ dangling \subseteq Joiners \cup {"proxy"}

Init == /\ handle = "none" /\ finished = FALSE /\ joined = FALSE
        /\ proxy = "none" /\ os = "none"
        /\ pc = [j \in Joiners |-> "idle"]
        /\ how = [j \in Joiners |-> "none"]
        /\ ret = [j \in Joiners |-> "none"]
        /\ dangling = {}

\* t reads or writes the struct.
Touch(t) == dangling' = IF handle = "freed" THEN dangling \cup {t} ELSE dangling

Spawn == /\ handle = "none"
         /\ \/ handle' = "live" /\ proxy' = "entry" /\ os' = "attached"
            \/ handle' = "null" /\ UNCHANGED <<proxy, os>>     \* pthread_create failed
         /\ UNCHANGED <<finished, joined, pc, how, ret, dangling>>

\* The proxy loads entry_fn and arg and calls the function.
ProxyCalls == /\ proxy = "entry"
              /\ Touch("proxy")
              /\ proxy' = "body"
              /\ UNCHANGED <<handle, finished, joined, os, pc, how, ret>>

\* Variant: one waiter is signalled instead of all.
ProxyPublishes_SignalsOne ==
    /\ proxy = "body"
    /\ Touch("proxy")
    /\ finished' = TRUE
    /\ \E W \in SUBSET {j \in Joiners : pc[j] = "waiting"} :
          /\ Cardinality(W) <= 1
          /\ pc' = [j \in Joiners |-> IF j \in W THEN "awake" ELSE pc[j]]
    /\ proxy' = "exits"
    /\ UNCHANGED <<handle, joined, os, how, ret>>

\* The function has returned: result, finished and the broadcast, under the mutex.
ProxyPublishes ==
    /\ proxy = "body"
    /\ Touch("proxy")
    /\ finished' = TRUE
    /\ pc' = [j \in Joiners |-> IF pc[j] = "waiting" THEN "awake" ELSE pc[j]]
    /\ proxy' = "exits"
    /\ UNCHANGED <<handle, joined, os, how, ret>>

\* The OS thread ends; what it held is released only if it was detached.
ThreadExits == /\ proxy = "exits"
               /\ proxy' = "over"
               /\ os' = IF os = "detached" THEN "reclaimed" ELSE "zombie"
               /\ UNCHANGED <<handle, finished, joined, pc, how, ret, dangling>>

-----------------------------------------------------------------------------
\* datara_thread_join, from taking the mutex to releasing it or to the wait.
JoinSucceeds(j) == /\ finished
                   /\ joined' = TRUE
                   /\ ret' = [ret EXCEPT ![j] = "ok"]
                   /\ pc' = [pc EXCEPT ![j] = "idle"]
                   /\ how' = [how EXCEPT ![j] = "none"]

JoinWaits(j, h) == /\ ~finished
                   /\ h \in {"forever", "timed"}
                   /\ pc[j] # "expired"
                   /\ pc' = [pc EXCEPT ![j] = "waiting"]
                   /\ how' = [how EXCEPT ![j] = h]
                   /\ UNCHANGED <<joined, ret>>

\* Variant: a join that gave up still marks the handle joined.
JoinTimesOut_MarksJoined(j, h) ==
    /\ ~finished
    /\ h = "poll" \/ pc[j] = "expired"
    /\ ret' = [ret EXCEPT ![j] = "timeout"]
    /\ pc' = [pc EXCEPT ![j] = "idle"]
    /\ how' = [how EXCEPT ![j] = "none"]
    /\ joined' = TRUE

JoinTimesOut(j, h) == /\ ~finished
                      /\ h = "poll" \/ pc[j] = "expired"
                      /\ ret' = [ret EXCEPT ![j] = "timeout"]
                      /\ pc' = [pc EXCEPT ![j] = "idle"]
                      /\ how' = [how EXCEPT ![j] = "none"]
                      /\ UNCHANGED joined

\* Variant: after a timed wait the answer is "timeout" whatever happened meanwhile.
JoinStep_TimeoutWins(j, h) ==
    /\ Touch(j)
    /\ IF pc[j] = "expired"
       THEN /\ ret' = [ret EXCEPT ![j] = "timeout"]
            /\ pc' = [pc EXCEPT ![j] = "idle"]
            /\ how' = [how EXCEPT ![j] = "none"]
            /\ UNCHANGED joined
       ELSE JoinSucceeds(j) \/ JoinWaits(j, h) \/ JoinTimesOut(j, h)
    /\ UNCHANGED <<handle, finished, proxy, os>>

JoinStep(j, h) == /\ Touch(j)
                  /\ JoinSucceeds(j) \/ JoinWaits(j, h) \/ JoinTimesOut(j, h)
                  /\ UNCHANGED <<handle, finished, proxy, os>>

\* A call on a handle the program still owns.
Join(j) == /\ pc[j] = "idle" /\ handle = "live"
           /\ \E h \in {"forever", "timed", "poll"} : JoinStep(j, h)

JoinResumes(j) == pc[j] \in {"awake", "expired"} /\ JoinStep(j, how[j])

Wakeup(j) == /\ pc[j] = "waiting"
             /\ \/ pc' = [pc EXCEPT ![j] = "awake"]                  \* spurious
                \/ how[j] = "timed" /\ pc' = [pc EXCEPT ![j] = "expired"]
             /\ UNCHANGED <<handle, finished, joined, proxy, os, how, ret, dangling>>

\* datara_thread_free: detach unless joined, then free; no join is in progress.
ThreadFree ==
    /\ handle = "live"
    /\ \A j \in Joiners : pc[j] = "idle"
    /\ joined \/ FreeEarly
    /\ os' = IF joined THEN os
             ELSE IF os = "zombie" THEN "reclaimed" ELSE "detached"
    /\ handle' = "freed"
    /\ UNCHANGED <<finished, joined, proxy, pc, how, ret, dangling>>

Next == \/ Spawn \/ ProxyCalls \/ ProxyPublishes \/ ThreadExits \/ ThreadFree
        \/ \E j \in Joiners : Join(j) \/ JoinResumes(j) \/ Wakeup(j)

Spec == Init /\ [][Next]_vars

\* The spawned function returns, and a woken thread gets the mutex.
FairSpec == /\ Spec
            /\ WF_vars(ProxyCalls) /\ WF_vars(ProxyPublishes) /\ WF_vars(ThreadExits)
            /\ \A j \in Joiners : WF_vars(JoinResumes(j))

-----------------------------------------------------------------------------
(***************************************************************************)
(* Properties                                                              *)
(***************************************************************************)
\* Nobody touches the struct after free: the proxy's last access (its unlock) is
\* before any join can answer 0, and only then may a careful program free.  And
\* every variable is in its range.
NoUseAfterFree == TypeOK /\ dangling = {}

\* Why nobody does (inductive): the struct is freed only after a join, a join
\* answers 0 only after the proxy has published, and whoever waits holds it back.
HandleInv ==
    /\ NoUseAfterFree
    /\ joined => finished
    /\ finished <=> proxy \in {"exits", "over"}
    /\ handle \in {"none", "null"} => proxy = "none"
    /\ handle = "freed" => joined
    /\ \A j \in Joiners : pc[j] # "idle" => handle = "live"

\* A join answers "timeout" only while the thread has not published its result:
\* a wait that expires together with the result still returns the result.
NoFalseTimeout == [][\A j \in Joiners :
    ret'[j] = "timeout" /\ pc[j] # "idle" /\ pc'[j] = "idle" => ~finished]_vars

\* Every join without a timeout comes back, with all the joiners there are.
JoinsReturn == \A j \in Joiners : (pc[j] = "waiting") ~> (pc[j] = "idle")

(* Said in the repository, not kept by the code: see the README, "What the   *)
(* code does not guarantee", for the constants that show it.                *)

\* "Free thread handle resources (auto-detaches if still running)": once the
\* handle is gone no terminated thread is left that nobody can wait for any more.
ThreadReclaimed == ~(handle = "freed" /\ os = "zombie")
===============================================================================
