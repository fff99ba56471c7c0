--------------------------------- MODULE Arc ---------------------------------
(***************************************************************************)
(* The atomic reference counts of datara_guard.c: one heap object whose    *)
(* 16-byte header holds a strong count (hdr[0]) and a weak count (hdr[1]), *)
(* used by several threads.  Each atomic access of the header is a step of *)
(* its own; what a thread remembers between two accesses is its pc and the *)
(* last strong count it observed.                                          *)
(*                                                                         *)
(* The calling program is compiled code that passed the ownership checker: *)
(* a thread acquires, releases or makes a weak handle only with a strong   *)
(* reference of its own, upgrades or drops only a weak handle of its own,  *)
(* and references move between threads (Move).                             *)
(***************************************************************************)
EXTENDS Integers, FiniteSets

CONSTANTS Threads,      \* threads of the running program
          StrongRefs,   \* names of strong references: bounds those alive at once
          WeakRefs,     \* names of weak handles (empty: the program has none)
          None          \* owner of a reference that does not exist

ASSUME ArcAssumption == /\ IsFiniteSet(StrongRefs) /\ StrongRefs # {}
                        /\ IsFiniteSet(WeakRefs)
                        /\ None \notin Threads

VARIABLES strong,       \* hdr[0]
          weak,         \* hdr[1]
          sref,         \* sref[r]: the thread holding strong reference r
          wref,         \* wref[w]: the thread holding weak handle w
          pc,           \* where thread t is inside a runtime call
          prev,         \* prev[t]: the strong count t last observed
          frees,        \* times datara_rt_free was called on the header
          uaf           \* a header access happened after the first free

vars == <<strong, weak, sref, wref, pc, prev, frees, uaf>>

PCs == {"idle", "acquire", "release", "releaseCheck", "upgrade", "dropCheck", "aborted"}

Held(refs) == {r \in DOMAIN refs : refs[r] # None}

TypeOK == /\ strong \in Nat
          /\ weak \in Nat
          /\ sref \in [StrongRefs -> Threads \cup {None}]
          /\ wref \in [WeakRefs -> Threads \cup {None}]
          /\ pc \in [Threads -> PCs]
          /\ prev \in [Threads -> Nat]
          /\ frees \in 0..2
          /\ uaf \in BOOLEAN

\* datara_rt_arc_init by the creating thread: strong = 1, weak = 0.
Init == /\ strong = 1
        /\ weak = 0
        /\ \E t \in Threads, r \in StrongRefs :
              sref = [s \in StrongRefs |-> IF s = r THEN t ELSE None]
        /\ wref = [w \in WeakRefs |-> None]
        /\ pc = [t \in Threads |-> "idle"]
        /\ prev = [t \in Threads |-> 0]
        /\ frees = 0
        /\ uaf = FALSE

-----------------------------------------------------------------------------
\* Every access of the header; once it was freed the access is undefined
\* behaviour, recorded in uaf, after which the model takes no further step.
Touch == /\ ~uaf
         /\ uaf' = (frees > 0)

Goto(t, label) == pc' = [pc EXCEPT ![t] = label]

\* The first read of hdr[0] in acquire, release and upgrade.
LoadStrong(t, label) ==
    /\ pc[t] = "idle"
    /\ Touch
    /\ prev' = [prev EXCEPT ![t] = strong]
    /\ Goto(t, label)
    /\ UNCHANGED <<strong, weak, sref, wref, frees>>

\* A failed compare-and-swap keeps the observed count and retries.
Retry(t) ==
    /\ prev[t] # strong
    /\ prev' = [prev EXCEPT ![t] = strong]
    /\ UNCHANGED <<strong, weak, sref, wref, pc, frees>>

\* The call ends without touching the counts: the fatal path of acquire and
\* release, and upgrade's "weak: dead".
Leave(t, label) ==
    /\ Goto(t, label)
    /\ UNCHANGED <<strong, weak, sref, wref, prev, frees>>

\* Variant: the update is a plain load and store, so increments can be lost.
Increment_PlainStore(t) ==
    /\ \E r \in StrongRefs \ Held(sref) : sref' = [sref EXCEPT ![r] = t]
    /\ strong' = prev[t] + 1
    /\ Goto(t, "idle")
    /\ UNCHANGED <<weak, wref, prev, frees>>

\* The successful compare-and-swap of acquire and upgrade.
Increment(t) ==
    /\ prev[t] = strong
    /\ \E r \in StrongRefs \ Held(sref) : sref' = [sref EXCEPT ![r] = t]
    /\ strong' = strong + 1
    /\ Goto(t, "idle")
    /\ UNCHANGED <<weak, wref, prev, frees>>

HoldsStrong(t) == \E r \in StrongRefs : sref[r] = t
HoldsWeak(t) == \E w \in WeakRefs : wref[w] = t

ArcAcquireLoad(t) == HoldsStrong(t) /\ LoadStrong(t, "acquire")

ArcAcquireCas(t) ==
    /\ pc[t] = "acquire"
    /\ Touch
    /\ IF prev[t] <= 0 THEN Leave(t, "aborted") ELSE Increment(t) \/ Retry(t)

ArcReleaseLoad(t) == HoldsStrong(t) /\ LoadStrong(t, "release")

\* Variant: the count before the decrement is compared instead of `want`.
Decrement_OffByOne(t) ==
    /\ prev[t] = strong
    /\ \E r \in StrongRefs : sref[r] = t /\ sref' = [sref EXCEPT ![r] = None]
    /\ strong' = strong - 1
    /\ Goto(t, IF strong <= 2 THEN "releaseCheck" ELSE "idle")
    /\ UNCHANGED <<weak, wref, prev, frees>>

\* A successful decrement; the thread that reaches zero goes on to the check.
Decrement(t) ==
    /\ prev[t] = strong
    /\ \E r \in StrongRefs : sref[r] = t /\ sref' = [sref EXCEPT ![r] = None]
    /\ strong' = strong - 1
    /\ Goto(t, IF strong = 1 THEN "releaseCheck" ELSE "idle")
    /\ UNCHANGED <<weak, wref, prev, frees>>

ArcReleaseCas(t) ==
    /\ pc[t] = "release"
    /\ Touch
    /\ IF prev[t] <= 0 THEN Leave(t, "aborted") ELSE Decrement(t) \/ Retry(t)

\* Free the header if the count just read is zero.  After a free the read value
\* is garbage, so that either branch may be taken.
FreeIf(zero) ==
    frees' \in IF frees > 0 THEN {frees, frees + 1} ELSE {IF zero THEN 1 ELSE 0}

\* want == 0 && hdr[1] == 0: the second half of the test is a read of its own.
ArcReleaseCheck(t) ==
    /\ pc[t] = "releaseCheck"
    /\ Touch
    /\ FreeIf(weak = 0)
    /\ Goto(t, "idle")
    /\ UNCHANGED <<strong, weak, sref, wref, prev>>

WeakCreate(t) ==
    /\ pc[t] = "idle"
    /\ HoldsStrong(t)
    /\ Touch
    /\ weak' = weak + 1
    /\ \E w \in WeakRefs \ Held(wref) : wref' = [wref EXCEPT ![w] = t]
    /\ UNCHANGED <<strong, sref, pc, prev, frees>>

WeakUpgradeLoad(t) == HoldsWeak(t) /\ LoadStrong(t, "upgrade")

\* Variant: the strong count is not tested before it is incremented.
WeakUpgradeCas_NoTest(t) ==
    /\ pc[t] = "upgrade"
    /\ Touch
    /\ Increment(t) \/ Retry(t)

WeakUpgradeCas(t) ==
    /\ pc[t] = "upgrade"
    /\ Touch
    /\ IF prev[t] <= 0 THEN Leave(t, "idle") ELSE Increment(t) \/ Retry(t)

\* The cell is freed, then the weak count decremented; the last handle goes on
\* to look at the strong count.
WeakDrop(t) ==
    /\ pc[t] = "idle"
    /\ Touch
    /\ weak' = weak - 1
    /\ \E w \in WeakRefs : wref[w] = t /\ wref' = [wref EXCEPT ![w] = None]
    /\ Goto(t, IF weak = 1 THEN "dropCheck" ELSE "idle")
    /\ UNCHANGED <<strong, sref, prev, frees>>

\* Variant: the last weak handle leaves the header to the strong side.
WeakDropCheck_NeverFrees(t) ==
    /\ pc[t] = "dropCheck"
    /\ Touch
    /\ Goto(t, "idle")
    /\ UNCHANGED <<strong, weak, sref, wref, prev, frees>>

WeakDropCheck(t) ==
    /\ pc[t] = "dropCheck"
    /\ Touch
    /\ FreeIf(strong = 0)
    /\ Goto(t, "idle")
    /\ UNCHANGED <<strong, weak, sref, wref, prev>>

\* The program hands a strong reference or a weak handle to another thread.
Move(t, u) ==
    /\ ~uaf
    /\ pc[t] = "idle"
    /\ \/ /\ \E r \in StrongRefs : sref[r] = t /\ sref' = [sref EXCEPT ![r] = u]
          /\ UNCHANGED wref
       \/ /\ \E w \in WeakRefs : wref[w] = t /\ wref' = [wref EXCEPT ![w] = u]
          /\ UNCHANGED sref
    /\ UNCHANGED <<strong, weak, pc, prev, frees, uaf>>

Step(t) == \/ ArcAcquireLoad(t) \/ ArcAcquireCas(t)
           \/ ArcReleaseLoad(t) \/ ArcReleaseCas(t) \/ ArcReleaseCheck(t)
           \/ WeakCreate(t) \/ WeakUpgradeLoad(t) \/ WeakUpgradeCas(t)
           \/ WeakDrop(t) \/ WeakDropCheck(t)
           \/ \E u \in Threads \ {t} : Move(t, u)

Next == \E t \in Threads : Step(t)

Spec == Init /\ [][Next]_vars

-----------------------------------------------------------------------------
(***************************************************************************)
(* Properties                                                              *)
(***************************************************************************)

\* The object is not reclaimed while some thread holds a strong reference,
\* however releases, upgrades and weak drops of other threads interleave.
StrongKeepsAlive == Held(sref) # {} => frees = 0

\* "Weak upgrade CAS-retries against the strong count so check+acquire is
\* atomic": an object whose strong count reached zero never comes back.
NoResurrection == [][strong = 0 => strong' = 0]_vars

\* datara_rt_arc_use_after_free is unreachable for a program that acquires and
\* releases only what it holds, also when its CAS loops race and retry.
NeverAborts == \A t \in Threads : pc[t] # "aborted"

\* When the last handle of either kind is gone and no call is in progress, the
\* allocation has been reclaimed: of a racing last release and last weak drop
\* at least one sees the other's zero.
NoLeak == (/\ Held(sref) = {} /\ Held(wref) = {} /\ ~uaf
           /\ \A t \in Threads : pc[t] = "idle") => frees > 0

\* "the allocation dies only when strong==0 AND weak==0": no header is freed
\* under a live handle, freed twice, or accessed after the free.
AllocationDiesLast == /\ frees > 0 => strong = 0 /\ weak = 0
                      /\ frees <= 1
                      /\ ~uaf

-----------------------------------------------------------------------------
(***************************************************************************)
(* The inductive invariant behind them.                                    *)
(***************************************************************************)

\* The counts are the numbers of references, whatever the CAS loops did.
CountsExact == /\ strong = Cardinality(Held(sref))
               /\ weak = Cardinality(Held(wref))

\* A thread inside acquire or release holds a reference and has seen it counted.
CallersHold == \A t \in Threads : pc[t] \in {"acquire", "release"} =>
                                     HoldsStrong(t) /\ prev[t] > 0

\* The thread that reached zero, and any free, come after the strong count died.
ZeroIsFinal == /\ \A t \in Threads : pc[t] = "releaseCheck" => strong = 0
               /\ frees > 0 => strong = 0

\* While both counts are zero somebody has freed the header or is about to look.
SomebodyLooks == (strong = 0 /\ weak = 0 /\ ~uaf) =>
                    \/ frees > 0
                    \/ \E t \in Threads : pc[t] \in {"releaseCheck", "dropCheck"}

\* What every reachable state satisfies: the counts count the references, no
\* thread is on the fatal path, and the last zero is always looked at.
ArcInv == /\ TypeOK
          /\ CountsExact
          /\ CallersHold
          /\ ZeroIsFinal
          /\ SomebodyLooks
          /\ NeverAborts
          /\ uaf \/ frees <= 1
==============================================================================
