--------------------------- MODULE ToolchainProofs --------------------------
(***************************************************************************)
(* Proofs about the tools around the compiler.  Packages, for any          *)
(* registry, releases and archive: what one command may not touch, and the *)
(* two inductive invariants that tie the lock to the files on disk.        *)
(* Driver, for any import graph: what a check or a build has loaded, that  *)
(* a cached answer is that of a fresh check, that no stage of the back end *)
(* runs on a rejected program, and that the cycle search finds a cycle     *)
(* exactly when there is one.                                              *)
(***************************************************************************)
EXTENDS Packages, Driver, TLAPS, WellFoundedInduction, SequenceTheorems

(* ------------------------------ the command ----------------------------- *)

\* While a command is between its loop and its end, only its own next write, or
\* a crash, can happen.
LEMMA CommandSteps ==
  ASSUME pmNext, pmProc.pc \notin {"idle", "pick"}
  PROVE  \/ RemoveKey \/ RemoveLock \/ EditManifest
         \/ InstallCas \/ InstallLink \/ InstallToml \/ InstallLock
         \/ PublishSign \/ PublishIndex \/ Crash
BY DEF pmNext, AddRegistry, RemoveDir, ForgenRemove, Pick, Checkout, AddTarball, AddSparks,
       AddGit, AddBridge, RemoveBridge, Install, ForgenInstall, Update, LoopEnd,
       PublishBundle, Trust, Clone, Begin, Running

\* A command starts as a record with every field.
LEMMA IdleFields ==
  /\ DOMAIN Idle = ProcFields /\ Idle.pc = "idle" /\ Idle.cmd = "none"
  /\ Idle.src = "none" /\ Idle.todo = {} /\ DOMAIN Idle.mem = {}
  /\ DOMAIN Killed = ProcFields /\ Killed.pc = "idle" /\ Killed.cmd = "killed" /\ DOMAIN Killed.mem = {}
BY DEF Idle, Killed, ProcFields

\* What the removals and the commands that edit the manifest begin.
LEMMA EditorFields ==
  ASSUME AddGit \/ AddBridge \/ RemoveBridge \/ \E n \in pmNames : RemoveDir(n) \/ ForgenRemove(n)
  PROVE  /\ DOMAIN pmProc' = ProcFields /\ DOMAIN pmProc'.mem = {} /\ pmProc'.cmd # "update"
         /\ pmProc'.pc \in {"idle", "rmtoml", "gittoml", "bridgetoml", "unbridge", "forgentoml"}
<1>1. CASE AddGit \/ AddBridge \/ RemoveBridge
  BY <1>1, IdleFields DEF AddGit, AddBridge, RemoveBridge, ProcFields
<1>2. ASSUME NEW n, RemoveDir(n) \/ ForgenRemove(n)
      PROVE  \/ pmProc' = Idle
             \/ pmProc' = [Idle EXCEPT !.pc = "rmtoml", !.cmd = "remove", !.pkg.name = n]
             \/ pmProc' = [Idle EXCEPT !.pc = "forgentoml", !.cmd = "forgen", !.pkg.name = n]
  BY <1>2 DEF RemoveDir, ForgenRemove
<1>3. CASE \E n \in pmNames : RemoveDir(n) \/ ForgenRemove(n)
  <2>1. PICK n : \/ pmProc' = Idle
                 \/ pmProc' = [Idle EXCEPT !.pc = "rmtoml", !.cmd = "remove", !.pkg.name = n]
                 \/ pmProc' = [Idle EXCEPT !.pc = "forgentoml", !.cmd = "forgen", !.pkg.name = n]
    BY <1>2, <1>3
  <2>2. QED
    BY <2>1, IdleFields DEF ProcFields
<1>4. QED
  BY <1>1, <1>3

\* What the registry offers bears the name it is looked up by.
LEMMA LookupNames ==
  ASSUME NamedStore(pmBundles), NEW n \in DOMAIN lookup
  PROVE  lookup[n].name = n /\ n \in PkgNames
<1>1. CASE n \in Indexed
  <2>1. <<n, pmIndex[n]>> \in DOMAIN pmBundles /\ pmBundles[<<n, pmIndex[n]>>].st = "ok"
    BY <1>1 DEF Indexed
  <2>2. lookup[n] = pmBundles[<<n, pmIndex[n]>>].pkg
    BY <1>1 DEF lookup
  <2>3. QED
    BY <2>1, <2>2 DEF NamedStore
<1>2. CASE n \notin Indexed
  <2>1. lookup[n].name = n /\ n \in {p.name : p \in Curated}
    BY <1>2 DEF lookup
  <2>2. QED
    BY <2>1 DEF PkgNames
<1>3. QED
  BY <1>1, <1>2

\* What fetching a tarball ends in: nothing, the store's package, or a download
\* that the checksum admits.
LEMMA Fetched ==
  ASSUME NEW n, NEW v, NEW sum, NEW proc, DOMAIN proc = ProcFields,
         FetchTarball(n, v, sum, proc)
  PROVE  \/ pmProc' = Idle
         \/ /\ DOMAIN pmProc' = ProcFields /\ pmProc'.pc = "cas" /\ pmProc'.cmd = proc.cmd
            /\ pmProc'.src = proc.src /\ pmProc'.todo = proc.todo /\ pmProc'.mem = proc.mem
            /\ \/ CasHit(n, v) /\ pmProc'.pkg = casStore[<<n, v>>].pkg
               \/ \E d \in Downloads : ChecksumOk(d, sum) /\ pmProc'.pkg = package_from_tar(d)
<1>1. CASE CasHit(n, v)
  <2>1. pmProc' = [proc EXCEPT !.pc = "cas", !.pkg = casStore[<<n, v>>].pkg]
    BY <1>1 DEF FetchTarball
  <2>2. QED
    BY <2>1, <1>1 DEF ProcFields
<1>2. CASE ~CasHit(n, v) /\ pmProc' # Idle
  <2>1. PICK d \in Downloads :
          ChecksumOk(d, sum) /\ pmProc' = [proc EXCEPT !.pc = "cas", !.pkg = package_from_tar(d)]
    BY <1>2 DEF FetchTarball
  <2>2. QED
    BY <2>1 DEF ProcFields
<1>3. QED
  BY <1>1, <1>2

(* --------------------------------- names -------------------------------- *)

\* A command that ends, or that does not run, asks nothing of its fields.
LEMMA RestingNames ==
  ASSUME \/ pmProc' \in {Idle, Killed}
         \/ (NamesInv /\ pmProc.pc = "idle" /\ UNCHANGED pmProc)
  PROVE  ProcInv' /\ NamedLock(pmProc.mem)'
BY IdleFields DEF NamesInv, ProcInv, NamedLock, InstallPcs

\* What was fetched for a name is a package of that name, or the archive's.
LEMMA FetchedName ==
  ASSUME NamedStore(casStore), NEW n, NEW v, NEW pkg,
         \/ CasHit(n, v) /\ pkg = casStore[<<n, v>>].pkg
         \/ \E d \in Downloads : pkg = package_from_tar(d)
  PROVE  pkg.name \in {n, Archive.name}
<1>1. CASE CasHit(n, v) /\ pkg = casStore[<<n, v>>].pkg
  <2>1. <<n, v>> \in DOMAIN casStore /\ casStore[<<n, v>>].st = "ok" /\ <<n, v>>[1] = n
    BY <1>1 DEF CasHit
  <2>2. QED
    BY <1>1, <2>1 DEF NamedStore
<1>2. CASE \E d \in Downloads : pkg = package_from_tar(d)
  BY <1>2 DEF package_from_tar
<1>3. QED
  BY <1>1, <1>2

\* One more package in the lock, or in the copy of it that `dpm update` keeps.
LEMMA NamedLockPut ==
  ASSUME NEW t, NamedLock(t), NEW n \in PkgNames, NEW e, e.source = "url" => n = Archive.name
  PROVE  NamedLock(PutEntry(t, n, e))
BY DEF NamedLock, PutEntry

\* One package less.
LEMMA NamedLockWithout ==
  ASSUME NEW t, NamedLock(t), NEW n
  PROVE  NamedLock(Without(t, n))
BY DEF NamedLock, Without, Restrict

\* One more package in the store.
LEMMA NamedStorePut ==
  ASSUME NEW t, NamedStore(t), NEW n \in PkgNames, NEW v, NEW e,
         e.st = "ok" => e.pkg.name = n
  PROVE  NamedStore(PutEntry(t, <<n, v>>, e))
BY DEF NamedStore, PutEntry

\* Names and shapes: a command that starts.
LEMMA BeginNames ==
  ASSUME NamesInv, PackagesAssumption, Begin,
         \/ \E n \in pmNames : AddRegistry(n) \/ RemoveDir(n) \/ ForgenRemove(n) \/ Checkout(n)
         \/ \E sha \in ShaChoices : AddTarball(sha)
         \/ \E m \in SparksManifests : AddSparks(m)
         \/ AddGit \/ AddBridge \/ RemoveBridge \/ Install \/ ForgenInstall \/ Update
         \/ \E r \in Releases, s \in BOOLEAN : PublishBundle(r, s)
         \/ Trust \/ Clone
  PROVE  NamesInv'
<1> USE DEF NamesInv
<1>1. CASE \E n \in pmNames : AddRegistry(n)
  <2>1. PICK n \in DOMAIN lookup : pmProc' = Installing(lookup[n], "hypergrid", "add", FALSE)
    BY <1>1 DEF AddRegistry
  <2>2. UNCHANGED <<casStore, pmBundles, LockedPkgs>>
    BY <1>1 DEF AddRegistry, Store, Project, LockedPkgs
  <2>3. ProcInv' /\ NamedLock(pmProc.mem)'
    <3>1. /\ DOMAIN pmProc' = ProcFields /\ pmProc'.pc = "cas" /\ pmProc'.cmd = "add"
          /\ pmProc'.pkg = lookup[n] /\ pmProc'.src = "hypergrid" /\ DOMAIN pmProc'.mem = {}
      BY <2>1, IdleFields DEF Installing, ProcFields
    <3>2. lookup[n].name \in PkgNames
      BY LookupNames
    <3>3. QED
      BY <3>1, <3>2 DEF ProcInv, NamedLock, InstallPcs
  <2>4. QED
    BY <2>2, <2>3 DEF NamedLock, NamedStore
<1>2. CASE AddGit \/ AddBridge \/ RemoveBridge \/ \E n \in pmNames : RemoveDir(n) \/ ForgenRemove(n)
  <2>1. UNCHANGED <<casStore, pmBundles, LockedPkgs>>
    BY <1>2 DEF AddGit, AddBridge, RemoveBridge, RemoveDir, ForgenRemove, Store, LockedPkgs
  <2>2. ProcInv' /\ NamedLock(pmProc.mem)'
    BY <1>2, EditorFields DEF ProcInv, NamedLock, InstallPcs
  <2>3. QED
    BY <2>1, <2>2 DEF NamedLock, NamedStore
<1>3. CASE UNCHANGED <<pmProc, pmBundles, LockedPkgs>> /\ (UNCHANGED casStore \/ casStore' = <<>>)
  <2>1. ProcInv' /\ NamedLock(pmProc.mem)'
    BY <1>3, RestingNames DEF Begin
  <2>2. NamedStore(casStore)'
    BY <1>3 DEF NamedStore
  <2>3. QED
    BY <1>3, <2>1, <2>2 DEF NamedLock, NamedStore
<1>4. CASE \E sha \in ShaChoices : AddTarball(sha)
  <2>1. PICK sha, sum :
          FetchTarball(Archive.name, 1, sum, [Idle EXCEPT !.cmd = "add", !.src = "url", !.sha = sha])
    BY <1>4 DEF AddTarball
  <2>2. UNCHANGED <<casStore, pmBundles, LockedPkgs>>
    BY <1>4 DEF AddTarball, Store, Project, LockedPkgs
  <2> DEFINE proc == [Idle EXCEPT !.cmd = "add", !.src = "url", !.sha = sha]
  <2>3. /\ DOMAIN proc = ProcFields /\ proc.cmd = "add" /\ proc.src = "url"
        /\ proc.todo = {} /\ DOMAIN proc.mem = {}
    BY IdleFields DEF ProcFields
  <2> HIDE DEF proc
  <2>4. CASE pmProc' = Idle
    BY <2>2, <2>4, RestingNames DEF NamedLock, NamedStore
  <2>5. CASE pmProc' # Idle
    <3>1. /\ DOMAIN pmProc' = ProcFields /\ pmProc'.pc = "cas" /\ pmProc'.cmd = "add"
          /\ DOMAIN pmProc'.mem = {}
          /\ \/ CasHit(Archive.name, 1) /\ pmProc'.pkg = casStore[<<Archive.name, 1>>].pkg
             \/ \E d \in Downloads : pmProc'.pkg = package_from_tar(d)
      <4>1. FetchTarball(Archive.name, 1, sum, proc)
        BY <2>1 DEF proc
      <4>2. QED
        BY <4>1, <2>3, <2>5, Fetched
    <3>2. pmProc'.pkg.name = Archive.name
      BY <3>1, FetchedName
    <3>3. ProcInv' /\ NamedLock(pmProc.mem)'
      BY <3>1, <3>2 DEF ProcInv, NamedLock, InstallPcs, PkgNames
    <3>4. QED
      BY <2>2, <3>3 DEF NamedLock, NamedStore
  <2>6. QED
    BY <2>4, <2>5
<1>5. CASE \E m \in SparksManifests : AddSparks(m)
  <2>1. \/ pmProc' = Idle
        \/ \E d \in Downloads :
             pmProc' = Installing([package_from_tar(d) EXCEPT !.digest = TarSha(d)], "url", "add", TRUE)
    BY <1>5 DEF AddSparks
  <2>2. UNCHANGED <<casStore, pmBundles, LockedPkgs>>
    BY <1>5 DEF AddSparks, Store, Project, LockedPkgs
  <2>3. ProcInv' /\ NamedLock(pmProc.mem)'
    <3>1. CASE pmProc' = Idle
      BY <3>1, RestingNames
    <3>2. ASSUME NEW d,
                 pmProc' = Installing([package_from_tar(d) EXCEPT !.digest = TarSha(d)],
                                      "url", "add", TRUE)
          PROVE  ProcInv' /\ NamedLock(pmProc.mem)'
      <4>1. [package_from_tar(d) EXCEPT !.digest = TarSha(d)].name = Archive.name
        BY DEF package_from_tar
      <4>2. QED
        <5>1. /\ DOMAIN pmProc' = ProcFields /\ pmProc'.pc = "cas" /\ pmProc'.cmd = "add"
              /\ pmProc'.pkg.name = Archive.name /\ DOMAIN pmProc'.mem = {}
          BY <3>2, <4>1, IdleFields DEF Installing, ProcFields
        <5>2. QED
          BY <5>1 DEF ProcInv, NamedLock, InstallPcs, PkgNames
    <3>3. QED
      BY <2>1, <3>1, <3>2
  <2>4. QED
    BY <2>2, <2>3 DEF NamedLock, NamedStore
<1>6. CASE Install \/ ForgenInstall \/ Update
  <2>1. UNCHANGED <<casStore, pmBundles, pmIndex, LockedPkgs>>
    BY <1>6 DEF Install, ForgenInstall, Update, Store, Project, LockedPkgs
  <2>2. lookup' = lookup
    BY <2>1 DEF lookup, Indexed
  <2>3. ASSUME pmProc' # Idle PROVE ProcInv' /\ NamedLock(pmProc.mem)'
    <3>1. \/ \E todo : pmProc' = [Idle EXCEPT !.pc = "pick", !.cmd = "restore", !.mem = LockedPkgs,
                                      !.todo = todo] /\ todo \subseteq DOMAIN LockedPkgs
          \/ \E todo : pmProc' = [Idle EXCEPT !.pc = "pick", !.cmd = "sync", !.todo = todo]
                          /\ todo \subseteq DOMAIN lookup
          \/ \E todo : pmProc' = [Idle EXCEPT !.pc = "pick", !.cmd = "update", !.mem = LockedPkgs,
                                      !.todo = todo] /\ todo \subseteq DOMAIN lookup
      <4>1. Update => \E todo : pmProc' = [Idle EXCEPT !.pc = "pick", !.cmd = "update", !.mem = LockedPkgs,
                                      !.todo = todo] /\ todo \subseteq DOMAIN lookup
        BY <2>3 DEF Update
      <4>2. pmProc' = Sync => \E todo : pmProc' = [Idle EXCEPT !.pc = "pick", !.cmd = "sync", !.todo = todo]
                          /\ todo \subseteq DOMAIN lookup
        BY DEF Sync
      <4>3. Install \/ ForgenInstall =>
              \/ pmProc' = Sync
              \/ \E todo : pmProc' = [Idle EXCEPT !.pc = "pick", !.cmd = "restore", !.mem = LockedPkgs,
                                      !.todo = todo] /\ todo \subseteq DOMAIN LockedPkgs
        BY DEF Install, ForgenInstall
      <4>4. QED
        BY <1>6, <4>1, <4>2, <4>3
    <3>2. /\ DOMAIN pmProc' = ProcFields /\ pmProc'.pc = "pick"
          /\ pmProc'.cmd \in {"sync", "update", "restore"}
          /\ pmProc'.cmd = "restore" => pmProc'.todo \subseteq DOMAIN pmProc'.mem
          /\ pmProc'.cmd \in {"sync", "update"} => pmProc'.todo \subseteq DOMAIN lookup
          /\ pmProc'.mem \in {LockedPkgs, Idle.mem}
      BY <3>1, IdleFields DEF ProcFields
    <3>3. NamedLock(pmProc.mem)'
      BY <3>2, IdleFields DEF NamedLock
    <3>4. ProcInv'
      BY <2>2, <3>2 DEF ProcInv, InstallPcs
    <3>5. QED
      BY <3>3, <3>4
  <2>4. ProcInv' /\ NamedLock(pmProc.mem)'
    BY <2>3, RestingNames
  <2>5. QED
    BY <2>1, <2>4 DEF NamedLock, NamedStore
<1>7. CASE \E r \in Releases, s \in BOOLEAN : PublishBundle(r, s)
  <2>1. PICK r \in Releases, s \in BOOLEAN : PublishBundle(r, s)
    BY <1>7
  <2>2. PICK pkg :
          /\ pkg.name = r.name
          /\ pmBundles' = PutEntry(pmBundles, <<r.name, r.version>>, [st |-> "ok", pkg |-> pkg])
          /\ pmProc' = [Idle EXCEPT !.pc = IF s THEN "sign" ELSE "index", !.cmd = "publish", !.pkg = pkg]
    BY <2>1 DEF PublishBundle
  <2>3. UNCHANGED <<casStore, LockedPkgs>>
    BY <2>1 DEF PublishBundle, Project, LockedPkgs
  <2>4. NamedStore(pmBundles)'
    BY <2>2, NamedStorePut DEF PkgNames
  <2>5. DOMAIN pmProc' = ProcFields /\ pmProc'.pc \in {"sign", "index"} /\ DOMAIN pmProc'.mem = {}
    BY <2>2, IdleFields DEF ProcFields
  <2>6. ProcInv' /\ NamedLock(pmProc.mem)'
    BY <2>5 DEF ProcInv, NamedLock, InstallPcs
  <2>7. QED
    BY <2>3, <2>4, <2>6 DEF NamedLock, NamedStore
<1>8. QED
  BY <1>1, <1>2, <1>3, <1>4, <1>5, <1>6, <1>7
     DEF Checkout, Trust, Clone, Store, Project, LockedPkgs

\* A step that moves the command on and keeps the registry keeps its shape.
LEMMA SameCommand ==
  ASSUME NamesInv, UNCHANGED <<pmBundles, pmIndex>>, DOMAIN pmProc' = ProcFields,
         pmProc'.pc \in InstallPcs => pmProc.pc \in InstallPcs,
         pmProc'.pc \in InstallPcs \cup {"pick"} => pmProc.pc \in InstallPcs \cup {"pick"},
         pmProc'.pc = "pick" => pmProc.cmd # "add",
         pmProc'.cmd = pmProc.cmd, pmProc'.pkg = pmProc.pkg, pmProc'.src = pmProc.src,
         pmProc'.todo = pmProc.todo, DOMAIN pmProc.mem \subseteq DOMAIN pmProc'.mem
  PROVE  ProcInv'
<1>1. lookup' = lookup
  BY DEF lookup, Indexed
<1>2. QED
  BY <1>1 DEF ProcInv, NamesInv, InstallPcs

\* Names and shapes: a name taken from the loop.
LEMMA PickNames ==
  ASSUME NamesInv, NEW n, Pick(n)
  PROVE  NamesInv'
<1> USE DEF NamesInv
<1>1. UNCHANGED <<casStore, pmBundles, pmIndex, LockedPkgs>> /\ lookup' = lookup
  BY DEF Pick, Store, Project, LockedPkgs, lookup, Indexed
<1> DEFINE rest == [pmProc EXCEPT !.todo = @ \ {n}]
<1>2. /\ DOMAIN rest = ProcFields /\ rest.cmd = pmProc.cmd /\ rest.todo \subseteq pmProc.todo
      /\ rest.mem = pmProc.mem
  BY DEF ProcInv, ProcFields
<1>3. pmProc.pc = "pick" /\ n \in pmProc.todo
  BY DEF Pick, Running
<1>4. /\ pmProc.cmd \in {"sync", "update", "restore"}
      /\ pmProc.cmd = "restore" => pmProc.todo \subseteq DOMAIN pmProc.mem
      /\ pmProc.cmd \in {"sync", "update"} => pmProc.todo \subseteq DOMAIN lookup
  BY <1>3 DEF ProcInv
<1>5. SUFFICES ProcInv' /\ NamedLock(pmProc.mem)'
  BY <1>1 DEF NamedLock, NamedStore
<1>6. CASE pmProc' = Idle
  BY <1>6, RestingNames
<1>7. CASE n \in DOMAIN lookup /\ pmProc' # Idle
  <2>1. pmProc' = [rest EXCEPT !.pc = "cas", !.pkg = lookup[n],
                     !.src = IF pmProc.cmd = "restore" THEN pmProc.mem[n].source ELSE "hypergrid"]
    BY <1>7 DEF Pick
  <2> HIDE DEF rest
  <2>2. /\ DOMAIN pmProc' = ProcFields /\ pmProc'.pc = "cas" /\ pmProc'.cmd = pmProc.cmd
        /\ pmProc'.todo \subseteq pmProc.todo /\ pmProc'.mem = pmProc.mem
        /\ pmProc'.pkg = lookup[n]
        /\ pmProc'.src = IF pmProc.cmd = "restore" THEN pmProc.mem[n].source ELSE "hypergrid"
    BY <2>1, <1>2 DEF ProcFields
  <2>3. lookup[n].name = n /\ n \in PkgNames
    BY <1>7, LookupNames
  <2>4. pmProc'.src = "url" => n = Archive.name
    BY <1>3, <1>4, <2>2 DEF NamedLock
  <2>5. QED
    BY <1>1, <1>4, <2>2, <2>3, <2>4 DEF ProcInv, InstallPcs, NamedLock
<1>8. CASE n \notin DOMAIN lookup /\ pmProc' # Idle
  <2>1. /\ pmProc.mem[n].source = "url"
        /\ FetchTarball(n, pmProc.mem[n].version, pmProc.mem[n].digest, [rest EXCEPT !.src = "url"])
    BY <1>8 DEF Pick
  <2> HIDE DEF rest
  <2> DEFINE proc == [rest EXCEPT !.src = "url"]
  <2>2. /\ DOMAIN proc = ProcFields /\ proc.cmd = pmProc.cmd /\ proc.src = "url"
        /\ proc.todo \subseteq pmProc.todo /\ proc.mem = pmProc.mem
    BY <1>2 DEF ProcFields
  <2>3. FetchTarball(n, pmProc.mem[n].version, pmProc.mem[n].digest, proc)
    BY <2>1
  <2> HIDE DEF proc
  <2>4. /\ DOMAIN pmProc' = ProcFields /\ pmProc'.pc = "cas" /\ pmProc'.cmd = pmProc.cmd
        /\ pmProc'.todo \subseteq pmProc.todo /\ pmProc'.mem = pmProc.mem
        /\ \/ CasHit(n, pmProc.mem[n].version)
              /\ pmProc'.pkg = casStore[<<n, pmProc.mem[n].version>>].pkg
           \/ \E d \in Downloads : pmProc'.pkg = package_from_tar(d)
    BY <2>2, <2>3, <1>8, Fetched
  <2>5. n = Archive.name
    BY <1>3, <1>4, <1>8, <2>1 DEF NamedLock
  <2>6. pmProc'.pkg.name = Archive.name
    BY <2>4, <2>5, FetchedName
  <2>7. QED
    BY <1>1, <1>4, <2>4, <2>6 DEF ProcInv, InstallPcs, NamedLock, PkgNames
<1>9. QED
  BY <1>6, <1>7, <1>8

\* What a kill leaves of the lock: what it was, nothing, or a part of what was to be written.
LEMMA TornLocks ==
  ASSUME Crash
  PROVE  \/ UNCHANGED LockedPkgs
         \/ LockedPkgs' = <<>>
         \/ \E kept \in SUBSET DOMAIN NewLock : LockedPkgs' = Restrict(NewLock, kept) /\ pmProc.pc = "lock"
         \/ LET less == Without(LockedPkgs, pmProc.pkg.name)
            IN  \E kept \in SUBSET DOMAIN less : LockedPkgs' = Restrict(less, kept)
         \/ \E kept \in SUBSET DOMAIN pmProc.mem :
               LockedPkgs' = Restrict(pmProc.mem, kept) /\ pmProc.cmd = "update" /\ pmProc.pc # "idle"
<1>1. ASSUME NEW pkgs, TornLock(pkgs)
      PROVE  LockedPkgs' = <<>> \/ \E kept \in SUBSET DOMAIN pkgs : LockedPkgs' = Restrict(pkgs, kept)
  BY <1>1 DEF TornLock, SaveLock, LockedPkgs
<1>2. UNCHANGED depLock => UNCHANGED LockedPkgs
  BY DEF LockedPkgs
<1>3. QED
  BY <1>1, <1>2 DEF Crash, Torn

\* Names and shapes: the steps of a command that runs.
LEMMA RunNames ==
  ASSUME NamesInv,
         \/ RemoveKey \/ RemoveLock \/ EditManifest \/ LoopEnd
         \/ InstallCas \/ InstallLink \/ InstallToml \/ InstallLock
         \/ PublishSign \/ PublishIndex \/ Crash
  PROVE  NamesInv'
<1> USE DEF NamesInv
<1>1. CASE UNCHANGED <<casStore, pmBundles, LockedPkgs>> /\ pmProc' = Idle
  BY <1>1, RestingNames DEF NamedLock, NamedStore
<1>2. CASE RemoveKey \/ InstallLink \/ InstallToml \/ PublishSign
  <2>1. UNCHANGED <<casStore, pmBundles, pmIndex, LockedPkgs>>
    BY <1>2 DEF RemoveKey, InstallLink, InstallToml, PublishSign, Store, Project, LockedPkgs
  <2>2. \/ pmProc.pc = "rmtoml" /\ pmProc' = [pmProc EXCEPT !.pc = "rmlock"]
        \/ pmProc.pc = "link" /\ pmProc' = [pmProc EXCEPT !.pc = "toml"]
        \/ pmProc.pc = "toml" /\ pmProc' = [pmProc EXCEPT !.pc = "lock"]
        \/ pmProc.pc = "sign" /\ pmProc' = [pmProc EXCEPT !.pc = "index"]
    BY <1>2 DEF RemoveKey, InstallLink, InstallToml, PublishSign, Running
  <2>3. DOMAIN pmProc = ProcFields
    BY DEF ProcInv
  <2>4. /\ DOMAIN pmProc' = ProcFields /\ pmProc'.mem = pmProc.mem
        /\ pmProc'.cmd = pmProc.cmd /\ pmProc'.pkg = pmProc.pkg /\ pmProc'.src = pmProc.src
        /\ pmProc'.todo = pmProc.todo
    BY <2>2, <2>3 DEF ProcFields
  <2>5. pmProc'.pc \in InstallPcs \cup {"pick"} => pmProc.pc \in InstallPcs /\ pmProc'.pc # "pick"
    BY <2>2, <2>3 DEF ProcFields, InstallPcs
  <2>6. ProcInv'
    BY <2>1, <2>4, <2>5, SameCommand
  <2>7. QED
    BY <2>1, <2>4, <2>6 DEF NamedLock, NamedStore
<1>3. CASE InstallCas
  <2>1. UNCHANGED <<pmBundles, pmIndex, LockedPkgs>>
    BY <1>3 DEF InstallCas, Project, LockedPkgs
  <2>2. pmProc.pc = "cas" /\ pmProc.pkg.name \in PkgNames
    BY <1>3 DEF InstallCas, Running, ProcInv, InstallPcs
  <2>3. /\ DOMAIN pmProc' = ProcFields /\ pmProc'.mem = pmProc.mem /\ pmProc'.pc = "link"
        /\ pmProc'.cmd = pmProc.cmd /\ pmProc'.pkg = pmProc.pkg /\ pmProc'.src = pmProc.src
        /\ pmProc'.todo = pmProc.todo
    BY <1>3 DEF InstallCas, ProcInv, ProcFields
  <2>4. ProcInv'
    BY <2>1, <2>2, <2>3, SameCommand DEF InstallPcs
  <2>5. NamedStore(casStore)'
    BY <1>3, <2>2, NamedStorePut DEF InstallCas
  <2>6. QED
    BY <2>1, <2>3, <2>4, <2>5 DEF NamedLock, NamedStore
<1>4. CASE InstallLock
  <2> DEFINE n == pmProc.pkg.name
  <2>1. pmProc.pc = "lock" /\ n \in PkgNames /\ (pmProc.src = "url" => n = Archive.name)
    BY <1>4 DEF InstallLock, Running, ProcInv, InstallPcs
  <2>2. UNCHANGED <<casStore, pmBundles, pmIndex>>
    BY <1>4 DEF InstallLock, Store
  <2>3. PICK digest : LockedPkgs' = PutEntry(LockedPkgs, n, LockEntry(pmProc.pkg, digest, pmProc.src))
    BY <1>4 DEF InstallLock, NewLock, SaveLock, LockedPkgs
  <2>4. NamedLock(LockedPkgs)'
    BY <2>1, <2>3, NamedLockPut DEF LockEntry
  <2>5. CASE pmProc.cmd = "update"
    <3>1. pmProc' = [pmProc EXCEPT !.pc = "pick",
                       !.mem = PutEntry(@, n, LockEntry(pmProc.pkg, pmProc.pkg.digest, "hypergrid"))]
      BY <1>4, <2>5 DEF InstallLock
    <3>2. /\ DOMAIN pmProc' = ProcFields /\ pmProc'.pc = "pick"
          /\ pmProc'.mem = PutEntry(pmProc.mem, n, LockEntry(pmProc.pkg, pmProc.pkg.digest, "hypergrid"))
          /\ pmProc'.cmd = pmProc.cmd /\ pmProc'.pkg = pmProc.pkg /\ pmProc'.src = pmProc.src
          /\ pmProc'.todo = pmProc.todo
      BY <3>1 DEF ProcInv, ProcFields
    <3>3. NamedLock(pmProc.mem)'
      BY <2>1, <3>2, NamedLockPut DEF LockEntry
    <3>4. DOMAIN pmProc.mem \subseteq DOMAIN pmProc'.mem
      BY <3>2 DEF PutEntry
    <3>5. ProcInv'
      BY <2>1, <2>2, <2>5, <3>2, <3>4, SameCommand DEF InstallPcs
    <3>6. QED
      BY <2>2, <2>4, <3>3, <3>5 DEF NamedStore
  <2>6. CASE pmProc.cmd = "add"
    <3>1. pmProc' = Idle
      BY <1>4, <2>6 DEF InstallLock
    <3>2. QED
      BY <2>2, <2>4, <3>1, RestingNames DEF NamedStore
  <2>7. CASE pmProc.cmd \notin {"update", "add"}
    <3>1. pmProc' = [pmProc EXCEPT !.pc = "pick"]
      BY <1>4, <2>7 DEF InstallLock
    <3>2. /\ DOMAIN pmProc' = ProcFields /\ pmProc'.pc = "pick" /\ pmProc'.mem = pmProc.mem
          /\ pmProc'.cmd = pmProc.cmd /\ pmProc'.pkg = pmProc.pkg /\ pmProc'.src = pmProc.src
          /\ pmProc'.todo = pmProc.todo
      BY <3>1 DEF ProcInv, ProcFields
    <3>3. ProcInv'
      BY <2>1, <2>2, <2>7, <3>2, SameCommand DEF InstallPcs
    <3>4. QED
      BY <2>2, <2>4, <3>2, <3>3 DEF NamedStore, NamedLock
  <2>8. QED
    BY <2>5, <2>6, <2>7
<1>5. CASE RemoveLock
  <2>1. UNCHANGED <<casStore, pmBundles>> /\ pmProc' = Idle
    BY <1>5 DEF RemoveLock, Store
  <2>2. LockedPkgs' = Without(LockedPkgs, pmProc.pkg.name)
    BY <1>5 DEF RemoveLock, SaveLock, LockedPkgs
  <2>3. QED
    BY <2>1, <2>2, NamedLockWithout, RestingNames DEF NamedStore
<1>6. CASE LoopEnd
  <2>1. UNCHANGED <<casStore, pmBundles>> /\ pmProc' = Idle
    BY <1>6 DEF LoopEnd, Store
  <2>2. LockedPkgs' \in {LockedPkgs, pmProc.mem}
    BY <1>6 DEF LoopEnd, SaveLock, LockedPkgs
  <2>3. QED
    BY <2>1, <2>2, RestingNames DEF NamedStore
<1>7. CASE Crash
  <2>1. UNCHANGED pmBundles /\ pmProc' = Killed
    BY <1>7 DEF Crash
  <2>2. \/ UNCHANGED LockedPkgs
        \/ LockedPkgs' = <<>>
        \/ \E kept \in SUBSET DOMAIN NewLock : LockedPkgs' = Restrict(NewLock, kept) /\ pmProc.pc = "lock"
        \/ LET less == Without(LockedPkgs, pmProc.pkg.name)
           IN  \E kept \in SUBSET DOMAIN less : LockedPkgs' = Restrict(less, kept)
        \/ \E kept \in SUBSET DOMAIN pmProc.mem :
              LockedPkgs' = Restrict(pmProc.mem, kept) /\ pmProc.cmd = "update" /\ pmProc.pc # "idle"
    BY <1>7, TornLocks
  <2>3. \/ UNCHANGED casStore
        \/ /\ pmProc.pc = "cas"
           /\ casStore' = PutEntry(casStore, <<pmProc.pkg.name, pmProc.pkg.version>>,
                                   [st |-> "torn", pkg |-> NoPkg])
    BY <1>7 DEF Crash, Torn
  <2>4. NamedStore(casStore)'
    <3>1. CASE UNCHANGED casStore
      BY <3>1 DEF NamedStore
    <3>2. CASE ~UNCHANGED casStore
      <4>1. pmProc.pkg.name \in PkgNames
        BY <2>3, <3>2 DEF ProcInv, InstallPcs
      <4>2. QED
        BY <2>3, <3>2, <4>1, NamedStorePut
    <3>3. QED
      BY <3>1, <3>2
  <2>5. NamedLock(LockedPkgs)'
    <3>1. ASSUME NEW t, NEW kept, NamedLock(t), kept \subseteq DOMAIN t PROVE NamedLock(Restrict(t, kept))
      BY <3>1 DEF NamedLock, Restrict
    <3>2. NamedLock(Without(LockedPkgs, pmProc.pkg.name))
      BY NamedLockWithout
    <3>3. pmProc.pc = "lock" => NamedLock(NewLock)
      BY NamedLockPut DEF NewLock, LockEntry, ProcInv, InstallPcs
    <3>4. QED
      BY <2>2, <3>1, <3>2, <3>3 DEF NamedLock
  <2>6. QED
    BY <2>1, <2>4, <2>5, RestingNames DEF NamedStore
<1>8. QED
  BY <1>1, <1>2, <1>3, <1>4, <1>5, <1>6, <1>7 DEF PublishIndex, EditManifest, Store, Project, LockedPkgs

\* The names are right at the start and stay so.
THEOREM NamesInvariant == pmSpec => []NamesInv
<1>1. pmInit => NamesInv
  BY IdleFields DEF pmInit, NamesInv, ProcInv, NamedLock, NamedStore, LockedPkgs, EmptyLock, InstallPcs
<1>2. NamesInv /\ [pmNext]_pmVars => NamesInv'
  <2>1. CASE UNCHANGED pmVars
    BY <2>1 DEF pmVars, NamesInv, ProcInv, NamedLock, NamedStore, LockedPkgs, lookup, Indexed
  <2>2. ASSUME NamesInv, pmNext PROVE NamesInv'
    BY <2>2, BeginNames, PickNames, RunNames, PackagesAssumption
       DEF pmNext, AddRegistry, RemoveDir, ForgenRemove, Checkout, AddTarball, AddSparks, AddGit,
           AddBridge, RemoveBridge, Install, ForgenInstall, Update, PublishBundle, Trust, Clone
  <2>3. QED
    BY <2>1, <2>2
<1>3. QED
  BY <1>1, <1>2, PTL DEF pmSpec

(* --------------------------- what a step touches ------------------------ *)

\* No step of a command touches another package than the one it works on, but for
\* the write of the manifest or of the lock that a kill cuts short.
THEOREM CommandsTouchOnePackage == pmSpec => OthersUntouched
<1>1. ASSUME NamesInv, [pmNext]_pmVars PROVE OthersUntouchedStep
  <2> DEFINE n == pmProc.pkg.name
             others == pmNames \ {n}
             torn(pcs) == pmProc'.cmd = "killed" /\ pmProc.pc \in pcs
             Dirs == \A m \in others \cap DOMAIN pkgDirs : m \in DOMAIN pkgDirs' /\ pkgDirs'[m] = pkgDirs[m]
             Manifest == /\ others \cap Keys(depManifest) \subseteq Keys(depManifest')
                         /\ Parses(depManifest) => Parses(depManifest')
             Lock == \A m \in others \cap DOMAIN LockedPkgs :
                       m \in DOMAIN LockedPkgs' /\ LockedPkgs'[m] = LockedPkgs[m]
  <2> SUFFICES ASSUME TouchingOne
               PROVE  Dirs /\ (torn({"toml", "rmtoml"}) \/ Manifest) /\ (torn({"lock", "rmlock"}) \/ Lock)
    BY DEF OthersUntouchedStep
  <2>1. UNCHANGED pkgDirs => Dirs
    OBVIOUS
  <2>2. UNCHANGED depManifest => Manifest
    OBVIOUS
  <2>3. UNCHANGED depLock => Lock
    BY DEF LockedPkgs
  <2>4. ASSUME NEW files, pkgDirs' = PutEntry(pkgDirs, n, files) PROVE Dirs
    BY <2>4 DEF PutEntry
  <2>5. CASE RemoveKey
    <3>1. UNCHANGED <<pkgDirs, depLock>> /\ depManifest' \in NewManifests("rmtoml")
      BY <2>5 DEF RemoveKey
    <3>2. \/ UNCHANGED depManifest
          \/ /\ depManifest'.cut = depManifest.cut
             /\ depManifest'.lines = depManifest.lines \ LinesRemoved(n)
      BY <3>1 DEF NewManifests, LinesDropped
    <3>3. Manifest
      BY <2>2, <3>2 DEF Keys, Parses, LinesRemoved
    <3>4. QED
      BY <2>1, <2>3, <3>1, <3>3
  <2>6. CASE RemoveLock
    <3>1. LockedPkgs' = Without(LockedPkgs, n) /\ UNCHANGED <<pkgDirs, depManifest>>
      BY <2>6 DEF RemoveLock, SaveLock, LockedPkgs
    <3>2. Lock
      BY <3>1 DEF Without, Restrict
    <3>3. QED
      BY <2>1, <2>2, <3>1, <3>2
  <2>7. CASE InstallCas
    BY <2>1, <2>2, <2>3, <2>7 DEF InstallCas, Project
  <2>8. CASE InstallLink
    BY <2>2, <2>3, <2>4, <2>8 DEF InstallLink
  <2>9. CASE InstallToml
    <3>1. UNCHANGED <<pkgDirs, depLock>> /\ depManifest' \in NewManifests("toml") /\ pmProc.pc = "toml"
      BY <2>9 DEF InstallToml, Running
    <3>2. \/ UNCHANGED depManifest
          \/ /\ depManifest'.cut = depManifest.cut
             /\ depManifest'.lines = depManifest.lines \cup {Line(n)}
      BY <3>1 DEF NewManifests, Inserted
    <3>3. n # Cut
      BY <1>1, <3>1, PackagesAssumption DEF NamesInv, ProcInv, InstallPcs, PackagesAssumption, PkgNames
    <3>4. Line(n).key = n /\ Line(n).rest = {}
      BY DEF Line
    <3>5. Manifest
      BY <2>2, <3>2, <3>3, <3>4 DEF Keys, Parses
    <3>6. QED
      BY <2>1, <2>3, <3>1, <3>5
  <2>10. CASE InstallLock
    <3>1. LockedPkgs' = NewLock /\ UNCHANGED <<pkgDirs, depManifest>>
      BY <2>10 DEF InstallLock, SaveLock, LockedPkgs
    <3>2. Lock
      BY <3>1 DEF NewLock, PutEntry
    <3>3. QED
      BY <2>1, <2>2, <3>1, <3>2
  <2>11. CASE Crash
    <3>1. pmProc'.cmd = "killed"
      BY <2>11, IdleFields DEF Crash
    <3>2. Dirs
      BY <2>1, <2>4, <2>11 DEF Crash, Torn
    <3>3. UNCHANGED depManifest \/ TornManifest
      BY <2>11 DEF Crash, Torn
    <3>4. TornManifest => pmProc.pc \in {"toml", "rmtoml"}
      BY DEF TornManifest, NewManifests, TouchingOne
    <3>5. UNCHANGED depLock \/ pmProc.pc \in {"lock", "rmlock"}
      BY <2>11 DEF Crash, Torn, TouchingOne
    <3>6. QED
      BY <2>2, <2>3, <3>1, <3>2, <3>3, <3>4, <3>5
  <2>12. CASE UNCHANGED pmVars
    BY <2>1, <2>2, <2>3, <2>12 DEF pmVars
  <2>13. ~(PublishSign \/ PublishIndex \/ EditManifest)
    BY DEF TouchingOne, PublishSign, PublishIndex, EditManifest, Running
  <2>14. pmProc.pc \notin {"idle", "pick"}
    BY DEF TouchingOne
  <2>15. QED
    BY <1>1, <2>5, <2>6, <2>7, <2>8, <2>9, <2>10, <2>11, <2>12, <2>13, <2>14, CommandSteps
<1>2. QED
  BY <1>1, NamesInvariant, PTL DEF pmSpec, OthersUntouched

(* ---------------------------- digests and files ------------------------- *)

\* What the lock records describes the files on disk.
LEMMA DigestOfDisk ==
  ASSUME NEW pkg, NEW dir
  PROVE  LET d == InstallDigest(pkg, dir) IN DigestLike(d, collect_files(dir)) = d
<1> DEFINE files == collect_files(dir)
           d == InstallDigest(pkg, dir)
<1>1. d = DigestLike(pkg.digest, files)
  BY DEF InstallDigest
<1>2. compute_merkle_root(files).scheme = "merkle" /\ compute_digest(files).scheme = "sha256"
  BY DEF compute_merkle_root, compute_digest
<1>3. d = compute_merkle_root(files) \/ d = compute_digest(files)
  BY <1>1 DEF DigestLike
<1>4. QED
  BY <1>2, <1>3 DEF DigestLike

\* A checkout that rewrites line ends changes no digest.
LEMMA CheckoutKeepsDigests ==
  ASSUME PackagesAssumption, NEW dir, NEW d
  PROVE  LET crlf == [f \in DOMAIN dir |->
                        IF \E c \in CrlfTexts : Unix(c) = dir[f] THEN Crlf(dir[f]) ELSE dir[f]]
         IN  DigestLike(d, collect_files(crlf)) = DigestLike(d, collect_files(dir))
<1> DEFINE crlf == [f \in DOMAIN dir |->
                      IF \E c \in CrlfTexts : Unix(c) = dir[f] THEN Crlf(dir[f]) ELSE dir[f]]
<1>1. ASSUME NEW f \in DOMAIN dir PROVE Unix(crlf[f]) = Unix(dir[f])
  <2>1. CASE \E c \in CrlfTexts : Unix(c) = dir[f]
    <3>1. crlf[f] = Crlf(dir[f])
      BY <2>1
    <3>2. Unix(Crlf(dir[f])) = dir[f]
      BY <2>1 DEF Crlf
    <3>3. Unix(dir[f]) = dir[f]
      BY <2>1 DEF PackagesAssumption
    <3>4. QED
      BY <3>1, <3>2, <3>3
  <2>2. CASE ~\E c \in CrlfTexts : Unix(c) = dir[f]
    BY <2>2
  <2>3. QED
    BY <2>1, <2>2
<1>2. DOMAIN crlf = DOMAIN dir
  OBVIOUS
<1> HIDE DEF crlf
<1>3. Normalized(collect_files(crlf)) = Normalized(collect_files(dir))
  BY <1>1, <1>2 DEF Normalized, collect_files, Restrict
<1>4. QED
  BY <1>3 DEF DigestLike, compute_merkle_root, compute_digest, crlf

(* ---------------------------- lock and disk ----------------------------- *)

\* A step that changes neither the lock nor the disk.
LEMMA QuietStep ==
  ASSUME OnDiskInv, UNCHANGED <<LockedPkgs, pkgDirs, Excepted>>,
         \/ pmProc'.pc = "idle" \/ pmProc'.cmd # "update" \/ pmProc'.mem = LockedPkgs
         \/ pmProc.pc # "idle" /\ pmProc.cmd = "update" /\ pmProc'.mem = pmProc.mem
  PROVE  OnDiskInv'
BY DEF OnDiskInv, Agree

\* A step between two commands.
LEMMA RestingOnDisk ==
  ASSUME pmProc'.pc = "idle" \/ pmProc'.cmd # "update",
         Agree(LockedPkgs', pkgDirs', Excepted')
  PROVE  OnDiskInv'
BY DEF OnDiskInv

\* Nothing is in flight outside the last two steps of an installation.
LEMMA Grounded ==
  ASSUME UNCHANGED <<pmTaint, pmUpdated>>,
         pmProc.pc \notin {"toml", "lock"}, pmProc'.pc \notin {"toml", "lock"}
  PROVE  UNCHANGED Excepted
BY DEF Excepted, InFlight

\* Disk and lock: a command that starts.
LEMMA BeginOnDisk ==
  ASSUME NamesInv, OnDiskInv, PackagesAssumption, Begin,
         \/ \E n \in pmNames : AddRegistry(n) \/ RemoveDir(n) \/ ForgenRemove(n) \/ Checkout(n)
         \/ \E sha \in ShaChoices : AddTarball(sha)
         \/ \E m \in SparksManifests : AddSparks(m)
         \/ AddGit \/ AddBridge \/ RemoveBridge \/ Install \/ ForgenInstall \/ Update
         \/ \E r \in Releases, s \in BOOLEAN : PublishBundle(r, s)
         \/ Trust \/ Clone
  PROVE  OnDiskInv'
<1>1. pmProc.pc = "idle" /\ DOMAIN pmProc = ProcFields
  BY DEF Begin, NamesInv, ProcInv
<1>2. UNCHANGED <<pmUpdated, LockedPkgs>>
  BY DEF AddRegistry, RemoveDir, ForgenRemove, Checkout, AddTarball, AddSparks, AddGit, AddBridge,
         RemoveBridge, Install, ForgenInstall, Update, PublishBundle, Trust, Clone,
         Store, Project, History, LockedPkgs
<1>3. CASE \E n \in pmNames : AddRegistry(n)
  <2>1. PICK n : pmProc' = Installing(lookup[n], "hypergrid", "add", FALSE)
    BY <1>3 DEF AddRegistry
  <2>2. pmProc'.pc = "cas" /\ pmProc'.cmd = "add"
    BY <2>1, IdleFields DEF Installing, ProcFields
  <2>3. UNCHANGED <<pkgDirs, pmTaint>>
    BY <1>3 DEF AddRegistry, Project, History
  <2>4. QED
    BY <1>1, <1>2, <2>2, <2>3, Grounded, QuietStep
<1>4. CASE \E n \in pmNames : RemoveDir(n) \/ ForgenRemove(n)
  <2>1. PICK n : \/ pkgDirs' = Without(pkgDirs, n) /\ UNCHANGED pmTaint
                 \/ SomeFilesLeft(n)
    BY <1>4 DEF RemoveDir, ForgenRemove
  <2>2. pmProc'.cmd # "update" /\ pmProc'.pc \notin {"toml", "lock"}
    BY <1>4, EditorFields
  <2>3. CASE pkgDirs' = Without(pkgDirs, n) /\ UNCHANGED pmTaint
    <3>1. UNCHANGED Excepted
      BY <1>1, <1>2, <2>2, <2>3, Grounded
    <3>2. QED
      BY <1>2, <2>2, <2>3, <3>1, RestingOnDisk DEF OnDiskInv, Agree, Without, Restrict
  <2>4. CASE SomeFilesLeft(n)
    <3>1. Excepted' = Excepted \cup {n}
      BY <1>1, <1>2, <2>2, <2>4 DEF SomeFilesLeft, Excepted, InFlight
    <3>2. DOMAIN pkgDirs' = DOMAIN pkgDirs /\ \A m \in DOMAIN pkgDirs \ {n} : pkgDirs'[m] = pkgDirs[m]
      BY <2>4 DEF SomeFilesLeft
    <3>3. QED
      BY <1>2, <2>2, <3>1, <3>2, RestingOnDisk DEF OnDiskInv, Agree
  <2>5. QED
    BY <2>1, <2>3, <2>4
<1>5. CASE \E n \in pmNames : Checkout(n)
  <2>1. PICK n \in DOMAIN pkgDirs : Checkout(n)
    BY <1>5 DEF Checkout
  <2> DEFINE crlf == [f \in DOMAIN pkgDirs[n] |->
                        IF \E c \in CrlfTexts : Unix(c) = pkgDirs[n][f]
                        THEN Crlf(pkgDirs[n][f]) ELSE pkgDirs[n][f]]
  <2>2. pkgDirs' = [pkgDirs EXCEPT ![n] = crlf] /\ UNCHANGED <<pmProc, pmTaint>>
    BY <2>1 DEF Checkout, History
  <2>3. \A d : DigestLike(d, collect_files(crlf)) = DigestLike(d, collect_files(pkgDirs[n]))
    BY CheckoutKeepsDigests
  <2> HIDE DEF crlf
  <2>4. DOMAIN pkgDirs' = DOMAIN pkgDirs /\ pkgDirs'[n] = crlf
        /\ \A m \in DOMAIN pkgDirs \ {n} : pkgDirs'[m] = pkgDirs[m]
    BY <2>2
  <2>5. UNCHANGED Excepted
    BY <1>1, <1>2, <2>2, Grounded
  <2>6. Agree(LockedPkgs', pkgDirs', Excepted')
    BY <1>2, <2>3, <2>4, <2>5 DEF OnDiskInv, Agree
  <2>7. QED
    BY <1>1, <2>2, <2>6, RestingOnDisk
<1>6. CASE \E sha \in ShaChoices : AddTarball(sha)
  <2>1. PICK sha, sum :
          FetchTarball(Archive.name, 1, sum, [Idle EXCEPT !.cmd = "add", !.src = "url", !.sha = sha])
    BY <1>6 DEF AddTarball
  <2> DEFINE proc == [Idle EXCEPT !.cmd = "add", !.src = "url", !.sha = sha]
  <2>2. DOMAIN proc = ProcFields /\ proc.cmd = "add"
    BY IdleFields DEF ProcFields
  <2>3. FetchTarball(Archive.name, 1, sum, proc)
    BY <2>1
  <2> HIDE DEF proc
  <2>4. pmProc' = Idle \/ (pmProc'.pc = "cas" /\ pmProc'.cmd = "add")
    <3>1. CASE pmProc' # Idle
      <4>1. /\ pmProc'.pc = "cas" /\ pmProc'.cmd = proc.cmd
            /\ \/ CasHit(Archive.name, 1) /\ pmProc'.pkg = casStore[<<Archive.name, 1>>].pkg
               \/ \E d \in Downloads : pmProc'.pkg = package_from_tar(d)
        BY <2>2, <2>3, <3>1, Fetched
      <4>2. QED
        BY <2>2, <4>1
    <3>2. QED
      BY <3>1
  <2>5. UNCHANGED <<pkgDirs, pmTaint>>
    BY <1>6 DEF AddTarball, Project, History
  <2>6. QED
    BY <1>1, <1>2, <2>4, <2>5, Grounded, QuietStep, IdleFields
<1>7. CASE \E m \in SparksManifests : AddSparks(m)
  <2>1. pmProc' = Idle \/ \E pkg : pmProc' = Installing(pkg, "url", "add", TRUE)
    BY <1>7 DEF AddSparks
  <2>2. pmProc' = Idle \/ (pmProc'.pc = "cas" /\ pmProc'.cmd = "add")
    <3>1. ASSUME NEW pkg, pmProc' = Installing(pkg, "url", "add", TRUE)
          PROVE  pmProc'.pc = "cas" /\ pmProc'.cmd = "add"
      BY <3>1, IdleFields DEF Installing, ProcFields
    <3>2. QED
      BY <2>1, <3>1
  <2>3. UNCHANGED <<pkgDirs, pmTaint>>
    BY <1>7 DEF AddSparks, Project, History
  <2>4. QED
    BY <1>1, <1>2, <2>2, <2>3, Grounded, QuietStep, IdleFields
<1>8. CASE AddGit
  <2>1. /\ UNCHANGED pmTaint
        /\ \/ UNCHANGED pkgDirs
           \/ pkgDirs' = PutEntry(pkgDirs, GitName, GitFiles)
    BY <1>8 DEF AddGit, History
  <2>2. GitName \notin DOMAIN LockedPkgs
    BY DEF NamesInv, NamedLock, PackagesAssumption, PkgNames
  <2>3. UNCHANGED Excepted
    BY <1>1, <1>2, <1>8, <2>1, EditorFields, Grounded
  <2>4. Agree(LockedPkgs', pkgDirs', Excepted')
    BY <1>2, <2>1, <2>2, <2>3 DEF OnDiskInv, Agree, PutEntry
  <2>5. QED
    BY <1>8, <2>4, EditorFields, RestingOnDisk
<1>9. CASE AddBridge \/ RemoveBridge \/ Trust
  <2>1. UNCHANGED <<pkgDirs, pmTaint>>
    BY <1>9 DEF AddBridge, RemoveBridge, Trust, Project, History
  <2>2. pmProc'.pc \notin {"toml", "lock"} /\ (pmProc'.pc = "idle" \/ pmProc'.cmd # "update")
    <3>1. Trust => UNCHANGED pmProc
      BY DEF Trust
    <3>2. QED
      BY <1>1, <1>9, <3>1, EditorFields
  <2>3. QED
    BY <1>1, <1>2, <2>1, <2>2, Grounded, QuietStep
<1>10. CASE Install \/ ForgenInstall \/ Update
  <2>1. UNCHANGED <<pkgDirs, pmTaint>>
    BY <1>10 DEF Install, ForgenInstall, Update, Project, History
  <2>2. pmProc'.pc \in {"pick", "idle"} /\ (pmProc'.cmd # "update" \/ pmProc'.mem = LockedPkgs)
    BY <1>10, IdleFields DEF Install, ForgenInstall, Update, Sync, ProcFields
  <2>3. QED
    BY <1>1, <1>2, <2>1, <2>2, Grounded, QuietStep
<1>11. CASE \E r \in Releases, s \in BOOLEAN : PublishBundle(r, s)
  <2>1. \E s, pkg :
          pmProc' = [Idle EXCEPT !.pc = IF s THEN "sign" ELSE "index", !.cmd = "publish", !.pkg = pkg]
    BY <1>11 DEF PublishBundle
  <2>2. pmProc'.pc \in {"sign", "index"} /\ pmProc'.cmd = "publish"
    BY <2>1, IdleFields DEF ProcFields
  <2>3. UNCHANGED <<pkgDirs, pmTaint>>
    BY <1>11 DEF PublishBundle, Project, History
  <2>4. QED
    BY <1>1, <1>2, <2>2, <2>3, Grounded, QuietStep
<1>12. CASE Clone
  <2>1. pmProc' = pmProc /\ DOMAIN pkgDirs' = {}
    BY <1>12 DEF Clone
  <2>2. Agree(LockedPkgs', pkgDirs', Excepted')
    BY <2>1 DEF Agree
  <2>3. QED
    BY <1>1, <2>1, <2>2, RestingOnDisk
<1>13. QED
  BY <1>3, <1>4, <1>5, <1>6, <1>7, <1>8, <1>9, <1>10, <1>11, <1>12

\* Disk and lock: a name taken from the loop.
LEMMA PickOnDisk ==
  ASSUME NamesInv, OnDiskInv, NEW n, Pick(n)
  PROVE  OnDiskInv'
<1>1. /\ pmProc.pc = "pick" /\ DOMAIN pmProc = ProcFields
      /\ UNCHANGED <<pmTaint, pmUpdated, LockedPkgs, pkgDirs>>
  BY DEF Pick, Running, NamesInv, ProcInv, Store, Project, History, LockedPkgs
<1> DEFINE rest == [pmProc EXCEPT !.todo = @ \ {n}]
<1>2. DOMAIN rest = ProcFields /\ rest.cmd = pmProc.cmd /\ rest.mem = pmProc.mem
  BY <1>1 DEF ProcFields
<1>3. pmProc' # Idle => pmProc'.pc = "cas" /\ pmProc'.cmd = pmProc.cmd /\ pmProc'.mem = pmProc.mem
  <2> SUFFICES ASSUME pmProc' # Idle
               PROVE  pmProc'.pc = "cas" /\ pmProc'.cmd = pmProc.cmd /\ pmProc'.mem = pmProc.mem
    OBVIOUS
  <2>1. CASE n \in DOMAIN lookup
    <3>1. \E src : pmProc' = [rest EXCEPT !.pc = "cas", !.pkg = lookup[n], !.src = src]
      BY <2>1 DEF Pick
    <3> HIDE DEF rest
    <3>2. QED
      BY <3>1, <1>2 DEF ProcFields
  <2>2. CASE n \notin DOMAIN lookup
    <3> DEFINE proc == [rest EXCEPT !.src = "url"]
               v == pmProc.mem[n].version
    <3>1. FetchTarball(n, v, pmProc.mem[n].digest, proc)
      BY <2>2 DEF Pick
    <3> HIDE DEF rest
    <3>2. DOMAIN proc = ProcFields /\ proc.cmd = pmProc.cmd /\ proc.mem = pmProc.mem
      BY <1>2 DEF ProcFields
    <3> HIDE DEF proc, v
    <3>3. /\ pmProc'.pc = "cas" /\ pmProc'.cmd = proc.cmd /\ pmProc'.mem = proc.mem
          /\ \/ CasHit(n, v) /\ pmProc'.pkg = casStore[<<n, v>>].pkg
             \/ \E d \in Downloads : pmProc'.pkg = package_from_tar(d)
      BY <3>1, <3>2, Fetched
    <3>4. QED
      BY <3>2, <3>3
  <2>3. QED
    BY <2>1, <2>2
<1>4. UNCHANGED Excepted
  BY <1>1, <1>3, Grounded, IdleFields
<1>5. QED
  BY <1>1, <1>3, <1>4, QuietStep, IdleFields

\* Disk and lock: the steps of a command that runs.
LEMMA RunOnDisk ==
  ASSUME NamesInv, OnDiskInv,
         \/ RemoveKey \/ RemoveLock \/ EditManifest \/ LoopEnd
         \/ InstallCas \/ InstallLink \/ InstallToml \/ InstallLock
         \/ PublishSign \/ PublishIndex \/ Crash
  PROVE  OnDiskInv'
<1>1. DOMAIN pmProc = ProcFields
  BY DEF NamesInv, ProcInv
<1>2. CASE RemoveKey \/ EditManifest \/ InstallCas \/ InstallToml \/ PublishSign \/ PublishIndex
  <2>1. UNCHANGED <<LockedPkgs, pkgDirs, pmTaint, pmUpdated>>
    BY <1>2 DEF RemoveKey, EditManifest, InstallCas, InstallToml, PublishSign, PublishIndex,
                Store, Project, History, LockedPkgs
  <2>2. \/ pmProc.pc = "rmtoml" /\ pmProc' = [pmProc EXCEPT !.pc = "rmlock"]
        \/ pmProc.pc = "cas" /\ pmProc' = [pmProc EXCEPT !.pc = "link"]
        \/ pmProc.pc = "toml" /\ pmProc' = [pmProc EXCEPT !.pc = "lock"]
        \/ pmProc.pc = "sign" /\ pmProc' = [pmProc EXCEPT !.pc = "index"]
        \/ pmProc.pc \notin {"toml", "lock"} /\ pmProc' = Idle
    BY <1>2 DEF RemoveKey, EditManifest, InstallCas, InstallToml, PublishSign, PublishIndex, Running
  <2>3. pmProc' # Idle => pmProc'.cmd = pmProc.cmd /\ pmProc'.mem = pmProc.mem /\ pmProc'.pkg = pmProc.pkg
    BY <1>1, <2>2 DEF ProcFields
  <2>4. \/ pmProc.pc \notin {"toml", "lock"} /\ pmProc'.pc \notin {"toml", "lock"}
        \/ pmProc.pc = "toml" /\ pmProc'.pc = "lock" /\ pmProc' # Idle
    BY <1>1, <2>2, IdleFields DEF ProcFields
  <2>5. UNCHANGED Excepted
    BY <2>1, <2>3, <2>4 DEF Excepted, InFlight
  <2>6. QED
    BY <2>1, <2>2, <2>3, <2>5, QuietStep, IdleFields
<1>3. CASE InstallLink
  <2>1. /\ UNCHANGED <<LockedPkgs, pmTaint, pmUpdated>>
        /\ pmProc.pc = "link" /\ pmProc' = [pmProc EXCEPT !.pc = "toml"]
    BY <1>3 DEF InstallLink, Running, History, LockedPkgs
  <2>2. PICK files : pkgDirs' = PutEntry(pkgDirs, pmProc.pkg.name, files)
    BY <1>3 DEF InstallLink
  <2>3. /\ pmProc'.pc = "toml" /\ pmProc'.cmd = pmProc.cmd
        /\ pmProc'.mem = pmProc.mem /\ pmProc'.pkg = pmProc.pkg
    BY <1>1, <2>1 DEF ProcFields
  <2>4. Excepted \subseteq Excepted' /\ pmProc.pkg.name \in Excepted'
    BY <2>1, <2>3 DEF Excepted, InFlight
  <2>5. ASSUME NEW t, Agree(t, pkgDirs, Excepted) PROVE Agree(t, pkgDirs', Excepted')
    BY <2>2, <2>4, <2>5 DEF Agree, PutEntry
  <2>6. QED
    BY <2>1, <2>3, <2>5 DEF OnDiskInv
<1>4. CASE InstallLock
  <2> DEFINE p == pmProc.pkg
             entry == LockEntry(p, InstallDigest(p, DirOf(p.name)), pmProc.src)
  <2>1. /\ pmProc.pc = "lock" /\ LockedPkgs' = PutEntry(LockedPkgs, p.name, entry)
        /\ UNCHANGED pkgDirs /\ pmTaint' = pmTaint \ {p.name}
    BY <1>4 DEF InstallLock, NewLock, Running, SaveLock, LockedPkgs
  <2>2. entry.digest = InstallDigest(p, DirOf(p.name))
    BY DEF LockEntry
  <2>3. p.name \in DOMAIN pkgDirs =>
          DigestLike(entry.digest, collect_files(pkgDirs[p.name])) = entry.digest
    BY <2>2, DigestOfDisk DEF DirOf
  <2> HIDE DEF entry
  <2>4. Excepted \ {p.name} \subseteq Excepted'
    BY <2>1, <1>4 DEF InstallLock, Excepted, InFlight
  <2>5. Agree(LockedPkgs', pkgDirs', Excepted')
    BY <2>1, <2>3, <2>4 DEF OnDiskInv, Agree, PutEntry
  <2>6. CASE pmProc.cmd = "update"
    <3> DEFINE memo == LockEntry(p, p.digest, "hypergrid")
    <3>1. /\ pmProc' = [pmProc EXCEPT !.pc = "pick", !.mem = PutEntry(@, p.name, memo)]
          /\ pmUpdated' = pmUpdated \cup {p.name}
      BY <1>4, <2>6 DEF InstallLock
    <3> HIDE DEF memo
    <3>2. pmProc'.mem = PutEntry(pmProc.mem, p.name, memo) /\ p.name \in Excepted'
      BY <3>1, <1>1 DEF ProcFields, Excepted
    <3>3. Agree(pmProc.mem, pkgDirs, Excepted)
      BY <2>1, <2>6 DEF OnDiskInv
    <3>4. Agree(pmProc'.mem, pkgDirs', Excepted')
      BY <2>1, <2>4, <3>2, <3>3 DEF Agree, PutEntry
    <3>5. QED
      BY <2>5, <3>4 DEF OnDiskInv
  <2>7. CASE pmProc.cmd # "update"
    <3>1. pmProc' = Idle \/ pmProc' = [pmProc EXCEPT !.pc = "pick"]
      BY <1>4, <2>7 DEF InstallLock
    <3>2. pmProc'.cmd # "update"
      BY <3>1, <2>7, <1>1, IdleFields DEF ProcFields
    <3>3. QED
      BY <2>5, <3>2, RestingOnDisk
  <2>8. QED
    BY <2>6, <2>7
<1>5. CASE RemoveLock \/ LoopEnd
  <2>1. /\ pmProc' = Idle /\ pmProc.pc \in {"rmlock", "pick"}
        /\ UNCHANGED <<pkgDirs, pmTaint, pmUpdated>>
    BY <1>5 DEF RemoveLock, LoopEnd, Running, History
  <2>2. UNCHANGED Excepted
    BY <2>1, Grounded, IdleFields
  <2>3. \/ LockedPkgs' = Without(LockedPkgs, pmProc.pkg.name)
        \/ UNCHANGED LockedPkgs
        \/ LockedPkgs' = pmProc.mem /\ pmProc.cmd = "update"
    BY <1>5 DEF RemoveLock, LoopEnd, SaveLock, LockedPkgs
  <2>4. Agree(LockedPkgs', pkgDirs', Excepted')
    BY <2>1, <2>2, <2>3 DEF OnDiskInv, Agree, Without, Restrict
  <2>5. QED
    BY <2>1, <2>4, RestingOnDisk, IdleFields
<1>6. CASE Crash
  <2>1. pmProc' = Killed /\ UNCHANGED pmUpdated
    BY <1>6 DEF Crash
  <2>2. /\ Excepted \subseteq Excepted'
        /\ pmProc.pc \in {"link", "lock"} => pmProc.pkg.name \in Excepted'
    BY <1>6, <2>1 DEF Crash, Excepted, InFlight
  <2>3. \/ UNCHANGED pkgDirs
        \/ /\ pmProc.pc = "link"
           /\ \E files : pkgDirs' = PutEntry(pkgDirs, pmProc.pkg.name, files)
    BY <1>6 DEF Crash, Torn
  <2>4. ASSUME NEW t, Agree(t, pkgDirs, Excepted) PROVE Agree(t, pkgDirs', Excepted')
    BY <2>2, <2>3, <2>4 DEF Agree, PutEntry
  <2>5. ASSUME NEW t, NEW kept \in SUBSET DOMAIN t, Agree(t, pkgDirs', Excepted')
        PROVE  Agree(Restrict(t, kept), pkgDirs', Excepted')
    BY <2>5 DEF Agree, Restrict
  <2>6. Agree(LockedPkgs, pkgDirs', Excepted')
    BY <2>4 DEF OnDiskInv
  <2>7. Agree(Without(LockedPkgs, pmProc.pkg.name), pkgDirs', Excepted')
    BY <2>6 DEF Agree, Without, Restrict
  <2>8. pmProc.pc = "lock" => Agree(NewLock, pkgDirs', Excepted')
    BY <2>2, <2>6 DEF NewLock, Agree, PutEntry
  <2>9. pmProc.pc # "idle" /\ pmProc.cmd = "update" => Agree(pmProc.mem, pkgDirs', Excepted')
    BY <2>4 DEF OnDiskInv
  <2>10. Agree(LockedPkgs', pkgDirs', Excepted')
    BY <1>6, <2>5, <2>6, <2>7, <2>8, <2>9, TornLocks DEF Agree
  <2>11. QED
    BY <2>1, <2>10, RestingOnDisk, IdleFields
<1>7. QED
  BY <1>2, <1>3, <1>4, <1>5, <1>6

\* The lock and the disk agree throughout, but for the package in flight.
THEOREM OnDiskInvariant == pmSpec => []OnDiskInv
<1>1. pmInit => OnDiskInv
  BY IdleFields DEF pmInit, OnDiskInv, Agree, LockedPkgs, EmptyLock
<1>2. NamesInv /\ OnDiskInv /\ [pmNext]_pmVars => OnDiskInv'
  <2>1. CASE UNCHANGED pmVars
    BY <2>1 DEF pmVars, OnDiskInv, Excepted, InFlight, LockedPkgs
  <2>2. ASSUME NamesInv, OnDiskInv, pmNext PROVE OnDiskInv'
    BY <2>2, BeginOnDisk, PickOnDisk, RunOnDisk, PackagesAssumption
       DEF pmNext, AddRegistry, RemoveDir, ForgenRemove, Checkout, AddTarball, AddSparks, AddGit,
           AddBridge, RemoveBridge, Install, ForgenInstall, Update, PublishBundle, Trust, Clone
  <2>3. QED
    BY <2>1, <2>2
<1>3. QED
  BY <1>1, <1>2, NamesInvariant, PTL DEF pmSpec

\* Whatever commands ran and whatever crashes cut short, what the lock names and
\* the project links hashes to the digest in the lock: `dpm verify` raises no false
\* alarm outside the two exceptions the property names.
THEOREM LockIsOnDisk == pmSpec => []LockedIsOnDisk
<1>1. OnDiskInv => LockedIsOnDisk
  BY DEF OnDiskInv, Agree, Excepted, InFlight, LockedIsOnDisk
<1>2. QED
  BY <1>1, OnDiskInvariant, PTL

(* ------------------------------ whole packages -------------------------- *)

\* A digest of whole files is a whole digest, and files under a whole digest are whole.
LEMMA WholeBothWays ==
  ASSUME NEW n, NEW files
  PROVE  /\ WholeFiles(n, files) => /\ WholeDigest(n, compute_digest(files))
                                   /\ WholeDigest(n, compute_merkle_root(files))
         /\ WholeDigest(n, compute_digest(files)) => WholeFiles(n, files)
         /\ WholeDigest(n, compute_merkle_root(files)) => WholeFiles(n, files)
BY DEF WholeFiles, WholeDigest, compute_digest, compute_merkle_root, Normalized

\* Only source files count.
LEMMA WholeSources ==
  ASSUME NEW n, NEW files
  PROVE  WholeFiles(n, collect_files(files)) <=> WholeFiles(n, files)
BY DEF WholeFiles, collect_files, Restrict

\* A release is whole.
LEMMA KnownWhole ==
  ASSUME NEW n, NEW files \in KnownFiles(n)
  PROVE  WholeFiles(n, files)
BY DEF WholeFiles

\* Linking whole files into a directory makes it whole.
LEMMA LinkedWhole ==
  ASSUME NEW n, NEW files, WholeFiles(n, files)
  PROVE  WholeFiles(n, Linked(n, files))
BY DEF WholeFiles, Linked

\* The digest that the lock records of a whole directory is whole.
LEMMA InstallDigestWhole ==
  ASSUME NEW n, NEW pkg, NEW dir, WholeFiles(n, dir)
  PROVE  WholeDigest(n, InstallDigest(pkg, dir))
<1> DEFINE files == collect_files(dir)
<1>1. InstallDigest(pkg, dir) \in {compute_merkle_root(files), compute_digest(files)}
  BY DEF InstallDigest, DigestLike
<1>2. WholeFiles(n, files)
  BY WholeSources
<1> HIDE DEF files
<1>3. QED
  BY <1>1, <1>2, WholeBothWays

\* What the registry offers is whole.
LEMMA LookupWhole ==
  ASSUME NamesInv, WholeInv, NEW n \in DOMAIN lookup
  PROVE  WholePkg(lookup[n])
<1>1. CASE n \in Indexed
  <2>1. <<n, pmIndex[n]>> \in DOMAIN pmBundles /\ pmBundles[<<n, pmIndex[n]>>].st = "ok"
    BY <1>1 DEF Indexed
  <2>2. lookup[n] = pmBundles[<<n, pmIndex[n]>>].pkg
    BY <1>1 DEF lookup
  <2>3. QED
    BY <2>1, <2>2 DEF WholeInv
<1>2. CASE n \notin Indexed
  <2> DEFINE p == CHOOSE q \in Curated : q.name = n
  <2>1. p \in Curated /\ p.name = n
    BY <1>2 DEF lookup
  <2>2. lookup[n].name = n /\ lookup[n].files = p.files /\ lookup[n].digest = compute_digest(p.files)
    BY <1>2 DEF lookup
  <2>3. p.files \in KnownFiles(n)
    BY <2>1 DEF KnownFiles
  <2> HIDE DEF p
  <2>4. QED
    BY <2>2, <2>3, KnownWhole, WholeBothWays DEF WholePkg
<1>3. QED
  BY <1>1, <1>2

\* A download that the checksum of the archive, or a digest of a whole package,
\* admits is whole: half an archive has neither.
LEMMA DownloadWhole ==
  ASSUME PackagesAssumption, DigestMeansFiles, NEW d \in Downloads, NEW sum, ChecksumOk(d, sum),
         sum = TarSha(Archive.entries) \/ WholeDigest(Archive.name, sum)
  PROVE  WholeFiles(Archive.name, package_from_tar(d).files)
<1> DEFINE files == package_from_tar(d).files
           described(entries) == \E e \in Range(entries) : e.file = Metadata
<1>1. /\ DOMAIN TarSha(d) = {"scheme", "of"} /\ TarSha(d).scheme = "tar" /\ TarSha(d).of = d
      /\ DOMAIN TarSha(Archive.entries) = {"scheme", "of"}
      /\ TarSha(Archive.entries).scheme = "tar" /\ TarSha(Archive.entries).of = Archive.entries
  BY DEF TarSha
<1>2. sum # <<>>
  BY <1>1 DEF WholeDigest
<1>3. CASE sum = TarSha(d)
  <2>1. sum = TarSha(Archive.entries)
    BY <1>1, <1>3 DEF WholeDigest
  <2>2. d = Archive.entries
    BY <1>1, <1>3, <2>1
  <2>3. files \in KnownFiles(Archive.name)
    BY <2>2 DEF KnownFiles
  <2>4. QED
    BY <2>3, KnownWhole
<1>4. CASE described(d) /\ Archive.meta.files # <<>>
  <2>1. described(Archive.entries)
    <3>1. PICK k \in 1..Len(Archive.entries) : d = SubSeq(Archive.entries, 1, k)
      BY DEF Downloads
    <3>2. Archive.entries \in Seq(Range(Archive.entries))
      BY DEF PackagesAssumption
    <3>3. \A i \in DOMAIN d : i \in DOMAIN Archive.entries /\ d[i] = Archive.entries[i]
      BY <3>1, <3>2
    <3>4. QED
      BY <1>4, <3>3 DEF Range
  <2>2. files = Archive.meta.files /\ package_from_tar(Archive.entries).files = Archive.meta.files
    BY <1>4, <2>1 DEF package_from_tar
  <2>3. files \in KnownFiles(Archive.name)
    BY <2>2 DEF KnownFiles
  <2>4. QED
    BY <2>3, KnownWhole
<1>5. CASE sum = package_from_tar(d).digest /\ ~(described(d) /\ Archive.meta.files # <<>>)
  <2>1. ~(described(d) /\ Archive.meta.digest # <<>>)
    BY <1>5 DEF DigestMeansFiles
  <2>2. sum = compute_digest(files)
    BY <1>5, <2>1 DEF package_from_tar
  <2>3. compute_digest(files).scheme = "sha256"
    BY DEF compute_digest
  <2>4. WholeDigest(Archive.name, compute_digest(files))
    BY <1>1, <2>2, <2>3
  <2>5. QED
    BY <2>4, WholeBothWays
<1>6. QED
  BY <1>2, <1>3, <1>4, <1>5 DEF ChecksumOk

\* Whatever was fetched under the archive's checksum, or a whole digest, is whole.
LEMMA FetchedWhole ==
  ASSUME PackagesAssumption, DigestMeansFiles, NamesInv, WholeInv, NEW v, NEW pkg, NEW sum,
         sum = TarSha(Archive.entries) \/ WholeDigest(Archive.name, sum),
         \/ CasHit(Archive.name, v) /\ pkg = casStore[<<Archive.name, v>>].pkg
         \/ \E d \in Downloads : ChecksumOk(d, sum) /\ pkg = package_from_tar(d)
  PROVE  WholeFiles(pkg.name, pkg.files)
<1>1. CASE CasHit(Archive.name, v) /\ pkg = casStore[<<Archive.name, v>>].pkg
  BY <1>1 DEF CasHit, WholeInv
<1>2. CASE \E d \in Downloads : ChecksumOk(d, sum) /\ pkg = package_from_tar(d)
  <2>1. PICK d \in Downloads : ChecksumOk(d, sum) /\ pkg = package_from_tar(d)
    BY <1>2
  <2>2. pkg.name = Archive.name
    BY <2>1 DEF package_from_tar
  <2>3. QED
    BY <2>1, <2>2, DownloadWhole
<1>3. QED
  BY <1>1, <1>2

\* A step that leaves the lock, the store and the bundles, and a command that holds
\* nothing, or a whole package, in its hands.
LEMMA HandsWhole ==
  ASSUME WholeInv, UNCHANGED <<LockedPkgs, casStore, pmBundles>>,
         \/ DOMAIN pmProc'.mem = {} \/ pmProc'.mem = LockedPkgs \/ pmProc'.mem = pmProc.mem,
         pmProc'.pc \notin {"toml", "lock"},
         pmProc'.pc \in InstallPcs => WholeFiles(pmProc'.pkg.name, pmProc'.pkg.files),
         pmProc'.pc \in InstallPcs /\ pmProc'.cmd = "update" => WholePkg(pmProc'.pkg)
  PROVE  WholeInv'
<1>1. WholeLock(LockedPkgs)' /\ WholeLock(pmProc.mem)'
  BY DEF WholeInv, WholeLock, WholeDigest, KnownFiles
<1>2. /\ \A k \in DOMAIN casStore : casStore[k].st = "ok" =>
           WholeFiles(casStore[k].pkg.name, casStore[k].pkg.files)
      /\ \A k \in DOMAIN pmBundles : pmBundles[k].st = "ok" => WholePkg(pmBundles[k].pkg)
  BY DEF WholeInv
<1>3. QED
  BY <1>1, <1>2 DEF WholeInv

\* Whole packages: a command that starts.
LEMMA BeginWhole ==
  ASSUME PackagesAssumption, DigestMeansFiles, NamesInv, WholeInv, ShaChoices = {TRUE}, Begin,
         \/ \E n \in pmNames : AddRegistry(n) \/ RemoveDir(n) \/ ForgenRemove(n) \/ Checkout(n)
         \/ \E sha \in ShaChoices : AddTarball(sha)
         \/ \E m \in SparksManifests : AddSparks(m)
         \/ AddGit \/ AddBridge \/ RemoveBridge \/ Install \/ ForgenInstall \/ Update
         \/ \E r \in Releases, s \in BOOLEAN : PublishBundle(r, s)
         \/ Trust \/ Clone
  PROVE  WholeInv'
<1>1. pmProc.pc = "idle" /\ DOMAIN pmProc = ProcFields
  BY DEF Begin, NamesInv, ProcInv
<1>2. CASE \E n \in pmNames : AddRegistry(n)
  <2>1. PICK n \in DOMAIN lookup : pmProc' = Installing(lookup[n], "hypergrid", "add", FALSE)
    BY <1>2 DEF AddRegistry
  <2>2. /\ pmProc'.pc = "cas" /\ pmProc'.cmd = "add" /\ pmProc'.pkg = lookup[n]
        /\ DOMAIN pmProc'.mem = {}
    BY <2>1, IdleFields DEF Installing, ProcFields
  <2>3. WholePkg(lookup[n])
    BY LookupWhole
  <2>4. UNCHANGED <<LockedPkgs, casStore, pmBundles>>
    BY <1>2 DEF AddRegistry, Store, Project, LockedPkgs
  <2>5. QED
    BY <2>2, <2>3, <2>4, HandsWhole DEF WholePkg
<1>3. CASE AddGit \/ AddBridge \/ RemoveBridge \/ \E n \in pmNames : RemoveDir(n) \/ ForgenRemove(n)
  <2>1. UNCHANGED <<LockedPkgs, casStore, pmBundles>>
    BY <1>3 DEF AddGit, AddBridge, RemoveBridge, RemoveDir, ForgenRemove, Store, LockedPkgs
  <2>2. QED
    BY <1>3, <2>1, EditorFields, HandsWhole DEF InstallPcs
<1>4. CASE UNCHANGED <<pmProc, LockedPkgs, casStore, pmBundles>>
  BY <1>1, <1>4, HandsWhole DEF InstallPcs
<1>5. CASE \E sha \in ShaChoices : AddTarball(sha)
  <2> DEFINE proc == [Idle EXCEPT !.cmd = "add", !.src = "url", !.sha = TRUE]
             sum == TarSha(Archive.entries)
  <2>1. FetchTarball(Archive.name, 1, sum, proc)
    BY <1>5 DEF AddTarball
  <2>2. DOMAIN proc = ProcFields /\ proc.cmd = "add" /\ DOMAIN proc.mem = {}
    BY IdleFields DEF ProcFields
  <2>3. UNCHANGED <<LockedPkgs, casStore, pmBundles>>
    BY <1>5 DEF AddTarball, Store, Project, LockedPkgs
  <2> HIDE DEF proc
  <2>4. CASE pmProc' = Idle
    BY <2>3, <2>4, HandsWhole, IdleFields DEF InstallPcs
  <2>5. CASE pmProc' # Idle
    <3>1. /\ pmProc'.pc = "cas" /\ pmProc'.cmd = proc.cmd /\ pmProc'.mem = proc.mem
          /\ \/ CasHit(Archive.name, 1) /\ pmProc'.pkg = casStore[<<Archive.name, 1>>].pkg
             \/ \E d \in Downloads : ChecksumOk(d, sum) /\ pmProc'.pkg = package_from_tar(d)
      BY <2>1, <2>2, <2>5, Fetched
    <3>2. WholeFiles(pmProc'.pkg.name, pmProc'.pkg.files)
      BY <3>1, FetchedWhole
    <3>3. QED
      BY <2>2, <2>3, <3>1, <3>2, HandsWhole
  <2>6. QED
    BY <2>4, <2>5
<1>6. CASE \E m \in SparksManifests : AddSparks(m)
  <2>1. UNCHANGED <<LockedPkgs, casStore, pmBundles>>
    BY <1>6 DEF AddSparks, Store, Project, LockedPkgs
  <2>2. CASE pmProc' = Idle
    BY <2>1, <2>2, HandsWhole, IdleFields DEF InstallPcs
  <2>3. CASE pmProc' # Idle
    <3>1. PICK d : /\ TarSha(d) = TarSha(Archive.entries)
                   /\ pmProc' = Installing([package_from_tar(d) EXCEPT !.digest = TarSha(d)],
                                          "url", "add", TRUE)
      BY <1>6, <2>3 DEF AddSparks, SparksAccepted
    <3> DEFINE pkg == [package_from_tar(d) EXCEPT !.digest = TarSha(d)]
    <3>2. pkg.name = Archive.name /\ pkg.files = package_from_tar(d).files
      BY DEF package_from_tar
    <3> HIDE DEF pkg
    <3>3. /\ pmProc'.pc = "cas" /\ pmProc'.cmd = "add" /\ pmProc'.pkg = pkg
          /\ DOMAIN pmProc'.mem = {}
      BY <3>1, IdleFields DEF Installing, ProcFields, pkg
    <3>4. d = Archive.entries
      BY <3>1 DEF TarSha
    <3>5. package_from_tar(d).files \in KnownFiles(Archive.name)
      BY <3>4 DEF KnownFiles
    <3>6. WholeFiles(pkg.name, pkg.files)
      BY <3>2, <3>5, KnownWhole
    <3>7. QED
      BY <2>1, <3>3, <3>6, HandsWhole
  <2>4. QED
    BY <2>2, <2>3
<1>7. CASE Install \/ ForgenInstall \/ Update
  <2>1. UNCHANGED <<LockedPkgs, casStore, pmBundles>>
    BY <1>7 DEF Install, ForgenInstall, Update, Store, Project, LockedPkgs
  <2>2. pmProc'.pc \in {"pick", "idle"} /\ pmProc'.mem \in {LockedPkgs, Idle.mem}
    BY <1>7, IdleFields DEF Install, ForgenInstall, Update, Sync, ProcFields
  <2>3. QED
    BY <2>1, <2>2, IdleFields, HandsWhole DEF InstallPcs
<1>8. CASE \E r \in Releases, s \in BOOLEAN : PublishBundle(r, s)
  <2>1. PICK r \in Releases, s \in BOOLEAN : PublishBundle(r, s)
    BY <1>8
  <2> DEFINE src == collect_files(r.files)
             pkg == [name |-> r.name, version |-> r.version, files |-> src,
                     digest |-> compute_merkle_root(src)]
  <2>2. /\ pmBundles' = PutEntry(pmBundles, <<r.name, r.version>>, [st |-> "ok", pkg |-> pkg])
        /\ pmProc' = [Idle EXCEPT !.pc = IF s THEN "sign" ELSE "index", !.cmd = "publish", !.pkg = pkg]
        /\ UNCHANGED <<LockedPkgs, casStore>>
    BY <2>1 DEF PublishBundle, Project, LockedPkgs
  <2>3. r.files \in KnownFiles(r.name)
    BY DEF KnownFiles
  <2>4. WholePkg(pkg)
    BY <2>3, KnownWhole, WholeSources, WholeBothWays DEF WholePkg
  <2> HIDE DEF pkg
  <2>5. pmProc'.pc \in {"sign", "index"} /\ DOMAIN pmProc'.mem = {}
    BY <2>2, IdleFields DEF ProcFields
  <2>6. \A k \in DOMAIN pmBundles' : pmBundles'[k].st = "ok" => WholePkg(pmBundles'[k].pkg)
    BY <2>2, <2>4 DEF WholeInv, PutEntry
  <2>7. QED
    BY <2>2, <2>5, <2>6 DEF WholeInv, WholeLock, InstallPcs
<1>9. CASE Clone
  <2>1. casStore' = <<>> /\ UNCHANGED <<pmProc, LockedPkgs, pmBundles>>
    BY <1>9 DEF Clone, LockedPkgs
  <2>2. QED
    BY <1>1, <2>1 DEF WholeInv, WholeLock, InstallPcs
<1>10. QED
  BY <1>2, <1>3, <1>4, <1>5, <1>6, <1>7, <1>8, <1>9
     DEF Checkout, Trust, Store, Project, History, LockedPkgs

\* Whole packages: a name taken from the loop.
LEMMA PickWhole ==
  ASSUME PackagesAssumption, DigestMeansFiles, NamesInv, WholeInv, NEW n, Pick(n)
  PROVE  WholeInv'
<1>1. pmProc.pc = "pick" /\ DOMAIN pmProc = ProcFields /\ n \in pmProc.todo
  BY DEF Pick, Running, NamesInv, ProcInv
<1>2. UNCHANGED <<LockedPkgs, casStore, pmBundles>>
  BY DEF Pick, Store, Project, LockedPkgs
<1> DEFINE rest == [pmProc EXCEPT !.todo = @ \ {n}]
<1>3. DOMAIN rest = ProcFields /\ rest.cmd = pmProc.cmd /\ rest.mem = pmProc.mem
  BY <1>1 DEF ProcFields
<1>4. CASE pmProc' = Idle
  BY <1>2, <1>4, HandsWhole, IdleFields DEF InstallPcs
<1>5. CASE n \in DOMAIN lookup /\ pmProc' # Idle
  <2>1. \E src : pmProc' = [rest EXCEPT !.pc = "cas", !.pkg = lookup[n], !.src = src]
    BY <1>5 DEF Pick
  <2> HIDE DEF rest
  <2>2. pmProc'.pc = "cas" /\ pmProc'.pkg = lookup[n] /\ pmProc'.mem = pmProc.mem
    BY <2>1, <1>3 DEF ProcFields
  <2>3. WholePkg(lookup[n])
    BY <1>5, LookupWhole
  <2>4. QED
    BY <1>2, <2>2, <2>3, HandsWhole DEF WholePkg
<1>6. CASE n \notin DOMAIN lookup /\ pmProc' # Idle
  <2> DEFINE proc == [rest EXCEPT !.src = "url"]
             v == pmProc.mem[n].version
             sum == pmProc.mem[n].digest
  <2>1. pmProc.mem[n].source = "url" /\ FetchTarball(n, v, sum, proc)
    BY <1>6 DEF Pick
  <2> HIDE DEF rest
  <2>2. DOMAIN proc = ProcFields /\ proc.cmd = pmProc.cmd /\ proc.mem = pmProc.mem
    BY <1>3 DEF ProcFields
  <2>3. pmProc.cmd = "restore" /\ n \in DOMAIN pmProc.mem
    BY <1>1, <1>6 DEF NamesInv, ProcInv
  <2>4. n = Archive.name /\ WholeDigest(n, sum)
    BY <2>1, <2>3 DEF NamesInv, NamedLock, WholeInv, WholeLock
  <2> HIDE DEF proc, v, sum
  <2>5. /\ pmProc'.pc = "cas" /\ pmProc'.cmd = proc.cmd /\ pmProc'.mem = proc.mem
        /\ \/ CasHit(n, v) /\ pmProc'.pkg = casStore[<<n, v>>].pkg
           \/ \E d \in Downloads : ChecksumOk(d, sum) /\ pmProc'.pkg = package_from_tar(d)
    BY <2>1, <2>2, <1>6, Fetched
  <2>6. WholeFiles(pmProc'.pkg.name, pmProc'.pkg.files)
    BY <2>4, <2>5, FetchedWhole
  <2>7. QED
    BY <1>2, <2>2, <2>3, <2>5, <2>6, HandsWhole
<1>7. QED
  BY <1>4, <1>5, <1>6

\* Whole packages: the steps of a command that runs.
LEMMA RunWhole ==
  ASSUME NamesInv, WholeInv,
         \/ RemoveKey \/ RemoveLock \/ EditManifest \/ LoopEnd
         \/ InstallCas \/ InstallLink \/ InstallToml \/ InstallLock
         \/ PublishSign \/ PublishIndex \/ Crash
  PROVE  WholeInv'
<1>1. DOMAIN pmProc = ProcFields
  BY DEF NamesInv, ProcInv
<1>2. CASE RemoveKey \/ EditManifest \/ PublishSign \/ PublishIndex
  <2>1. UNCHANGED <<LockedPkgs, casStore, pmBundles>>
    BY <1>2 DEF RemoveKey, EditManifest, PublishSign, PublishIndex, Store, Project, LockedPkgs
  <2>2. \/ pmProc' = [pmProc EXCEPT !.pc = "rmlock"]
        \/ pmProc' = [pmProc EXCEPT !.pc = "index"]
        \/ pmProc' = Idle
    BY <1>2 DEF RemoveKey, EditManifest, PublishSign, PublishIndex
  <2>3. pmProc'.pc \notin InstallPcs /\ (pmProc'.mem = pmProc.mem \/ DOMAIN pmProc'.mem = {})
    BY <1>1, <2>2, IdleFields DEF ProcFields, InstallPcs
  <2>4. QED
    BY <2>1, <2>3, HandsWhole DEF InstallPcs
<1>3. CASE InstallCas
  <2>1. /\ pmProc.pc = "cas" /\ pmProc' = [pmProc EXCEPT !.pc = "link"]
        /\ casStore' = PutEntry(casStore, <<pmProc.pkg.name, pmProc.pkg.version>>,
                               [st |-> "ok", pkg |-> pmProc.pkg])
        /\ UNCHANGED <<LockedPkgs, pmBundles>>
    BY <1>3 DEF InstallCas, Running, Project, LockedPkgs
  <2>2. /\ WholeFiles(pmProc.pkg.name, pmProc.pkg.files)
        /\ pmProc.cmd = "update" => WholePkg(pmProc.pkg)
    BY <2>1 DEF WholeInv, InstallPcs
  <2>3. /\ pmProc'.pc = "link" /\ pmProc'.cmd = pmProc.cmd /\ pmProc'.pkg = pmProc.pkg
        /\ pmProc'.mem = pmProc.mem
    BY <1>1, <2>1 DEF ProcFields
  <2>4. \A k \in DOMAIN casStore' : casStore'[k].st = "ok" =>
           WholeFiles(casStore'[k].pkg.name, casStore'[k].pkg.files)
    BY <2>1, <2>2 DEF WholeInv, PutEntry
  <2>5. QED
    BY <2>1, <2>2, <2>3, <2>4 DEF WholeInv, WholeLock
<1>4. CASE InstallLink
  <2> DEFINE n == pmProc.pkg.name
             files == Linked(n, pmProc.pkg.files)
  <2>1. /\ pmProc.pc = "link" /\ pmProc' = [pmProc EXCEPT !.pc = "toml"]
        /\ pkgDirs' = PutEntry(pkgDirs, n, files)
        /\ UNCHANGED <<LockedPkgs, pmBundles, casStore>>
    BY <1>4 DEF InstallLink, Running, Store, LockedPkgs
  <2>2. /\ WholeFiles(n, pmProc.pkg.files)
        /\ pmProc.cmd = "update" => WholePkg(pmProc.pkg)
    BY <2>1 DEF WholeInv, InstallPcs
  <2>3. WholeFiles(n, files)
    BY <2>2, LinkedWhole
  <2> HIDE DEF files
  <2>4. /\ pmProc'.pc = "toml" /\ pmProc'.cmd = pmProc.cmd /\ pmProc'.pkg = pmProc.pkg
        /\ pmProc'.mem = pmProc.mem
    BY <1>1, <2>1 DEF ProcFields
  <2>5. n \in DOMAIN pkgDirs' /\ pkgDirs'[n] = files
    BY <2>1 DEF PutEntry
  <2>6. QED
    BY <2>1, <2>2, <2>3, <2>4, <2>5 DEF WholeInv, WholeLock
<1>5. CASE InstallToml
  <2>1. /\ pmProc.pc = "toml" /\ pmProc' = [pmProc EXCEPT !.pc = "lock"]
        /\ UNCHANGED <<LockedPkgs, pmBundles, casStore, pkgDirs>>
    BY <1>5 DEF InstallToml, Running, Store, LockedPkgs
  <2>2. /\ pmProc'.pc = "lock" /\ pmProc'.cmd = pmProc.cmd /\ pmProc'.pkg = pmProc.pkg
        /\ pmProc'.mem = pmProc.mem
    BY <1>1, <2>1 DEF ProcFields
  <2>3. QED
    BY <2>1, <2>2 DEF WholeInv, WholeLock, InstallPcs
<1>6. CASE InstallLock
  <2> DEFINE p == pmProc.pkg
             digest == InstallDigest(p, DirOf(p.name))
  <2>1. /\ pmProc.pc = "lock" /\ UNCHANGED <<casStore, pmBundles>>
        /\ LockedPkgs' = PutEntry(LockedPkgs, p.name, LockEntry(p, digest, pmProc.src))
    BY <1>6 DEF InstallLock, NewLock, Running, SaveLock, Store, LockedPkgs
  <2>2. WholeFiles(p.name, DirOf(p.name)) /\ (pmProc.cmd = "update" => WholePkg(p))
    BY <2>1 DEF WholeInv, InstallPcs, DirOf
  <2>3. WholeDigest(p.name, digest)
    BY <2>2, InstallDigestWhole
  <2> HIDE DEF digest
  <2>4. WholeLock(LockedPkgs')
    BY <2>1, <2>3 DEF WholeInv, WholeLock, PutEntry, LockEntry
  <2>5. WholeLock(pmProc'.mem) /\ pmProc'.pc \notin InstallPcs
    <3>1. CASE pmProc.cmd = "update"
      <4> DEFINE memo == LockEntry(p, p.digest, "hypergrid")
      <4>1. pmProc' = [pmProc EXCEPT !.pc = "pick", !.mem = PutEntry(@, p.name, memo)]
        BY <1>6, <3>1 DEF InstallLock
      <4>2. WholeDigest(p.name, memo.digest)
        BY <2>2, <3>1 DEF WholePkg, LockEntry
      <4> HIDE DEF memo
      <4>3. pmProc'.pc = "pick" /\ pmProc'.mem = PutEntry(pmProc.mem, p.name, memo)
        BY <4>1, <1>1 DEF ProcFields
      <4>4. QED
        BY <4>2, <4>3 DEF WholeInv, WholeLock, PutEntry, InstallPcs
    <3>2. CASE pmProc.cmd # "update"
      <4>1. pmProc' = Idle \/ pmProc' = [pmProc EXCEPT !.pc = "pick"]
        BY <1>6, <3>2 DEF InstallLock
      <4>2. /\ pmProc'.pc \in {"idle", "pick"}
            /\ pmProc'.mem = pmProc.mem \/ DOMAIN pmProc'.mem = {}
        BY <4>1, <1>1, IdleFields DEF ProcFields
      <4>3. QED
        BY <4>2 DEF WholeInv, WholeLock, InstallPcs
    <3>3. QED
      BY <3>1, <3>2
  <2>6. QED
    BY <2>1, <2>4, <2>5 DEF WholeInv, InstallPcs
<1>7. CASE RemoveLock \/ LoopEnd
  <2>1. pmProc' = Idle /\ UNCHANGED <<casStore, pmBundles>>
    BY <1>7 DEF RemoveLock, LoopEnd, Store
  <2>2. LockedPkgs' \in {Without(LockedPkgs, pmProc.pkg.name), LockedPkgs, pmProc.mem}
    BY <1>7 DEF RemoveLock, LoopEnd, SaveLock, LockedPkgs
  <2>3. WholeLock(LockedPkgs')
    BY <2>2 DEF WholeInv, WholeLock, Without, Restrict
  <2>4. QED
    BY <2>1, <2>3, IdleFields DEF WholeInv, WholeLock, InstallPcs
<1>8. CASE Crash
  <2>1. pmProc' = Killed /\ UNCHANGED pmBundles
    BY <1>8 DEF Crash
  <2>2. ASSUME NEW t, NEW kept \in SUBSET DOMAIN t, WholeLock(t) PROVE WholeLock(Restrict(t, kept))
    BY <2>2 DEF WholeLock, Restrict
  <2>3. \/ UNCHANGED casStore
        \/ \E k : casStore' = PutEntry(casStore, k, [st |-> "torn", pkg |-> NoPkg])
    BY <1>8 DEF Crash, Torn
  <2>4. \A k \in DOMAIN casStore' : casStore'[k].st = "ok" =>
           WholeFiles(casStore'[k].pkg.name, casStore'[k].pkg.files)
    <3>1. ASSUME NEW k \in DOMAIN casStore', casStore'[k].st = "ok"
          PROVE  k \in DOMAIN casStore /\ casStore'[k] = casStore[k]
      <4> DEFINE torn == [st |-> "torn", pkg |-> NoPkg]
      <4>1. torn.st = "torn"
        OBVIOUS
      <4> HIDE DEF torn
      <4>2. UNCHANGED casStore \/ \E j : casStore' = PutEntry(casStore, j, torn)
        BY <2>3 DEF torn
      <4>3. QED
        BY <3>1, <4>1, <4>2 DEF PutEntry
    <3>2. QED
      BY <3>1 DEF WholeInv
  <2>5. WholeLock(LockedPkgs')
    <3>1. WholeLock(LockedPkgs) /\ WholeLock(pmProc.mem)
      BY DEF WholeInv
    <3>2. WholeLock(Without(LockedPkgs, pmProc.pkg.name))
      BY <3>1 DEF WholeLock, Without, Restrict
    <3>3. pmProc.pc = "lock" => WholeLock(NewLock)
      <4> SUFFICES ASSUME pmProc.pc = "lock" PROVE WholeLock(NewLock)
        OBVIOUS
      <4> DEFINE p == pmProc.pkg
                 digest == InstallDigest(p, DirOf(p.name))
      <4>1. WholeFiles(p.name, DirOf(p.name))
        BY DEF WholeInv, DirOf
      <4>2. WholeDigest(p.name, digest)
        BY <4>1, InstallDigestWhole
      <4>3. NewLock = PutEntry(LockedPkgs, p.name, LockEntry(p, digest, pmProc.src))
        BY DEF NewLock
      <4> HIDE DEF digest
      <4>4. QED
        BY <3>1, <4>2, <4>3 DEF WholeLock, PutEntry, LockEntry
    <3>4. QED
      BY <1>8, <2>2, <3>1, <3>2, <3>3, TornLocks DEF WholeLock
  <2>6. QED
    BY <2>1, <2>4, <2>5, IdleFields DEF WholeInv, WholeLock, InstallPcs
<1>9. QED
  BY <1>2, <1>3, <1>4, <1>5, <1>6, <1>7, <1>8

\* When every tarball is added with its checksum, and an archive that states its own
\* digest lists its files, only whole packages are stored, installed and locked.
THEOREM WholeInvariant ==
  ASSUME ShaChoices = {TRUE}, DigestMeansFiles
  PROVE  pmSpec => []WholeInv
<1>1. pmInit => WholeInv
  BY IdleFields DEF pmInit, WholeInv, WholeLock, LockedPkgs, EmptyLock, InstallPcs
<1>2. NamesInv /\ WholeInv /\ [pmNext]_pmVars => WholeInv'
  <2>1. CASE UNCHANGED pmVars
    BY <2>1 DEF pmVars, WholeInv, WholeLock, WholePkg, WholeFiles, WholeDigest, LockedPkgs
  <2>2. ASSUME NamesInv, WholeInv, pmNext PROVE WholeInv'
    BY <2>2, BeginWhole, PickWhole, RunWhole, PackagesAssumption
       DEF pmNext, AddRegistry, RemoveDir, ForgenRemove, Checkout, AddTarball, AddSparks, AddGit,
           AddBridge, RemoveBridge, Install, ForgenInstall, Update, PublishBundle, Trust, Clone
  <2>3. QED
    BY <2>1, <2>2
<1>3. QED
  BY <1>1, <1>2, NamesInvariant, PTL DEF pmSpec

\* What `dpm verify` calls Valid is a complete package of that name, whatever crashes
\* and partial downloads came before, when every tarball is added with its checksum
\* (without one, half an archive is installed and verifies) and an archive that states
\* its own digest lists its files (else that digest admits half of it).
THEOREM ValidIsComplete ==
  ASSUME ShaChoices = {TRUE}, DigestMeansFiles
  PROVE  pmSpec => []ValidMeansComplete
<1>1. WholeInv => ValidMeansComplete
  <2> SUFFICES ASSUME WholeInv, NEW n \in DOMAIN LockedPkgs, VerifyStatus(n) = "Valid"
               PROVE  WholeFiles(n, pkgDirs[n])
    BY DEF ValidMeansComplete, WholeFiles
  <2> DEFINE d == LockedPkgs[n].digest
             files == collect_files(pkgDirs[n])
  <2>1. DigestLike(d, files) = d
    BY DEF VerifyStatus
  <2>2. WholeDigest(n, d)
    BY DEF WholeInv, WholeLock
  <2> HIDE DEF d, files
  <2>3. d = compute_digest(files) \/ d = compute_merkle_root(files)
    BY <2>1 DEF DigestLike
  <2>4. WholeFiles(n, files)
    BY <2>2, <2>3, WholeBothWays
  <2>5. QED
    BY <2>4, WholeSources DEF files
<1>2. QED
  BY <1>1, WholeInvariant, PTL

(* ------------------------------ resolution ------------------------------ *)

\* A set of numbers up to a bound has a largest one.
LEMMA LargestExists ==
  ASSUME NEW n \in Nat, NEW found \in SUBSET (1..n), found # {}
  PROVE  \E i \in found : \A j \in found : j =< i
<1> DEFINE T == {n - i : i \in found}
           R == OpToRel(<, Nat)
<1>1. T \subseteq Nat /\ T # {}
  <2>1. \A i \in found : n - i \in Nat
    OBVIOUS
  <2>2. QED
    BY <2>1
<1>2. PICK x \in T : \A y \in T : <<y, x>> \notin R
  <2> HIDE DEF T, R
  <2>1. IsWellFoundedOn(R, Nat)
    BY NatLessThanWellFounded DEF R
  <2>2. QED
    BY <1>1, <2>1, WFMin
<1>3. PICK i \in found : x = n - i
  OBVIOUS
<1>4. ASSUME NEW j \in found PROVE j =< i
  <2>1. n - j \in T
    OBVIOUS
  <2>2. ~ (n - j < x)
    <3>1. n - j \in Nat /\ x \in Nat
      BY <1>1, <2>1
    <3>2. <<n - j, x>> \notin R
      BY <1>2, <2>1
    <3>3. QED
      BY <3>1, <3>2 DEF OpToRel
  <2>3. QED
    BY <1>3, <2>2
<1>5. QED
  BY <1>4

\* A path resolves to a file that is there, or to none.
LEMMA ResolvesToFile ==
  ASSUME NEW path \in Seq(STRING)
  PROVE  local_module_path(path) \in DOMAIN drvFiles \cup {<<>>}
<1> DEFINE found == {n \in 1..Len(path) : SubSeq(path, 1, n) \in DOMAIN drvFiles}
           longest == CHOOSE n \in found : \A m \in found : m <= n
<1>1. CASE found = {}
  BY <1>1 DEF local_module_path
<1>2. CASE found # {}
  <2>1. \E n \in found : \A m \in found : m <= n
    <3>1. Len(path) \in Nat /\ found \subseteq 1..Len(path)
      OBVIOUS
    <3> HIDE DEF found
    <3>2. QED
      BY <1>2, <3>1, LargestExists
  <2>2. longest \in found
    BY <2>1
  <2>3. local_module_path(path) = SubSeq(path, 1, longest)
    BY <1>2 DEF local_module_path
  <2>4. QED
    BY <2>2, <2>3
<1>3. QED
  BY <1>1, <1>2

\* A symbol at the end of a path that names no file changes nothing.
LEMMA SymbolDropped ==
  ASSUME NEW path \in Seq(STRING), NEW s \in STRING, Append(path, s) \notin DOMAIN drvFiles
  PROVE  local_module_path(Append(path, s)) = local_module_path(path)
<1> DEFINE found == {n \in 1..Len(path) : SubSeq(path, 1, n) \in DOMAIN drvFiles}
           longer == {n \in 1..Len(Append(path, s)) : SubSeq(Append(path, s), 1, n) \in DOMAIN drvFiles}
<1> DEFINE p == Append(path, s)
<1>1. /\ p \in Seq(STRING) /\ Len(p) = Len(path) + 1 /\ Len(path) \in Nat
      /\ \A i \in 1..Len(path) : p[i] = path[i]
  <2>1. Len(path) \in Nat
    OBVIOUS
  <2>2. p \in Seq(STRING) /\ Len(p) = Len(path) + 1
    BY AppendProperties
  <2>3. ASSUME NEW i \in 1..Len(path) PROVE p[i] = path[i]
    BY AppendProperties
  <2>4. QED
    BY <2>1, <2>2, <2>3
<1>2. \A n \in 1..Len(path) : SubSeq(p, 1, n) = SubSeq(path, 1, n)
  <2> HIDE DEF p
  <2> SUFFICES ASSUME NEW n \in 1..Len(path) PROVE SubSeq(p, 1, n) = SubSeq(path, 1, n)
    OBVIOUS
  <2>1. /\ \A i \in 1..n : path[i] \in STRING /\ p[i] = path[i]
        /\ n \in Nat
    BY <1>1
  <2>2. /\ SubSeq(p, 1, n) \in Seq(STRING) /\ Len(SubSeq(p, 1, n)) = n
        /\ \A i \in 1..n : SubSeq(p, 1, n)[i] = p[i]
    <3>1. \A i \in 1..n : p[i] \in STRING
      BY <2>1
    <3>2. QED
      BY <2>1, <3>1, SubSeqProperties
  <2>3. /\ SubSeq(path, 1, n) \in Seq(STRING) /\ Len(SubSeq(path, 1, n)) = n
        /\ \A i \in 1..n : SubSeq(path, 1, n)[i] = path[i]
    BY <2>1, SubSeqProperties
  <2>4. QED
    BY <2>1, <2>2, <2>3, SeqEqual
<1>3. SubSeq(p, 1, Len(path) + 1) = p
  BY <1>1, SubSeqFull
<1>4. longer = found
  <2> HIDE DEF p
  <2>1. ASSUME NEW n \in 1..Len(p) PROVE SubSeq(p, 1, n) \in DOMAIN drvFiles <=> n \in found
    <3>1. CASE n = Len(p)
      <4>1. SubSeq(p, 1, n) \notin DOMAIN drvFiles
        BY <1>1, <1>3, <3>1 DEF p
      <4>2. n \notin found
        BY <1>1, <3>1
      <4>3. QED
        BY <4>1, <4>2
    <3>2. CASE n \in 1..Len(path)
      BY <1>2, <3>2
    <3>3. QED
      BY <1>1, <3>1, <3>2
  <2>2. longer = {n \in 1..Len(p) : SubSeq(p, 1, n) \in DOMAIN drvFiles}
    BY DEF p
  <2>3. \A n \in found : n \in 1..Len(p)
    BY <1>1
  <2> HIDE DEF longer, found
  <2>4. QED
    BY <2>1, <2>2, <2>3
<1>5. \A n \in found : SubSeq(p, 1, n) = SubSeq(path, 1, n)
  BY <1>2
<1>6. CASE found = {}
  BY <1>4, <1>6 DEF local_module_path
<1>7. CASE found # {}
  <2> DEFINE longest == CHOOSE n \in found : \A m \in found : m <= n
  <2>1. local_module_path(path) = SubSeq(path, 1, longest)
    BY <1>7 DEF local_module_path
  <2>2. local_module_path(Append(path, s)) = SubSeq(Append(path, s), 1, longest)
    BY <1>4, <1>7 DEF local_module_path
  <2>3. longest \in found
    <3>1. \E n \in found : \A m \in found : m <= n
      <4>1. Len(path) \in Nat /\ found \subseteq 1..Len(path)
        OBVIOUS
      <4> HIDE DEF found
      <4>2. QED
        BY <1>7, <4>1, LargestExists
    <3>2. QED
      BY <3>1
  <2> HIDE DEF longest, found
  <2>4. QED
    BY <1>5, <2>1, <2>2, <2>3
<1>8. QED
  BY <1>6, <1>7

(* ------------------------------- reached -------------------------------- *)

\* Every import that finds a file finds one of the files.
WellTargeted(targets) ==
  \A f \in DOMAIN targets : targets[f] \ {<<>>} \subseteq DOMAIN targets

\* What is reached holds its start, is closed under the imports and lies in every set
\* of files that does both.
LEMMA ReachedContains ==
  ASSUME NEW targets, NEW S \in SUBSET DOMAIN targets
  PROVE  S \subseteq Reached(S, targets) /\ Reached(S, targets) \subseteq DOMAIN targets
BY DEF Reached

LEMMA ReachedIsClosed ==
  ASSUME NEW targets, NEW S, WellTargeted(targets)
  PROVE  Closed(Reached(S, targets), targets)
<1> SUFFICES ASSUME NEW f \in Reached(S, targets), NEW g \in targets[f] \ {<<>>}
             PROVE  g \in Reached(S, targets)
  BY DEF Closed
<1>1. f \in DOMAIN targets /\ g \in DOMAIN targets
  BY DEF Reached, WellTargeted
<1>2. ASSUME NEW C \in SUBSET DOMAIN targets, S \subseteq C, Closed(C, targets) PROVE g \in C
  <2>1. f \in C
    BY <1>2 DEF Reached
  <2>2. QED
    BY <1>2, <2>1 DEF Closed
<1>3. QED
  BY <1>1, <1>2 DEF Reached

LEMMA ReachedIsLeast ==
  ASSUME NEW targets, NEW S, NEW C \in SUBSET DOMAIN targets,
         S \subseteq C, Closed(C, targets)
  PROVE  Reached(S, targets) \subseteq C
BY DEF Reached

(* ------------------------------ the inputs ------------------------------ *)

\* the files of the inputs, in the versions they have
FilesOK ==
  /\ drvUses \in ImportGraphs
  /\ drvFiles \in [DOMAIN drvFiles -> Versions]
  /\ DOMAIN drvUses \subseteq DOMAIN drvFiles
  /\ DOMAIN drvFiles \subseteq SourceSet

\* The imports of a file are imports, and what the loader and the scan make of them
\* are files.
LEMMA UsesAreImports ==
  ASSUME FilesOK, NEW f \in DOMAIN drvFiles
  PROVE  UsesOf(f) \subseteq Imports
<1>1. CASE f \notin DOMAIN drvUses
  BY <1>1 DEF UsesOf
<1>2. CASE f \in DOMAIN drvUses
  <2>1. drvFiles[f] \in Versions
    BY DEF FilesOK
  <2>2. UsesOf(f) = drvUses[f][drvFiles[f]]
    BY <1>2 DEF UsesOf
  <2>3. QED
    BY <1>2, <2>1, <2>2, DriverAssumption DEF FilesOK
<1>3. QED
  BY <1>1, <1>2

LEMMA ScannedPaths ==
  ASSUME NEW u \in Imports, NEW p \in nested_use_paths(u)
  PROVE  p \in Seq(STRING)
<1>1. u.path \in Seq(STRING) /\ u.group \subseteq STRING
  BY DEF Imports
<1>2. \A s \in u.group : Append(u.path, s) \in Seq(STRING)
  BY <1>1, AppendProperties
<1>3. <<>> \in Seq(STRING)
  OBVIOUS
<1>4. p = u.path \/ p = <<>> \/ \E s \in u.group : p = Append(u.path, s)
  BY DEF nested_use_paths
<1>5. QED
  BY <1>1, <1>2, <1>3, <1>4

LEMMA TargetsAreFiles ==
  ASSUME FilesOK
  PROVE  /\ DOMAIN LoaderTargets = DOMAIN drvFiles /\ WellTargeted(LoaderTargets)
         /\ DOMAIN FingerprintTargets = DOMAIN drvFiles /\ WellTargeted(FingerprintTargets)
<1>1. DOMAIN LoaderTargets = DOMAIN drvFiles /\ DOMAIN FingerprintTargets = DOMAIN drvFiles
  BY DEF LoaderTargets, FingerprintTargets
<1>2. ASSUME NEW f \in DOMAIN drvFiles, NEW t \in LoaderTargets[f] PROVE t \in DOMAIN drvFiles \cup {<<>>}
  <2>1. PICK u \in UsesOf(f) : t = local_module_path(u.path)
    BY <1>2 DEF LoaderTargets
  <2>2. u.path \in Seq(STRING)
    BY UsesAreImports DEF Imports
  <2>3. QED
    BY <2>1, <2>2, ResolvesToFile
<1>3. ASSUME NEW f \in DOMAIN drvFiles, NEW t \in FingerprintTargets[f] PROVE t \in DOMAIN drvFiles \cup {<<>>}
  <2>1. PICK u \in UsesOf(f) : \E p \in nested_use_paths(u) : t = local_module_path(p)
    BY <1>3 DEF FingerprintTargets
  <2>2. PICK p \in nested_use_paths(u) : t = local_module_path(p)
    BY <2>1
  <2>3. p \in Seq(STRING)
    BY UsesAreImports, ScannedPaths
  <2>4. QED
    BY <2>2, <2>3, ResolvesToFile
<1>4. QED
  BY <1>1, <1>2, <1>3 DEF WellTargeted

(* --------------------- the fingerprint and the loader -------------------- *)

\* No symbol imported in braces has the name of a file beside the module's: the scan
\* would take that file for the module.
GroupsNameNoFile ==
  \A g \in ImportGraphs : \A f \in DOMAIN g, n \in Versions : \A u \in g[f][n] :
    \A s \in u.group : Append(u.path, s) \notin SourceSet
\* No module is imported whole under an alias: the scan passes such an import over.
NoAliases ==
  \A g \in ImportGraphs : \A f \in DOMAIN g, n \in Versions : \A u \in g[f][n] :
    u.group = {} => ~ u.alias
\* Only the root imports C headers.
HeadersInRoot == ForeignFiles \subseteq {Root}

\* Where the scan resolves every import, it finds what the loader finds.
LEMMA ScanIsLoad ==
  ASSUME FilesOK, GroupsNameNoFile, NoAliases, NEW f \in DOMAIN drvFiles, <<>> \notin FingerprintTargets[f]
  PROVE  LoaderTargets[f] = FingerprintTargets[f]
<1>1. /\ LoaderTargets[f] = {local_module_path(u.path) : u \in UsesOf(f)}
      /\ FingerprintTargets[f] =
           {local_module_path(p) : p \in UNION {nested_use_paths(u) : u \in UsesOf(f)}}
  BY DEF LoaderTargets, FingerprintTargets
<1>2. ASSUME NEW u \in UsesOf(f)
      PROVE  /\ \E p \in nested_use_paths(u) : local_module_path(p) = local_module_path(u.path)
             /\ \A p \in nested_use_paths(u) : local_module_path(p) = local_module_path(u.path)
  <2>1. u.path \in Seq(STRING) /\ u.group \subseteq STRING
    BY UsesAreImports DEF Imports
  <2>2. CASE u.group = {}
    <3>1. f \in DOMAIN drvUses /\ u \in drvUses[f][drvFiles[f]]
      BY DEF UsesOf
    <3>2. drvFiles[f] \in Versions /\ drvUses \in ImportGraphs
      BY DEF FilesOK
    <3>3. ~ u.alias
      BY <2>2, <3>1, <3>2 DEF NoAliases
    <3>4. nested_use_paths(u) = {u.path}
      BY <2>2, <3>3 DEF nested_use_paths
    <3>5. QED
      BY <3>4
  <2>3. CASE u.group # {} /\ \E s \in u.group : u.group = {s}
    <3>1. PICK s \in u.group : u.group = {s}
      BY <2>3
    <3>2. nested_use_paths(u) = {Append(u.path, s)}
      BY <2>3, <3>1 DEF nested_use_paths
    <3>3. Append(u.path, s) \notin SourceSet
      <4>1. f \in DOMAIN drvUses /\ u \in drvUses[f][drvFiles[f]]
        BY DEF UsesOf
      <4>2. drvFiles[f] \in Versions /\ drvUses \in ImportGraphs
        BY DEF FilesOK
      <4>3. QED
        BY <4>1, <4>2 DEF GroupsNameNoFile
    <3>4. local_module_path(Append(u.path, s)) = local_module_path(u.path)
      BY <2>1, <3>3, SymbolDropped DEF FilesOK
    <3>5. QED
      BY <3>2, <3>4
  <2>4. CASE u.group # {} /\ ~ \E s \in u.group : u.group = {s}
    <3>1. nested_use_paths(u) = {<<>>}
      BY <2>4 DEF nested_use_paths
    <3>2. local_module_path(<<>>) \in FingerprintTargets[f]
      BY <1>1, <3>1
    <3>3. local_module_path(<<>>) = <<>>
      BY DEF local_module_path
    <3>4. QED
      BY <3>2, <3>3
  <2>5. QED
    BY <2>2, <2>3, <2>4
<1>3. QED
  BY <1>1, <1>2

\* Whatever the key, it says which files a check reads, and in which versions.
ReadOf(k) ==
  [f \in {Root} \cup (IF k.fp.st = "none" THEN {} ELSE DOMAIN k.fp.files) |->
     IF f = Root THEN k.root ELSE k.fp.files[f]]

LEMMA FilesThere ==
  ASSUME FilesOK
  PROVE  Root \in DOMAIN drvFiles /\ ExplicitFiles \subseteq DOMAIN drvFiles
BY DriverAssumption DEF FilesOK

\* A root without imports is all there is to read.
LEMMA FreshAlone ==
  ASSUME FilesOK, ExplicitFiles = {}, UsesOf(Root) = {}
  PROVE  FreshFiles = {Root}
<1>1. Root \in DOMAIN LoaderTargets
  BY FilesThere, TargetsAreFiles
<1>2. LoaderTargets[Root] = {}
  BY FilesThere DEF LoaderTargets
<1>3. Closed({Root}, LoaderTargets)
  BY <1>2 DEF Closed
<1>4. QED
  BY <1>1, <1>3, ReachedContains, ReachedIsLeast DEF FreshFiles

\* The files of a fingerprint and the root are the files a check reads.
LEMMA FreshScanned ==
  ASSUME FilesOK, GroupsNameNoFile, NoAliases, ExplicitFiles = {}, Fingerprint.st = "some"
  PROVE  FreshFiles = {Root} \cup DOMAIN Fingerprint.files
<1> DEFINE L == LoaderTargets
           F == FingerprintTargets
           X == Reached(F[Root] \ {<<>>}, F)
           Y == Reached({Root}, L)
<1>1. /\ DOMAIN L = DOMAIN drvFiles /\ WellTargeted(L)
      /\ DOMAIN F = DOMAIN drvFiles /\ WellTargeted(F)
      /\ Root \in DOMAIN drvFiles
  BY FilesThere, TargetsAreFiles
<1>2. /\ <<>> \notin F[Root] /\ \A f \in X : <<>> \notin F[f]
      /\ DOMAIN Fingerprint.files = X
  BY DEF Fingerprint, FingerprintOf
<1>3. X \subseteq DOMAIN drvFiles /\ F[Root] \subseteq X /\ Closed(X, F)
  <2>1. F[Root] \ {<<>>} \in SUBSET DOMAIN F
    BY <1>1 DEF WellTargeted
  <2>2. F[Root] \ {<<>>} = F[Root]
    BY <1>2
  <2> HIDE DEF F, L
  <2>3. QED
    BY <1>1, <2>1, <2>2, ReachedContains, ReachedIsClosed
<1>4. \A f \in {Root} \cup X : L[f] = F[f] /\ <<>> \notin F[f]
  BY <1>1, <1>2, <1>3, ScanIsLoad
<1>5. Y \subseteq DOMAIN drvFiles /\ Root \in Y /\ Closed(Y, L)
  <2> HIDE DEF F, L
  <2>1. QED
    BY <1>1, ReachedContains, ReachedIsClosed
<1>6. Y \subseteq {Root} \cup X
  <2> DEFINE C == {Root} \cup X
  <2> HIDE DEF F, L, X
  <2>1. Closed(C, L)
    BY <1>3, <1>4 DEF Closed
  <2>2. QED
    BY <1>1, <1>3, <2>1, ReachedIsLeast
<1>7. X \subseteq Y
  <2> DEFINE C == X \cap Y
  <2>1. F[Root] \ {<<>>} \subseteq C /\ Closed(C, F)
    <3> HIDE DEF F, L, X, Y
    <3>1. QED
      BY <1>3, <1>4, <1>5 DEF Closed
  <2>2. C \in SUBSET DOMAIN F
    BY <1>1, <1>3
  <2>3. X \subseteq C
    <3> HIDE DEF F, C, Y
    <3>1. QED
      BY <2>1, <2>2, ReachedIsLeast
  <2>4. QED
    BY <2>3
<1>8. FreshFiles = Y
  BY DEF FreshFiles
<1>9. QED
  BY <1>2, <1>5, <1>6, <1>7, <1>8

\* A check that may be stored reads what its key says.
LEMMA KeyTellsRead ==
  ASSUME FilesOK, GroupsNameNoFile, NoAliases, is_cacheable(Fingerprint), NEW tier
  PROVE  FreshRead = ReadOf(compute_key(Fingerprint, tier))
<1> DEFINE k == compute_key(Fingerprint, tier)
<1>1. k.root = drvFiles[Root] /\ k.fp = Fingerprint
  BY DEF compute_key
<1>2. CASE Fingerprint.st = "some"
  <2>1. \A f \in DOMAIN Fingerprint.files : Fingerprint.files[f] = drvFiles[f]
    BY <1>2 DEF Fingerprint, FingerprintOf
  <2>2. FreshFiles = {Root} \cup DOMAIN Fingerprint.files
    BY <1>2, FreshScanned DEF is_cacheable
  <2>3. FreshRead = ReadOf(k)
    <3> HIDE DEF k
    <3>1. QED
      BY <1>1, <1>2, <2>1, <2>2 DEF FreshRead, ReadOf
  <2>4. QED
    BY <2>3
<1>3. CASE Fingerprint.st # "some"
  <2>1. Fingerprint.st = "none" /\ UsesOf(Root) = {}
    BY <1>3 DEF Fingerprint, FingerprintOf, is_cacheable
  <2>2. FreshFiles = {Root}
    BY <2>1, FreshAlone DEF is_cacheable
  <2>3. FreshRead = ReadOf(k)
    <3> HIDE DEF k
    <3>1. QED
      BY <1>1, <2>1, <2>2 DEF FreshRead, ReadOf
  <2>4. QED
    BY <2>3
<1>4. QED
  BY <1>2, <1>3

LEMMA FilesInvariant == drvSpec => []FilesOK
<1>1. drvInit => FilesOK
  BY DriverAssumption DEF drvInit, FilesOK, Versions
<1>2. FilesOK /\ [drvNext]_drvVars => FilesOK'
  <2> SUFFICES ASSUME FilesOK, [drvNext]_drvVars PROVE FilesOK'
    OBVIOUS
  <2>1. CASE UNCHANGED <<drvUses, drvFiles>>
    BY <2>1 DEF FilesOK
  <2>2. ASSUME NEW f \in SourceSet, EditFile(f) PROVE FilesOK'
    BY <2>2 DEF EditFile, FilesOK, Versions
  <2>3. ASSUME NEW f \in SourceSet, CreateFile(f) PROVE FilesOK'
    BY <2>3 DEF CreateFile, FilesOK, Versions
  <2>4. QED
    BY <2>1, <2>2, <2>3
       DEF drvNext, drvVars, StartJob, Lookup, ParseRoot, LoadsDone, VisitDone, SearchDone, Searching, RunStage,
           FinishJob, EditHeader, LoadModule, VisitStart, VisitKid, Inputs
<1>3. QED
  BY <1>1, <1>2, PTL DEF drvSpec

(* -------------------------------- loading ------------------------------- *)

\* What a job has loaded: the files it read are files a check must read, in their
\* present versions; when the loader is done they are all of them.
LoadedOK ==
  /\ drvJob.route \in {"check", "build"} /\ drvJob.fp = Fingerprint
  /\ {Root} \cup ExplicitFiles \subseteq DOMAIN drvJob.read
  /\ DOMAIN drvJob.read \subseteq FreshFiles
  /\ drvJob.read \in [DOMAIN drvJob.read -> Versions]
  /\ \A f \in DOMAIN drvJob.read : drvJob.read[f] = drvFiles[f]
  /\ \A f \in DOMAIN drvJob.read : drvDecls[f] \subseteq drvJob.names
  /\ NameClash => "ambiguous" \in drvJob.errs
  /\ ExplicitFiles = {} =>
       /\ DOMAIN drvJob.deps = DOMAIN drvJob.read
       /\ \A f \in DOMAIN drvJob.read : drvJob.deps[f] = LoaderTargets[f] \ {<<>>}
  /\ ForeignFiles = {} => drvJob.header = 0
  /\ drvJob.pc \in {"cycles", "stages"} => Frontier = {}
  /\ drvJob.pc # "stages" => drvJob.at = 1 /\ drvJob.ran \subseteq {"parse"}
JobInv ==
  /\ drvJob.pc \in {"idle", "lookup", "parse", "load", "cycles", "stages"}
  /\ drvJob = [k \in DOMAIN NoJob |-> drvJob[k]]
  /\ drvJob.pc = "idle" => drvJob = NoJob
  /\ drvJob.pc # "idle" => LoadedOK

\* A step that leaves the inputs alone leaves what they mean alone.
LEMMA InputsFix ==
  ASSUME UNCHANGED Inputs
  PROVE  /\ LoaderTargets' = LoaderTargets /\ Fingerprint' = Fingerprint
         /\ FreshFiles' = FreshFiles /\ FreshRead' = FreshRead
         /\ drvFiles' = drvFiles /\ drvDecls' = drvDecls
<1>1. /\ LoaderTargets' = LoaderTargets /\ drvFiles' = drvFiles /\ drvDecls' = drvDecls
      /\ FreshFiles' = FreshFiles
  BY DEF Inputs, LoaderTargets, UsesOf, local_module_path, FreshFiles, Reached
<1>2. Fingerprint' = Fingerprint
  BY DEF Inputs, Fingerprint, FingerprintOf, FingerprintTargets, UsesOf, local_module_path, Reached
<1>3. QED
  BY <1>1, <1>2 DEF FreshRead

\* What is fresh is closed under the imports and holds the files of the command line.
LEMMA FreshIsClosed ==
  ASSUME FilesOK
  PROVE  /\ {Root} \cup ExplicitFiles \subseteq FreshFiles
         /\ FreshFiles \subseteq DOMAIN drvFiles /\ Closed(FreshFiles, LoaderTargets)
<1>1. {Root} \cup ExplicitFiles \in SUBSET DOMAIN LoaderTargets /\ WellTargeted(LoaderTargets)
      /\ DOMAIN LoaderTargets = DOMAIN drvFiles
  BY FilesThere, TargetsAreFiles
<1>2. QED
  BY <1>1, ReachedContains, ReachedIsClosed DEF FreshFiles

LEMMA StartKeeps ==
  ASSUME FilesOK, JobInv, NEW r \in {"check", "build"}, NEW t \in 1..2, StartJob(r, t)
  PROVE  JobInv'
<1> DEFINE start == {Root} \cup ExplicitFiles
<1>1. /\ drvJob'.pc \in {"lookup", "parse"} /\ drvJob'.route = r /\ drvJob'.fp = Fingerprint
      /\ drvJob'.deps = StartDeps /\ drvJob'.read = [f \in start |-> drvFiles[f]]
      /\ drvJob'.names = UNION {drvDecls[f] : f \in start}
      /\ drvJob'.header = 0 /\ drvJob'.at = 1 /\ drvJob'.ran = {}
      /\ drvJob' = [k \in DOMAIN NoJob |-> drvJob'[k]]
  BY DEF StartJob, NoJob
<1>2. UNCHANGED Inputs
  BY DEF StartJob
<1>3. DOMAIN drvJob'.read = start
  BY <1>1
<1>4. ~ NameClash'
  BY <1>3 DEF NameClash
<1>5. ASSUME ExplicitFiles = {}
      PROVE  /\ DOMAIN drvJob'.deps = DOMAIN drvJob'.read
             /\ \A f \in DOMAIN drvJob'.read : drvJob'.deps[f] = LoaderTargets[f] \ {<<>>}
  <2>1. start = {Root} /\ DOMAIN StartDeps = {Root}
    BY <1>5 DEF StartDeps
  <2>2. StartDeps[Root] = LoaderTargets[Root] \ {<<>>}
    <3>1. UNION {LoaderTargets[g] : g \in {Root} \cup ExplicitFiles} = LoaderTargets[Root]
      BY <1>5
    <3>2. QED
      BY <3>1 DEF StartDeps
  <2>3. QED
    BY <1>1, <1>3, <2>1, <2>2
<1>6. LoadedOK'
  <2>1. /\ LoaderTargets' = LoaderTargets /\ Fingerprint' = Fingerprint
        /\ FreshFiles' = FreshFiles /\ drvFiles' = drvFiles /\ drvDecls' = drvDecls
    BY <1>2, InputsFix
  <2>2. start \subseteq FreshFiles /\ start \subseteq DOMAIN drvFiles
    BY FreshIsClosed
  <2>3. \A f \in start : drvFiles[f] \in Versions
    BY <2>2 DEF FilesOK
  <2>4. /\ drvJob'.read \in [start -> Versions]
        /\ \A f \in start : drvJob'.read[f] = drvFiles[f] /\ drvDecls[f] \subseteq drvJob'.names
    BY <1>1, <2>3
  <2>5. QED
    BY <1>1, <1>3, <1>4, <1>5, <2>1, <2>2, <2>4 DEF LoadedOK
<1>7. QED
  BY <1>1, <1>6 DEF JobInv

\* The steps that add nothing to what is loaded.
LEMMA LookupKeeps ==
  ASSUME FilesOK, JobInv, Lookup \/ ParseRoot
  PROVE  JobInv'
<1>1. UNCHANGED Inputs
  BY DEF Lookup, ParseRoot
<1>2. \/ drvJob' = NoJob
      \/ drvJob' = [drvJob EXCEPT !.pc = "parse"]
      \/ drvJob' = [drvJob EXCEPT !.pc = "load", !.ran = {"parse"}]
  BY DEF Lookup, ParseRoot
<1>3. CASE drvJob' = NoJob
  BY <1>3 DEF JobInv, NoJob
<1>4. CASE drvJob' # NoJob
  <2>1. drvJob = [k \in DOMAIN NoJob |-> drvJob[k]] /\ drvJob.pc \in {"lookup", "parse"} /\ LoadedOK
    BY DEF JobInv, Lookup, ParseRoot
  <2>2. /\ drvJob'.pc \in {"parse", "load"} /\ drvJob' = [k \in DOMAIN NoJob |-> drvJob'[k]]
        /\ \A k \in DOMAIN NoJob \ {"pc", "ran"} : drvJob'[k] = drvJob[k]
        /\ drvJob'.ran \in {drvJob.ran, {"parse"}}
    BY <1>2, <1>4, <2>1 DEF NoJob
  <2>3. /\ drvJob'.pc \in {"parse", "load"} /\ drvJob'.ran \in {drvJob.ran, {"parse"}}
        /\ drvJob'.route = drvJob.route /\ drvJob'.fp = drvJob.fp /\ drvJob'.deps = drvJob.deps
        /\ drvJob'.read = drvJob.read /\ drvJob'.names = drvJob.names /\ drvJob'.errs = drvJob.errs
        /\ drvJob'.at = drvJob.at /\ drvJob'.header = drvJob.header
    BY <2>2 DEF NoJob
  <2>4. NameClash' = NameClash
    BY <1>1, <2>3, InputsFix DEF NameClash
  <2>5. LoadedOK'
    BY <1>1, <2>1, <2>3, <2>4, InputsFix DEF LoadedOK
  <2>6. QED
    BY <2>2, <2>5 DEF JobInv
<1>5. QED
  BY <1>3, <1>4

\* A file to load is one that a loaded file imports.
LEMMA FrontierIsImported ==
  ASSUME NEW m \in Frontier
  PROVE  /\ \E f \in DOMAIN drvJob.read : m \in LoaderTargets[f]
         /\ m \notin DOMAIN drvJob.read /\ m # <<>>
<1>1. m \notin DOMAIN drvJob.read /\ m # <<>>
  BY DEF Frontier
<1>2. m \in UNION {LoaderTargets[f] : f \in DOMAIN drvJob.read}
  BY DEF Frontier
<1>3. QED
  BY <1>1, <1>2

LEMMA LoadKeeps ==
  ASSUME FilesOK, JobInv, NEW f \in SourceSet, LoadModule(f)
  PROVE  JobInv'
<1> DEFINE read == DOMAIN drvJob.read
<1>1. drvJob = [k \in DOMAIN NoJob |-> drvJob[k]] /\ drvJob.pc = "load" /\ LoadedOK
  BY DEF JobInv, LoadModule
<1>2. /\ drvJob'.pc = "load" /\ drvJob' = [k \in DOMAIN NoJob |-> drvJob'[k]]
      /\ \A k \in DOMAIN NoJob \ {"read", "deps", "names", "errs"} : drvJob'[k] = drvJob[k]
      /\ drvJob'.read = [g \in read \cup {f} |-> IF g = f THEN drvFiles[f] ELSE drvJob.read[g]]
      /\ drvJob'.deps = [g \in DOMAIN drvJob.deps \cup {f} |->
                           IF g = f THEN LoaderTargets[f] \ {<<>>} ELSE drvJob.deps[g]]
      /\ drvJob'.names = drvJob.names \cup drvDecls[f]
      /\ drvJob'.errs = drvJob.errs \cup (IF Ambiguous(f) THEN {"ambiguous"} ELSE {})
  BY <1>1 DEF LoadModule, NoJob
<1>3. UNCHANGED Inputs
  BY DEF LoadModule
<1>4. f \in FreshFiles /\ f \notin read
  <2>1. PICK g \in read : f \in LoaderTargets[g] \ {<<>>} /\ f \notin read
    <3>1. f \in Frontier
      BY DEF LoadModule
    <3>2. QED
      BY <3>1, FrontierIsImported
  <2>2. g \in FreshFiles
    BY <1>1 DEF LoadedOK
  <2>3. QED
    BY <2>1, <2>2, FreshIsClosed DEF Closed
<1>5. DOMAIN drvJob'.read = read \cup {f}
  BY <1>2
<1>6. /\ drvJob'.read \in [DOMAIN drvJob'.read -> Versions]
      /\ \A g \in DOMAIN drvJob'.read : drvJob'.read[g] = drvFiles[g]
  <2>1. /\ drvJob.read \in [read -> Versions]
        /\ \A g \in read : drvJob.read[g] = drvFiles[g]
    BY <1>1 DEF LoadedOK
  <2>2. drvFiles[f] \in Versions
    BY <1>4, FreshIsClosed DEF FilesOK
  <2>3. QED
    BY <1>2, <1>5, <2>1, <2>2
<1>7. \A g \in DOMAIN drvJob'.read : drvDecls[g] \subseteq drvJob'.names
  BY <1>1, <1>2, <1>5 DEF LoadedOK
<1>8. NameClash' => "ambiguous" \in drvJob'.errs
  <2> SUFFICES ASSUME NEW g \in read \cup {f}, NEW h \in read \cup {f}, g # h,
                      h \notin {Root} \cup ExplicitFiles,
                      NEW d \in drvDecls[g] \cap drvDecls[h], d.kind = "function"
               PROVE  "ambiguous" \in drvJob'.errs
    BY <1>3, <1>5, InputsFix DEF NameClash
  <2>1. CASE g \in read /\ h \in read
    <3>1. NameClash
      BY <2>1 DEF NameClash
    <3>2. QED
      BY <1>1, <1>2, <3>1 DEF LoadedOK
  <2>2. CASE g = f \/ h = f
    <3>1. d \in drvDecls[f] /\ d \in drvJob.names
      BY <1>1, <2>2 DEF LoadedOK
    <3>2. Ambiguous(f)
      BY <3>1 DEF Ambiguous
    <3>3. QED
      BY <1>2, <3>2
  <2>3. QED
    BY <2>1, <2>2
<1>9. ASSUME ExplicitFiles = {}
      PROVE  /\ DOMAIN drvJob'.deps = DOMAIN drvJob'.read
             /\ \A g \in DOMAIN drvJob'.read : drvJob'.deps[g] = LoaderTargets[g] \ {<<>>}
  <2>2. DOMAIN drvJob.deps = read /\ \A g \in read : drvJob.deps[g] = LoaderTargets[g] \ {<<>>}
    BY <1>1, <1>9 DEF LoadedOK
  <2>3. QED
    BY <1>2, <1>5, <2>2
<1>10. LoadedOK'
  <2>1. /\ drvJob'.route = drvJob.route /\ drvJob'.fp = drvJob.fp /\ drvJob'.header = drvJob.header
        /\ drvJob'.at = drvJob.at /\ drvJob'.ran = drvJob.ran
    BY <1>2 DEF NoJob
  <2>2. /\ LoaderTargets' = LoaderTargets /\ Fingerprint' = Fingerprint
        /\ FreshFiles' = FreshFiles /\ drvFiles' = drvFiles /\ drvDecls' = drvDecls
    BY <1>3, InputsFix
  <2>3. {Root} \cup ExplicitFiles \subseteq DOMAIN drvJob'.read /\ DOMAIN drvJob'.read \subseteq FreshFiles
    BY <1>1, <1>4, <1>5 DEF LoadedOK
  <2>4. QED
    BY <1>1, <1>2, <1>6, <1>7, <1>8, <1>9, <2>1, <2>2, <2>3 DEF LoadedOK
<1>11. QED
  BY <1>2, <1>10 DEF JobInv

\* The search and the stages add errors, and move on; what was loaded stays.
OnlyAdds ==
  /\ drvJob.pc \in {"load", "cycles", "stages"} /\ UNCHANGED Inputs
  /\ drvJob'.pc \in {"cycles", "stages"} /\ drvJob' = [x \in DOMAIN NoJob |-> drvJob'[x]]
  /\ drvJob.pc = "stages" => drvJob'.pc = "stages"
  /\ drvJob'.pc # "stages" => drvJob'.at = drvJob.at /\ drvJob'.ran = drvJob.ran
  /\ \A x \in {"route", "fp", "read", "names", "deps"} : drvJob'[x] = drvJob[x]
  /\ drvJob.errs \subseteq drvJob'.errs
  /\ drvJob.pc = "load" => Frontier = {}
  /\ ForeignFiles = {} => drvJob'.header = drvJob.header

LEMMA StageAdds ==
  ASSUME drvJob = [x \in DOMAIN NoJob |-> drvJob[x]], RunStage
  PROVE  OnlyAdds
<1> DEFINE s == StagesOf(drvJob.route)[drvJob.at]
           errs == drvJob.errs \cup ({s} \cap drvDefects)
           header == IF s = "expand" /\ DOMAIN drvJob.read \cap ForeignFiles # {}
                     THEN drvHeader ELSE drvJob.header
           at == IF s \in Barriers(drvJob.route) /\ errs # {}
                 THEN Len(StagesOf(drvJob.route)) + 1 ELSE drvJob.at + 1
<1>1. drvJob.pc = "stages" /\ UNCHANGED Inputs
  BY DEF RunStage
<1>2. drvJob' = [drvJob EXCEPT !.errs = errs, !.ran = @ \cup {s}, !.header = header, !.at = at]
  BY DEF RunStage
<1>3. drvJob.errs \subseteq errs /\ (ForeignFiles = {} => header = drvJob.header)
  OBVIOUS
<1> HIDE DEF s, errs, header, at
<1>4. QED
  BY <1>1, <1>2, <1>3 DEF OnlyAdds, NoJob

LEMMA VisitsAdd ==
  ASSUME drvJob = [x \in DOMAIN NoJob |-> drvJob[x]], LoadsDone \/ VisitDone \/ SearchDone
  PROVE  OnlyAdds
<1>1. CASE LoadsDone
  BY <1>1 DEF LoadsDone, OnlyAdds, NoJob
<1>2. CASE VisitDone
  BY <1>2 DEF VisitDone, Searching, OnlyAdds, NoJob
<1>3. CASE SearchDone
  BY <1>3 DEF SearchDone, Searching, OnlyAdds, NoJob
<1>4. QED
  BY <1>1, <1>2, <1>3

LEMMA StartAdds ==
  ASSUME drvJob = [x \in DOMAIN NoJob |-> drvJob[x]], NEW f, VisitStart(f)
  PROVE  OnlyAdds
<1>1. drvJob.pc = "cycles" /\ UNCHANGED Inputs
  BY DEF VisitStart, Searching
<1>2. drvJob' = [drvJob EXCEPT !.mark[f] = 1, !.work = Push(@, f)]
  BY DEF VisitStart
<1>3. QED
  BY <1>1, <1>2 DEF OnlyAdds, NoJob

LEMMA KidAdds ==
  ASSUME drvJob = [x \in DOMAIN NoJob |-> drvJob[x]], NEW k, VisitKid(k)
  PROVE  OnlyAdds
<1> DEFINE rest == [drvJob.work EXCEPT ![Len(drvJob.work)].kids = @ \ {k}]
<1>1. drvJob.pc = "cycles" /\ UNCHANGED Inputs
  BY DEF VisitKid, Searching
<1>2. \/ drvJob' = [drvJob EXCEPT !.mark[k] = 1, !.work = Push(rest, k)]
      \/ drvJob' = [drvJob EXCEPT !.errs = @ \cup {"cycle"}, !.work = rest]
      \/ drvJob' = [drvJob EXCEPT !.work = rest]
  BY DEF VisitKid
<1> HIDE DEF rest
<1>3. CASE drvJob' = [drvJob EXCEPT !.mark[k] = 1, !.work = Push(rest, k)]
  BY <1>1, <1>3 DEF NoJob, OnlyAdds
<1>4. CASE drvJob' = [drvJob EXCEPT !.errs = @ \cup {"cycle"}, !.work = rest]
  BY <1>1, <1>4 DEF NoJob, OnlyAdds
<1>5. CASE drvJob' = [drvJob EXCEPT !.work = rest]
  BY <1>1, <1>5 DEF NoJob, OnlyAdds
<1>6. QED
  BY <1>2, <1>3, <1>4, <1>5

LEMMA RestKeeps ==
  ASSUME FilesOK, JobInv,
         \/ LoadsDone \/ VisitDone \/ SearchDone \/ RunStage
         \/ \E f \in SourceSet : VisitStart(f) \/ VisitKid(f)
  PROVE  JobInv'
<1>0. drvJob = [x \in DOMAIN NoJob |-> drvJob[x]] /\ OnlyAdds
  BY StageAdds, VisitsAdd, StartAdds, KidAdds DEF JobInv
<1>1. /\ drvJob.pc \in {"load", "cycles", "stages"} /\ UNCHANGED Inputs /\ LoadedOK
  BY <1>0 DEF JobInv, OnlyAdds
<1>2. /\ drvJob'.pc \in {"cycles", "stages"} /\ drvJob' = [x \in DOMAIN NoJob |-> drvJob'[x]]
      /\ drvJob.pc = "stages" => drvJob'.pc = "stages"
      /\ drvJob'.pc # "stages" => drvJob'.at = drvJob.at /\ drvJob'.ran = drvJob.ran
      /\ drvJob'.route = drvJob.route /\ drvJob'.fp = drvJob.fp /\ drvJob'.read = drvJob.read
      /\ drvJob'.names = drvJob.names /\ drvJob'.deps = drvJob.deps
      /\ drvJob.errs \subseteq drvJob'.errs
      /\ drvJob.pc = "load" => Frontier = {}
  BY <1>0 DEF OnlyAdds
<1>3. ForeignFiles = {} => drvJob'.header = drvJob.header
  BY <1>0 DEF OnlyAdds
<1>4. Frontier = {} /\ Frontier' = Frontier
  <2>1. LoaderTargets' = LoaderTargets /\ drvJob'.read = drvJob.read
    BY <1>1, <1>2, InputsFix
  <2>2. Frontier' = Frontier
    BY <2>1 DEF Frontier
  <2>3. Frontier = {}
    BY <1>1, <1>2 DEF LoadedOK
  <2>4. QED
    BY <2>2, <2>3
<1>5. LoadedOK'
  <2>1. /\ LoaderTargets' = LoaderTargets /\ Fingerprint' = Fingerprint
        /\ FreshFiles' = FreshFiles /\ drvFiles' = drvFiles /\ drvDecls' = drvDecls
    BY <1>1, InputsFix
  <2>2. /\ drvJob'.route = drvJob.route /\ drvJob'.fp = drvJob.fp /\ drvJob'.read = drvJob.read
        /\ drvJob'.names = drvJob.names /\ drvJob'.deps = drvJob.deps
    BY <1>2
  <2>3. NameClash' = NameClash
    BY <2>1, <2>2 DEF NameClash
  <2>4. drvJob'.pc # "stages" => drvJob'.at = 1 /\ drvJob'.ran \subseteq {"parse"}
    BY <1>1, <1>2 DEF LoadedOK
  <2>5. NameClash' => "ambiguous" \in drvJob'.errs
    BY <1>1, <1>2, <2>3 DEF LoadedOK
  <2>6. QED
    BY <1>1, <1>2, <1>3, <1>4, <2>1, <2>2, <2>4, <2>5 DEF LoadedOK
<1>6. QED
  BY <1>2, <1>5 DEF JobInv

LEMMA JobInvariant == drvSpec => []JobInv
<1>1. drvInit => JobInv
  BY DEF drvInit, JobInv, NoJob
<1>2. FilesOK /\ JobInv /\ [drvNext]_drvVars => JobInv'
  <2> SUFFICES ASSUME FilesOK, JobInv, [drvNext]_drvVars PROVE JobInv'
    OBVIOUS
  <2>1. CASE UNCHANGED drvVars
    <3>1. UNCHANGED Inputs /\ drvJob' = drvJob
      BY <2>1 DEF drvVars, Inputs
    <3>2. Frontier' = Frontier
      BY <3>1, InputsFix DEF Frontier
    <3>3. QED
      <4>1. /\ LoaderTargets' = LoaderTargets /\ Fingerprint' = Fingerprint
            /\ FreshFiles' = FreshFiles /\ drvFiles' = drvFiles /\ drvDecls' = drvDecls
        BY <3>1, InputsFix
      <4>2. NameClash' = NameClash
        BY <3>1, <4>1 DEF NameClash
      <4>3. LoadedOK => LoadedOK'
        BY <3>1, <3>2, <4>1, <4>2 DEF LoadedOK
      <4>4. QED
        BY <3>1, <4>3 DEF JobInv
  <2>2. CASE FinishJob
    BY <2>2 DEF FinishJob, JobInv, NoJob
  <2>3. ASSUME NEW f \in SourceSet, EditFile(f) \/ CreateFile(f) PROVE JobInv'
    BY <2>3 DEF EditFile, CreateFile, JobInv
  <2>4. CASE EditHeader
    BY <2>4 DEF EditHeader, JobInv
  <2>5. QED
    BY <2>1, <2>2, <2>3, <2>4, StartKeeps, LookupKeeps, LoadKeeps, RestKeeps DEF drvNext
<1>3. QED
  BY <1>1, <1>2, FilesInvariant, PTL DEF drvSpec

\* When the stages run, every file the program reaches is loaded, no other is, and a
\* function two of them declare has been reported, whatever the imports.
THEOREM LoadingIsComplete == drvSpec => []LoadedIsComplete
<1>1. FilesOK /\ JobInv => LoadedIsComplete
  <2> SUFFICES ASSUME FilesOK, JobInv, drvJob.pc = "stages" PROVE LoadedIsComplete
    BY DEF LoadedIsComplete
  <2>1. LoadedOK /\ Frontier = {}
    BY DEF JobInv, LoadedOK
  <2>2. Closed(DOMAIN drvJob.read, LoaderTargets)
    <3> SUFFICES ASSUME NEW f \in DOMAIN drvJob.read, NEW m \in LoaderTargets[f] \ {<<>>}
                 PROVE  m \in DOMAIN drvJob.read
      BY DEF Closed
    <3>1. m \in UNION {LoaderTargets[g] : g \in DOMAIN drvJob.read}
      OBVIOUS
    <3>2. QED
      BY <2>1, <3>1 DEF Frontier
  <2>3. DOMAIN drvJob.read \in SUBSET DOMAIN LoaderTargets
    BY <2>1, FreshIsClosed, TargetsAreFiles DEF LoadedOK
  <2>4. FreshFiles \subseteq DOMAIN drvJob.read
    BY <2>1, <2>2, <2>3, ReachedIsLeast DEF FreshFiles, LoadedOK
  <2>5. QED
    BY <2>1, <2>4 DEF LoadedIsComplete, LoadedOK
<1>2. QED
  BY <1>1, FilesInvariant, JobInvariant, PTL

(* -------------------------------- the cache ----------------------------- *)

\* Every stored result is of the files its key tells, without a header.
CacheInv ==
  \A k \in DOMAIN drvCache : drvCache[k].read = ReadOf(k) /\ drvCache[k].header = 0

LEMMA NoHeader ==
  ASSUME HeadersInRoot, NEW fp, is_cacheable(fp)
  PROVE  ForeignFiles = {} /\ FreshHeader = 0
BY DEF HeadersInRoot, is_cacheable, FreshHeader

\* What is stored is what a check of the files as they are says.
LEMMA StoredIsFresh ==
  ASSUME FilesOK, JobInv, LoadedIsComplete, GroupsNameNoFile, NoAliases, HeadersInRoot,
         FinishJob, is_cacheable(drvJob.fp)
  PROVE  /\ drvJob.read = ReadOf(compute_key(drvJob.fp, drvJob.tier))
         /\ drvJob.header = 0
<1>1. drvJob.pc = "stages" /\ LoadedOK
  BY DEF FinishJob, JobInv
<1>2. DOMAIN drvJob.read = FreshFiles
  BY <1>1 DEF LoadedIsComplete
<1>3. drvJob.read = FreshRead
  BY <1>1, <1>2 DEF LoadedOK, FreshRead
<1>4. drvJob.fp = Fingerprint
  BY <1>1 DEF LoadedOK
<1>5. ForeignFiles = {}
  BY NoHeader
<1>6. QED
  BY <1>1, <1>3, <1>4, <1>5, KeyTellsRead DEF LoadedOK

\* An answer from the cache is what a check of the files as they are would say, for any
\* import graphs and any sequence of edits, when no symbol imported in braces has the
\* name of a file, no module is imported under an alias and only the root imports C headers.
THEOREM CacheIsFresh ==
  ASSUME GroupsNameNoFile, NoAliases, HeadersInRoot
  PROVE  drvSpec => []NoStaleCheck
<1>1. drvInit => CacheInv /\ NoStaleCheck
  BY DEF drvInit, CacheInv, NoStaleCheck
<1>2. ASSUME FilesOK, JobInv, LoadedIsComplete, CacheInv, NoStaleCheck, [drvNext]_drvVars
      PROVE  CacheInv' /\ NoStaleCheck'
  <2>1. CASE UNCHANGED <<drvCache, drvServed>>
    BY <1>2, <2>1 DEF CacheInv, NoStaleCheck
  <2>2. CASE Lookup
    <3> DEFINE k == compute_key(drvJob.fp, drvJob.tier)
    <3>1. CacheInv'
      BY <1>2, <2>2 DEF Lookup, CacheInv
    <3>2. CASE is_cacheable(drvJob.fp) /\ k \in DOMAIN drvCache
      <4>1. drvJob.fp = Fingerprint
        BY <1>2, <2>2 DEF Lookup, JobInv, LoadedOK
      <4>2. drvCache[k].read = FreshRead /\ drvCache[k].header = FreshHeader
        BY <1>2, <3>2, <4>1, KeyTellsRead, NoHeader DEF CacheInv
      <4>3. /\ drvServed'.read = drvCache[k].read /\ drvServed'.header = drvCache[k].header
            /\ drvServed'.freshRead = FreshRead /\ drvServed'.freshHeader = FreshHeader
        BY <2>2, <3>2 DEF Lookup
      <4>4. QED
        BY <3>1, <4>2, <4>3 DEF NoStaleCheck
    <3>3. CASE ~ (is_cacheable(drvJob.fp) /\ k \in DOMAIN drvCache)
      BY <1>2, <2>2, <3>1, <3>3 DEF Lookup, NoStaleCheck
    <3>4. QED
      BY <3>2, <3>3
  <2>3. CASE FinishJob
    <3> DEFINE k == compute_key(drvJob.fp, drvJob.tier)
    <3>1. NoStaleCheck'
      BY <1>2, <2>3 DEF FinishJob, Answer, NoStaleCheck
    <3>2. CASE drvCache' = drvCache
      BY <1>2, <3>1, <3>2 DEF CacheInv
    <3>3. CASE /\ is_cacheable(drvJob.fp)
               /\ drvCache' = [x \in DOMAIN drvCache \cup {k} |->
                                 IF x = k THEN ResultOf(drvJob) ELSE drvCache[x]]
      <4>1. ResultOf(drvJob).read = ReadOf(k) /\ ResultOf(drvJob).header = 0
        BY <1>2, <2>3, <3>3, StoredIsFresh DEF ResultOf
      <4> HIDE DEF k
      <4>2. CacheInv'
        BY <1>2, <3>3, <4>1 DEF CacheInv
      <4>3. QED
        BY <3>1, <4>2
    <3>4. QED
      BY <2>3, <3>2, <3>3 DEF FinishJob
  <2>4. CASE ParseRoot
    BY <1>2, <2>4 DEF ParseRoot, Answer, CacheInv, NoStaleCheck
  <2>5. QED
    BY <1>2, <2>1, <2>2, <2>3, <2>4
       DEF drvNext, drvVars, StartJob, LoadsDone, VisitDone, SearchDone, Searching, RunStage,
           EditFile, EditHeader, CreateFile, LoadModule, VisitStart, VisitKid
<1>3. QED
  BY <1>1, <1>2, FilesInvariant, JobInvariant, LoadingIsComplete, PTL DEF drvSpec

(* -------------------------------- stages -------------------------------- *)

\* The stages before the back end, their barrier last, and those of the back end.
FrontOf(route) == IF route = "check" THEN CheckFront ELSE BuildFront
BackOf(route) == IF route = "check" THEN CheckBack ELSE BuildBack
FrontLen(route) == Len(FrontOf(route))
StageNames ==
  {"parse", "modules", "expand", "attributes", "resolve", "types", "effects", "comptime",
   "ownership", "security"} \cup Backend

LEMMA StageTables ==
  ASSUME NEW route
  PROVE  /\ StagesOf(route) = FrontOf(route) \o BackOf(route)
         /\ FrontOf(route) \in Seq(StageNames) /\ BackOf(route) \in Seq(StageNames)
         /\ \A j \in 1..FrontLen(route) : FrontOf(route)[j] \notin Backend \cup {"cycle", "ambiguous"}
         /\ FrontOf(route)[FrontLen(route)] \in Barriers(route)
         /\ \A j \in 1..Len(BackOf(route)) : BackOf(route)[j] \in Backend \ {"cycle", "ambiguous"}
         /\ FrontLen(route) \in Nat \ {0} /\ Len(BackOf(route)) \in Nat \ {0}
<1>1. CASE route = "check"
  <2>1. /\ StagesOf(route) = CheckStages /\ FrontOf(route) = CheckFront
        /\ BackOf(route) = CheckBack /\ Barriers(route) = CheckBarriers
    BY <1>1 DEF StagesOf, FrontOf, BackOf, Barriers
  <2>2. /\ CheckFront \in Seq(StageNames) /\ CheckBack \in Seq(StageNames)
        /\ \A j \in 1..Len(CheckFront) : CheckFront[j] \notin Backend \cup {"cycle", "ambiguous"}
        /\ CheckFront[Len(CheckFront)] \in CheckBarriers
        /\ \A j \in 1..Len(CheckBack) : CheckBack[j] \in Backend \ {"cycle", "ambiguous"}
        /\ Len(CheckFront) \in Nat \ {0} /\ Len(CheckBack) \in Nat \ {0}
    BY DEF CheckFront, CheckBack, Backend, CheckBarriers, StageNames
  <2>3. QED
    BY <2>1, <2>2 DEF CheckStages, FrontLen
<1>2. CASE route # "check"
  <2>1. /\ StagesOf(route) = BuildStages /\ FrontOf(route) = BuildFront
        /\ BackOf(route) = BuildBack /\ Barriers(route) = BuildBarriers
    BY <1>2 DEF StagesOf, FrontOf, BackOf, Barriers
  <2>2. /\ BuildFront \in Seq(StageNames) /\ BuildBack \in Seq(StageNames)
        /\ \A j \in 1..Len(BuildFront) : BuildFront[j] \notin Backend \cup {"cycle", "ambiguous"}
        /\ BuildFront[Len(BuildFront)] \in BuildBarriers
        /\ \A j \in 1..Len(BuildBack) : BuildBack[j] \in Backend \ {"cycle", "ambiguous"}
        /\ Len(BuildFront) \in Nat \ {0} /\ Len(BuildBack) \in Nat \ {0}
    BY DEF BuildFront, BuildBack, Backend, BuildBarriers, StageNames
  <2>3. QED
    BY <2>1, <2>2 DEF BuildStages, FrontLen
<1>3. QED
  BY <1>1, <1>2

LEMMA StageOrder ==
  ASSUME NEW route, NEW i \in 1..Len(StagesOf(route))
  PROVE  /\ i =< FrontLen(route) => StagesOf(route)[i] \notin Backend
         /\ i = FrontLen(route) => StagesOf(route)[i] \in Barriers(route)
         /\ i > FrontLen(route) => StagesOf(route)[i] \in Backend
         /\ StagesOf(route)[i] \notin {"cycle", "ambiguous"}
         /\ Len(StagesOf(route)) > FrontLen(route) /\ Len(StagesOf(route)) \in Nat
<1> DEFINE a == FrontOf(route)
           b == BackOf(route)
<1>1. /\ a \in Seq(StageNames) /\ b \in Seq(StageNames) /\ StagesOf(route) = a \o b
      /\ FrontLen(route) = Len(a) /\ Len(a) \in Nat \ {0} /\ Len(b) \in Nat \ {0}
      /\ \A j \in 1..Len(a) : a[j] \notin Backend \cup {"cycle", "ambiguous"}
      /\ a[Len(a)] \in Barriers(route)
      /\ \A j \in 1..Len(b) : b[j] \in Backend \ {"cycle", "ambiguous"}
  BY StageTables DEF FrontLen
<1> HIDE DEF a, b
<1>2. Len(StagesOf(route)) = Len(a) + Len(b)
  BY <1>1
<1>3. CASE i =< Len(a)
  <2>1. i \in 1..Len(a) /\ StagesOf(route)[i] = a[i]
    BY <1>1, <1>2, <1>3
  <2>2. QED
    BY <1>1, <1>2, <2>1
<1>4. CASE i > Len(a)
  <2>1. i - Len(a) \in 1..Len(b) /\ StagesOf(route)[i] = b[i - Len(a)]
    BY <1>1, <1>2, <1>4
  <2>2. QED
    BY <1>1, <1>2, <1>4, <2>1
<1>5. QED
  BY <1>1, <1>2, <1>3, <1>4

\* Up to the last barrier of the front end nothing of the back end has run; past it
\* only stages of the back end have reported errors.
StageInv ==
  /\ drvJob.at \in Nat \ {0}
  /\ drvJob.at =< FrontLen(drvJob.route) => drvJob.ran \cap Backend = {}
  /\ drvJob.at > FrontLen(drvJob.route) /\ drvJob.at =< Len(StagesOf(drvJob.route)) =>
       drvJob.errs \subseteq Backend
  /\ drvJob.ran \cap Backend # {} => drvJob.errs \subseteq Backend

LEMMA StageInvariant == drvSpec => []StageInv
<1>1. drvInit => StageInv
  BY StageTables DEF drvInit, NoJob, StageInv
<1>2. ASSUME JobInv, StageInv, [drvNext]_drvVars PROVE StageInv'
  <2>1. CASE UNCHANGED drvJob
    BY <1>2, <2>1 DEF StageInv
  <2>2. CASE drvJob' = NoJob \/ \E r \in {"check", "build"}, t \in 1..2 : StartJob(r, t)
    <3>1. drvJob'.at = 1 /\ drvJob'.ran = {}
      <4>1. CASE drvJob' = NoJob
        BY <4>1 DEF NoJob
      <4>2. ASSUME NEW r \in {"check", "build"}, NEW t \in 1..2, StartJob(r, t)
            PROVE  drvJob'.at = 1 /\ drvJob'.ran = {}
        BY <4>2 DEF NoJob, StartJob
      <4>3. QED
        BY <2>2, <4>1, <4>2
    <3>2. QED
      BY <3>1, StageTables DEF StageInv
  <2>3. CASE RunStage
    <3> DEFINE s == StagesOf(drvJob.route)[drvJob.at]
               errs == drvJob.errs \cup ({s} \cap drvDefects)
               all == Len(StagesOf(drvJob.route))
               front == FrontLen(drvJob.route)
    <3>1. /\ drvJob.route \in {"check", "build"} /\ drvJob.at \in 1..all
          /\ drvJob = [k \in DOMAIN NoJob |-> drvJob[k]]
      BY <1>2, <2>3, StageOrder DEF RunStage, JobInv, LoadedOK, StageInv
    <3>2. /\ drvJob'.errs = errs /\ drvJob'.ran = drvJob.ran \cup {s}
          /\ drvJob'.route = drvJob.route
          /\ drvJob'.at = IF s \in Barriers(drvJob.route) /\ errs # {} THEN all + 1 ELSE drvJob.at + 1
      BY <2>3, <3>1 DEF RunStage, NoJob
    <3>3. /\ drvJob.at =< front => s \notin Backend
          /\ drvJob.at = front => s \in Barriers(drvJob.route)
          /\ drvJob.at > front => s \in Backend
          /\ all > front /\ all \in Nat /\ front \in Nat
      BY <3>1, StageOrder, StageTables
    <3> HIDE DEF s, all, front
    <3>4. /\ drvJob.at \in Nat \ {0} /\ drvJob.at =< all
          /\ drvJob.at =< front => drvJob.ran \cap Backend = {}
          /\ drvJob.at > front => drvJob.errs \subseteq Backend
      BY <1>2, <3>1 DEF StageInv, all, front
    <3>5. /\ drvJob'.at \in Nat \ {0}
          /\ drvJob'.at =< front => drvJob'.ran \cap Backend = {}
          /\ drvJob'.at > front /\ drvJob'.at =< all => drvJob'.errs \subseteq Backend
          /\ drvJob'.ran \cap Backend # {} => drvJob'.errs \subseteq Backend
      <4>1. CASE drvJob.at < front
        BY <3>2, <3>3, <3>4, <4>1
      <4>2. CASE drvJob.at = front
        BY <3>2, <3>3, <3>4, <4>2
      <4>3. CASE drvJob.at > front
        BY <3>2, <3>3, <3>4, <4>3
      <4>4. QED
        BY <3>3, <3>4, <4>1, <4>2, <4>3
    <3>6. QED
      BY <3>2, <3>5 DEF StageInv, all, front
  <2>4. CASE drvJob.pc \in {"lookup", "parse", "load", "cycles"} /\ drvNext
    <3>1. drvJob.at = 1 /\ drvJob.ran \subseteq {"parse"} /\ drvJob = [k \in DOMAIN NoJob |-> drvJob[k]]
      BY <1>2, <2>4 DEF JobInv, LoadedOK
    <3>2. drvJob'.at = 1 /\ drvJob'.ran \subseteq {"parse"}
      <4>1. CASE Lookup \/ ParseRoot
        <5>1. \/ drvJob' = NoJob
              \/ drvJob' = [drvJob EXCEPT !.pc = "parse"]
              \/ drvJob' = [drvJob EXCEPT !.pc = "load", !.ran = {"parse"}]
          BY <4>1 DEF Lookup, ParseRoot
        <5>2. NoJob.at = 1 /\ NoJob.ran = {} /\ {"at", "ran"} \subseteq DOMAIN drvJob
          BY <3>1 DEF NoJob
        <5>3. QED
          BY <3>1, <5>1, <5>2
      <4>4. CASE LoadsDone
        BY <3>1, <4>4 DEF LoadsDone, NoJob
      <4>5. CASE VisitDone \/ SearchDone
        BY <3>1, <4>5 DEF VisitDone, SearchDone, NoJob
      <4>2. ASSUME NEW f \in SourceSet, LoadModule(f) \/ VisitStart(f) \/ VisitKid(f)
            PROVE  drvJob'.at = 1 /\ drvJob'.ran \subseteq {"parse"}
        BY <3>1, <4>2 DEF LoadModule, VisitStart, VisitKid, NoJob
      <4>3. QED
        BY <2>4, <4>1, <4>2, <4>4, <4>5
           DEF drvNext, StartJob, RunStage, FinishJob, EditFile, EditHeader, CreateFile
    <3>3. QED
      BY <3>2, StageTables DEF StageInv, Backend
  <2>5. QED
    BY <1>2, <2>1, <2>2, <2>3, <2>4
       DEF drvNext, drvVars, Lookup, ParseRoot, LoadsDone, VisitDone, SearchDone, Searching, LoadModule,
           VisitStart, VisitKid, FinishJob, EditFile, EditHeader, CreateFile
<1>3. QED
  BY <1>1, <1>2, JobInvariant, PTL DEF drvSpec

\* Nothing of the back end runs on a program that the front end rejected, on the check
\* or the build route, whatever errors the program has.
THEOREM RejectedStops == drvSpec => []RejectedIsNotLowered
<1>1. StageInv => RejectedIsNotLowered
  BY DEF StageInv, RejectedIsNotLowered
<1>2. QED
  BY <1>1, StageInvariant, PTL

(* --------------------------- the cycle search --------------------------- *)

\* the files a file imports, in the graph `targets`
Succ(f, targets) == targets[f] \ {<<>>}
OnCycle(f, targets) == f \in Reached(Succ(f, targets), targets)
Frames(D) == [node : D, kids : SUBSET D]

\* The stack is a path of distinct nodes, the ones marked 1, each reached from those
\* below it.
SearchShape(D, targets, mark, work) ==
  /\ mark \in [D -> 0..2] /\ work \in Seq(Frames(D))
  /\ \A i \in 1..Len(work) : work[i].kids \subseteq Succ(work[i].node, targets)
  /\ \A f \in D : mark[f] = 1 <=> \E i \in 1..Len(work) : work[i].node = f
  /\ \A i, j \in 1..Len(work) : i < j =>
       /\ work[i].node # work[j].node
       /\ work[j].node \in Reached(Succ(work[i].node, targets), targets)

\* As long as no cycle has been found, a target that was looked at is done or is the next
\* node of the stack; what is done imports only what is done and is on no cycle.
SearchClean(D, targets, mark, work) ==
  /\ \A i \in 1..Len(work) : \A k \in Succ(work[i].node, targets) \ work[i].kids :
       mark[k] = 2 \/ (i < Len(work) /\ k = work[i + 1].node)
  /\ \A f \in D : mark[f] = 2 =>
       ~ OnCycle(f, targets) /\ \A k \in Succ(f, targets) : mark[k] = 2

SearchState(D, targets, mark, work, errs) ==
  /\ SearchShape(D, targets, mark, work)
  /\ "cycle" \notin errs => SearchClean(D, targets, mark, work)
  /\ "cycle" \in errs => \E f \in D : OnCycle(f, targets)

\* the stack once the target k of the node on top has been looked at
LookedAt(work, k, rest) ==
  /\ Len(rest) = Len(work)
  /\ \A i \in 1..Len(work) :
       /\ rest[i].node = work[i].node
       /\ rest[i].kids = IF i = Len(work) THEN work[i].kids \ {k} ELSE work[i].kids
\* every node of the stack leads to k
LeadsTo(work, k, targets) ==
  \A i \in 1..Len(work) : k \in Reached(Succ(work[i].node, targets), targets)
\* what the lemmas assume of the graph
SearchedGraph(D, targets) ==
  /\ D \subseteq DOMAIN targets /\ Closed(D, targets) /\ WellTargeted(targets)

LEMMA SuccReached ==
  ASSUME NEW D, NEW targets, SearchedGraph(D, targets), NEW f \in D
  PROVE  /\ Succ(f, targets) \subseteq D
         /\ Succ(f, targets) \subseteq Reached(Succ(f, targets), targets)
         /\ Closed(Reached(Succ(f, targets), targets), targets)
<1>1. Succ(f, targets) \subseteq D /\ D \subseteq DOMAIN targets
  BY DEF SearchedGraph, Closed, Succ
<1>2. QED
  BY <1>1, ReachedContains, ReachedIsClosed DEF SearchedGraph

LEMMA FramesHold ==
  ASSUME NEW D, NEW work \in Seq(Frames(D)), NEW i \in 1..Len(work)
  PROVE  work[i].node \in D /\ work[i].kids \subseteq D
<1>1. work[i] \in Frames(D)
  OBVIOUS
<1>2. QED
  BY <1>1 DEF Frames

\* The search begins with nothing marked.
LEMMA SearchBegins ==
  ASSUME NEW D, NEW targets, NEW errs, "cycle" \notin errs
  PROVE  SearchState(D, targets, [f \in D |-> 0], <<>>, errs)
<1>1. <<>> \in Seq(Frames(D)) /\ Len(<<>>) = 0
  OBVIOUS
<1>2. QED
  BY <1>1 DEF SearchState, SearchShape, SearchClean

\* A file enters the stack: the first one, or a target k of the node on top.
LEMMA EnterKeeps ==
  ASSUME NEW D, NEW targets, SearchedGraph(D, targets), NEW mark, NEW work, NEW errs,
         SearchState(D, targets, mark, work, errs),
         NEW k \in D, mark[k] = 0,
         LeadsTo(work, k, targets), NEW rest \in Seq(Frames(D)), LookedAt(work, k, rest)
  PROVE  SearchState(D, targets, [mark EXCEPT ![k] = 1],
                     Append(rest, [node |-> k, kids |-> Succ(k, targets)]), errs)
<1> DEFINE n == Len(work)
           new == Append(rest, [node |-> k, kids |-> Succ(k, targets)])
           m == [mark EXCEPT ![k] = 1]
<1>1. n \in Nat /\ mark \in [D -> 0..2] /\ work \in Seq(Frames(D))
  BY DEF SearchState, SearchShape
<1> USE DEF LookedAt, LeadsTo
<1>2. [node |-> k, kids |-> Succ(k, targets)] \in Frames(D)
  BY SuccReached DEF Frames
<1>3. /\ new \in Seq(Frames(D)) /\ Len(new) = n + 1
      /\ \A i \in 1..n : new[i] = rest[i]
      /\ new[n + 1] = [node |-> k, kids |-> Succ(k, targets)]
  BY <1>1, <1>2, AppendProperties
<1> HIDE DEF new
<1>4. /\ \A i \in 1..n : new[i].node = work[i].node /\ new[i].kids \subseteq work[i].kids
      /\ new[n + 1].node = k /\ new[n + 1].kids = Succ(k, targets)
  <2>1. new[n + 1].node = k /\ new[n + 1].kids = Succ(k, targets)
    BY <1>3
  <2>2. ASSUME NEW i \in 1..n PROVE new[i].node = work[i].node /\ new[i].kids \subseteq work[i].kids
    <3>1. new[i] = rest[i] /\ rest[i].node = work[i].node
      BY <1>3
    <3>2. rest[i].kids = IF i = Len(work) THEN work[i].kids \ {k} ELSE work[i].kids
      OBVIOUS
    <3>3. QED
      BY <3>1, <3>2
  <2>3. QED
    BY <2>1, <2>2
<1>5. m \in [D -> 0..2] /\ m[k] = 1 /\ \A f \in D \ {k} : m[f] = mark[f]
  BY <1>1
<1> HIDE DEF m
<1>6. SearchShape(D, targets, m, new)
  <2>1. \A i \in 1..n + 1 : new[i].kids \subseteq Succ(new[i].node, targets)
    BY <1>1, <1>4 DEF SearchState, SearchShape
  <2>2. ASSUME NEW f \in D PROVE m[f] = 1 <=> \E i \in 1..n + 1 : new[i].node = f
    <3>1. mark[f] = 1 <=> \E i \in 1..n : work[i].node = f
      BY DEF SearchState, SearchShape
    <3>2. CASE f = k
      BY <1>1, <1>4, <1>5, <3>2
    <3>3. CASE f # k
      <4>1. (\E i \in 1..n + 1 : new[i].node = f) <=> \E i \in 1..n : work[i].node = f
        BY <1>1, <1>4, <3>3
      <4>2. QED
        BY <1>5, <3>1, <3>3, <4>1
    <3>4. QED
      BY <3>2, <3>3
  <2>3. ASSUME NEW i \in 1..n + 1, NEW j \in 1..n + 1, i < j
        PROVE  /\ new[i].node # new[j].node
               /\ new[j].node \in Reached(Succ(new[i].node, targets), targets)
    <3>1. i \in 1..n /\ new[i].node = work[i].node
      BY <1>1, <1>4, <2>3
    <3>2. CASE j \in 1..n
      BY <1>4, <2>3, <3>1, <3>2 DEF SearchState, SearchShape
    <3>3. CASE j = n + 1
      <4>1. work[i].node \in D
        BY <1>1, <3>1, FramesHold
      <4>2. mark[work[i].node] = 1
        BY <3>1, <4>1 DEF SearchState, SearchShape
      <4>3. QED
        BY <1>4, <3>1, <3>3, <4>2
    <3>4. QED
      BY <1>1, <3>2, <3>3
  <2>4. QED
    BY <1>3, <1>5, <2>1, <2>2, <2>3 DEF SearchShape
<1>7. ASSUME "cycle" \notin errs PROVE SearchClean(D, targets, m, new)
  <2>1. SearchClean(D, targets, mark, work)
    BY <1>7 DEF SearchState
  <2>2. ASSUME NEW f \in D, mark[f] = 2 PROVE m[f] = 2
    BY <1>5, <2>2
  <2>3. ASSUME NEW i \in 1..n + 1, NEW g \in Succ(new[i].node, targets) \ new[i].kids
        PROVE  m[g] = 2 \/ (i < n + 1 /\ g = new[i + 1].node)
    <3>1. i \in 1..n /\ new[i].node = work[i].node
      BY <1>1, <1>4, <2>3
    <3>2. work[i].node \in D /\ g \in D
      <4>1. work[i].node \in D
        BY <1>1, <3>1, FramesHold
      <4>2. QED
        BY <3>1, <4>1, SuccReached
    <3>3. CASE g \in work[i].kids
      <4>1. i = n /\ g = k
        BY <1>1, <1>3, <2>3, <3>1, <3>3
      <4>2. QED
        BY <1>1, <1>4, <4>1
    <3>4. CASE g \notin work[i].kids
      <4>1. mark[g] = 2 \/ (i < n /\ g = work[i + 1].node)
        BY <2>1, <3>1, <3>4, <2>3 DEF SearchClean
      <4>2. QED
        BY <1>1, <1>4, <2>2, <3>1, <3>2, <4>1
    <3>5. QED
      BY <3>3, <3>4
  <2>4. ASSUME NEW f \in D, m[f] = 2
        PROVE  ~ OnCycle(f, targets) /\ \A g \in Succ(f, targets) : m[g] = 2
    <3>1. mark[f] = 2
      BY <1>5, <2>4
    <3>2. Succ(f, targets) \subseteq D
      BY SuccReached
    <3>3. QED
      BY <2>1, <2>2, <3>1, <3>2 DEF SearchClean
  <2>5. QED
    BY <1>3, <2>3, <2>4 DEF SearchClean
<1>8. QED
  BY <1>6, <1>7 DEF SearchState, new, m
\* A target k of the node on top is looked at and not entered: it is done, or it is on the
\* stack, and then it is on a cycle.
LEMMA SkipKeeps ==
  ASSUME NEW D, NEW targets, SearchedGraph(D, targets), NEW mark, NEW work, NEW errs,
         SearchState(D, targets, mark, work, errs), work # <<>>,
         NEW k \in work[Len(work)].kids, mark[k] \in {1, 2},
         NEW rest \in Seq(Frames(D)), LookedAt(work, k, rest),
         NEW more, "cycle" \in more <=> "cycle" \in errs \/ mark[k] = 1
  PROVE  SearchState(D, targets, mark, rest, more)
<1> DEFINE n == Len(work)
<1>1. /\ n \in Nat \ {0} /\ mark \in [D -> 0..2] /\ work \in Seq(Frames(D))
      /\ SearchShape(D, targets, mark, work)
  BY EmptySeq DEF SearchState, SearchShape
<1> USE DEF LookedAt
<1>2. \A i \in 1..n : rest[i].node = work[i].node /\ rest[i].kids \subseteq work[i].kids
  <2> TAKE i \in 1..n
  <2>1. /\ rest[i].node = work[i].node
        /\ rest[i].kids = IF i = Len(work) THEN work[i].kids \ {k} ELSE work[i].kids
    OBVIOUS
  <2>2. QED
    BY <2>1
<1>3. SearchShape(D, targets, mark, rest)
  <2>1. \A i \in 1..n : rest[i].kids \subseteq Succ(rest[i].node, targets)
    BY <1>1, <1>2 DEF SearchShape
  <2>2. \A f \in D : (\E i \in 1..n : rest[i].node = f) <=> \E i \in 1..n : work[i].node = f
    BY <1>2
  <2>3. QED
    BY <1>1, <1>2, <2>1, <2>2 DEF SearchShape
<1>4. work[n].node \in D /\ k \in D /\ k \in Succ(work[n].node, targets)
  <2>1. n \in 1..n
    BY <1>1
  <2>2. QED
    BY <1>1, <2>1, FramesHold DEF SearchShape
<1>5. CASE mark[k] = 1
  <2>1. PICK i \in 1..n : work[i].node = k
    BY <1>1, <1>4, <1>5 DEF SearchShape
  <2>2. work[n].node = k \/ work[n].node \in Reached(Succ(k, targets), targets)
    BY <1>1, <2>1 DEF SearchShape
  <2>3. OnCycle(k, targets)
    <3>1. /\ Succ(k, targets) \subseteq Reached(Succ(k, targets), targets)
          /\ Closed(Reached(Succ(k, targets), targets), targets)
      BY <1>4, SuccReached
    <3>2. QED
      BY <1>4, <2>2, <3>1 DEF OnCycle, Closed, Succ
  <2>4. QED
    BY <1>3, <1>4, <1>5, <2>3 DEF SearchState
<1>6. CASE mark[k] = 2
  <2>1. ASSUME "cycle" \notin errs PROVE SearchClean(D, targets, mark, rest)
    <3>1. SearchClean(D, targets, mark, work)
      BY <2>1 DEF SearchState
    <3>2. ASSUME NEW i \in 1..n, NEW g \in Succ(rest[i].node, targets) \ rest[i].kids
          PROVE  mark[g] = 2 \/ (i < n /\ g = rest[i + 1].node)
      <4>1. rest[i].node = work[i].node /\ (g \in work[i].kids => g = k)
        <5>1. /\ rest[i].node = work[i].node
              /\ rest[i].kids = IF i = Len(work) THEN work[i].kids \ {k} ELSE work[i].kids
          OBVIOUS
        <5>2. QED
          BY <3>2, <5>1
      <4>2. CASE g = k
        BY <1>6, <4>2
      <4>3. CASE g # k
        <5>1. mark[g] = 2 \/ (i < n /\ g = work[i + 1].node)
          BY <3>1, <3>2, <4>1, <4>3 DEF SearchClean
        <5>2. QED
          BY <1>1, <1>2, <5>1
      <4>4. QED
        BY <4>2, <4>3
    <3>3. QED
      BY <3>1, <3>2 DEF SearchClean
  <2>2. mark[k] # 1
    BY <1>6
  <2>3. QED
    BY <1>3, <2>1, <2>2 DEF SearchState
<1>7. QED
  BY <1>5, <1>6

\* The node on top has no target left: it is done.  If nothing was found, what is done
\* is closed under the imports and does not hold the node, so that no path leads back.
LEMMA LeaveKeeps ==
  ASSUME NEW D, NEW targets, SearchedGraph(D, targets), NEW mark, NEW work, NEW errs,
         SearchState(D, targets, mark, work, errs), work # <<>>, work[Len(work)].kids = {}
  PROVE  SearchState(D, targets, [mark EXCEPT ![work[Len(work)].node] = 2], Front(work), errs)
<1> DEFINE n == Len(work)
           f == work[n].node
           m == [mark EXCEPT ![f] = 2]
           new == Front(work)
<1>1. /\ n \in Nat \ {0} /\ mark \in [D -> 0..2] /\ work \in Seq(Frames(D))
      /\ SearchShape(D, targets, mark, work)
  BY EmptySeq DEF SearchState, SearchShape
<1>2. /\ new \in Seq(Frames(D)) /\ Len(new) = n - 1
      /\ \A i \in 1..n - 1 : new[i] = work[i]
  <2>1. new = SubSeq(work, 1, n - 1) /\ n - 1 \in Nat
    BY <1>1 DEF Front
  <2>2. \A i \in 1..n - 1 : work[i] \in Frames(D)
    BY <1>1
  <2>3. /\ SubSeq(work, 1, n - 1) \in Seq(Frames(D))
        /\ Len(SubSeq(work, 1, n - 1)) = (IF 1 =< n - 1 THEN n - 1 - 1 + 1 ELSE 0)
        /\ \A i \in 1..n - 1 - 1 + 1 : SubSeq(work, 1, n - 1)[i] = work[1 + i - 1]
    BY <1>1, <2>2, SubSeqProperties
  <2> HIDE DEF new
  <2>4. new \in Seq(Frames(D)) /\ Len(new) = n - 1
    <3>1. new \in Seq(Frames(D)) /\ Len(new) = IF 1 =< n - 1 THEN n - 1 - 1 + 1 ELSE 0
      BY <2>1, <2>3
    <3>2. CASE n = 1
      BY <3>1, <3>2
    <3>3. CASE n > 1
      BY <1>1, <3>1, <3>3
    <3>4. n = 1 \/ n > 1
      <4>1. n \in Nat /\ n # 0
        BY <1>1
      <4> HIDE DEF n
      <4>2. QED
        BY <4>1
    <3>5. QED
      BY <3>2, <3>3, <3>4
  <2>5. ASSUME NEW i \in 1..n - 1 PROVE new[i] = work[i]
    <3>1. i \in 1..n - 1 - 1 + 1 /\ 1 + i - 1 = i
      BY <1>1
    <3>2. new[i] = work[1 + i - 1]
      BY <2>1, <2>3, <3>1
    <3>3. QED
      BY <3>1, <3>2
  <2>6. QED
    BY <2>4, <2>5
<1>3. f \in D /\ mark[f] = 1 /\ n \in 1..n
  <2>1. n \in 1..n
    BY <1>1
  <2>2. f \in D
    BY <1>1, <2>1, FramesHold
  <2>3. QED
    BY <1>1, <2>1, <2>2 DEF SearchShape
<1>4. m \in [D -> 0..2] /\ m[f] = 2 /\ \A g \in D \ {f} : m[g] = mark[g]
  BY <1>1, <1>3
<1> HIDE DEF new, m, f
<1>5. SearchShape(D, targets, m, new)
  <2>1. \A i \in 1..n - 1 : work[i].node # f
    BY <1>1 DEF SearchShape, f
  <2>2. ASSUME NEW g \in D PROVE m[g] = 1 <=> \E i \in 1..n - 1 : work[i].node = g
    <3>1. mark[g] = 1 <=> \E i \in 1..n : work[i].node = g
      BY <1>1 DEF SearchShape
    <3>2. CASE g = f
      BY <1>4, <2>1, <3>2
    <3>3. CASE g # f
      BY <1>1, <1>4, <3>1, <3>3 DEF f
    <3>4. QED
      BY <3>2, <3>3
  <2>3. \A i, j \in 1..n - 1 : i < j =>
          /\ work[i].node # work[j].node
          /\ work[j].node \in Reached(Succ(work[i].node, targets), targets)
    BY <1>1 DEF SearchShape
  <2>4. \A i \in 1..n - 1 : work[i].kids \subseteq Succ(work[i].node, targets)
    BY <1>1 DEF SearchShape
  <2>5. QED
    BY <1>2, <1>4, <2>2, <2>3, <2>4 DEF SearchShape
<1>6. ASSUME "cycle" \notin errs PROVE SearchClean(D, targets, m, new)
  <2>1. SearchClean(D, targets, mark, work)
    BY <1>6 DEF SearchState
  <2>2. Succ(f, targets) \subseteq D /\ \A g \in Succ(f, targets) : mark[g] = 2
    <3>1. Succ(f, targets) \subseteq D
      BY <1>3, SuccReached
    <3>2. ASSUME NEW g \in Succ(f, targets) PROVE mark[g] = 2
      BY <1>1, <1>3, <2>1, <3>2 DEF SearchClean, f
    <3>3. QED
      BY <3>1, <3>2
  <2>3. ~ OnCycle(f, targets)
    <3> DEFINE C == {g \in D : mark[g] = 2}
    <3>1. Closed(C, targets)
      <4>1. ASSUME NEW g \in C, NEW h \in targets[g] \ {<<>>} PROVE h \in C
        <5>1. h \in Succ(g, targets) /\ h \in D
          BY <4>1 DEF SearchedGraph, Closed, Succ
        <5>2. QED
          BY <2>1, <5>1 DEF SearchClean
      <4>2. QED
        BY <4>1 DEF Closed
    <3>2. C \subseteq DOMAIN targets /\ Succ(f, targets) \subseteq C /\ f \notin C
      BY <1>3, <2>2 DEF SearchedGraph
    <3> HIDE DEF C
    <3>3. Reached(Succ(f, targets), targets) \subseteq C
      BY <3>1, <3>2, ReachedIsLeast
    <3>4. QED
      BY <3>2, <3>3 DEF OnCycle
  <2>4. \A g \in D : mark[g] = 2 => m[g] = 2
    BY <1>4
  <2>5. ASSUME NEW i \in 1..n - 1, NEW g \in Succ(work[i].node, targets) \ work[i].kids
        PROVE  m[g] = 2 \/ (i < n - 1 /\ g = work[i + 1].node)
    <3>1. i \in 1..n /\ work[i].node \in D
      BY <1>1, FramesHold
    <3>2. g \in D
      BY <3>1, SuccReached
    <3>3. mark[g] = 2 \/ (i < n /\ g = work[i + 1].node)
      BY <2>1, <2>5, <3>1 DEF SearchClean
    <3>4. i = n - 1 => work[i + 1].node = f
      BY <1>1 DEF f
    <3>5. QED
      BY <1>1, <1>4, <2>4, <3>2, <3>3, <3>4
  <2>6. ASSUME NEW g \in D, m[g] = 2
        PROVE  ~ OnCycle(g, targets) /\ \A h \in Succ(g, targets) : m[h] = 2
    <3>1. CASE g = f
      BY <2>2, <2>3, <2>4, <3>1
    <3>2. CASE g # f
      <4>1. mark[g] = 2 /\ Succ(g, targets) \subseteq D
        BY <1>4, <2>6, <3>2, SuccReached
      <4>2. QED
        BY <2>1, <2>4, <4>1 DEF SearchClean
    <3>3. QED
      BY <3>1, <3>2
  <2>7. QED
    BY <1>1, <1>2, <2>5, <2>6 DEF SearchClean
<1>7. SearchState(D, targets, m, new, errs)
  BY <1>5, <1>6 DEF SearchState
<1>8. QED
  BY <1>7 DEF new, m, f

\* The search in the driver.
SearchInv ==
  /\ drvJob.pc \in {"idle", "lookup", "parse", "load"} => drvJob.work = <<>> /\ "cycle" \notin drvJob.errs
  /\ drvJob.pc \in {"cycles", "stages"} =>
       SearchState(DOMAIN drvJob.deps, LoaderTargets, drvJob.mark, drvJob.work, drvJob.errs)
  /\ drvJob.pc = "stages" => drvJob.work = <<>> /\ \A f \in DOMAIN drvJob.deps : drvJob.mark[f] # 0

\* The graph that is searched is the loader's on the files that were loaded.
LEMMA SearchedFiles ==
  ASSUME FilesOK, JobInv, ExplicitFiles = {}, drvJob.pc # "idle", Frontier = {}
  PROVE  /\ SearchedGraph(DOMAIN drvJob.deps, LoaderTargets)
         /\ \A f \in DOMAIN drvJob.deps :
              drvJob.deps[f] \cap DOMAIN drvJob.deps = Succ(f, LoaderTargets)
<1> DEFINE D == DOMAIN drvJob.deps
<1>1. LoadedOK /\ D = DOMAIN drvJob.read /\ \A f \in D : drvJob.deps[f] = Succ(f, LoaderTargets)
  BY DEF JobInv, LoadedOK, Succ
<1>2. D \subseteq DOMAIN LoaderTargets /\ WellTargeted(LoaderTargets)
  BY <1>1, FreshIsClosed, TargetsAreFiles DEF LoadedOK
<1>3. Closed(D, LoaderTargets)
  <2> SUFFICES ASSUME NEW f \in D, NEW m \in LoaderTargets[f] \ {<<>>} PROVE m \in D
    BY DEF Closed
  <2>1. m \in UNION {LoaderTargets[g] : g \in DOMAIN drvJob.read}
    BY <1>1
  <2>2. QED
    BY <1>1, <2>1 DEF Frontier
<1>4. \A f \in D : Succ(f, LoaderTargets) \subseteq D
  BY <1>3 DEF Closed, Succ
<1>5. QED
  BY <1>1, <1>2, <1>3, <1>4 DEF SearchedGraph

LEMMA StartSearch ==
  ASSUME FilesOK, JobInv, SearchInv, LoadsDone
  PROVE  SearchInv'
<1>1. /\ drvJob.pc = "load" /\ drvJob = [k \in DOMAIN NoJob |-> drvJob[k]] /\ drvJob.work = <<>>
      /\ "cycle" \notin drvJob.errs
  BY DEF JobInv, LoadsDone, SearchInv
<1>2. /\ drvJob'.pc = "cycles" /\ drvJob'.deps = drvJob.deps /\ drvJob'.work = <<>>
      /\ drvJob'.mark = [f \in DOMAIN drvJob.deps |-> 0] /\ "cycle" \notin drvJob'.errs
  BY <1>1 DEF LoadsDone, NoJob
<1>3. QED
  BY <1>2, SearchBegins DEF SearchInv

LEMMA SearchHolds ==
  ASSUME FilesOK, JobInv, SearchInv, ExplicitFiles = {}, drvJob.pc = "cycles"
  PROVE  /\ drvJob = [k \in DOMAIN NoJob |-> drvJob[k]]
         /\ SearchState(DOMAIN drvJob.deps, LoaderTargets, drvJob.mark, drvJob.work, drvJob.errs)
         /\ SearchedGraph(DOMAIN drvJob.deps, LoaderTargets)
         /\ \A f \in DOMAIN drvJob.deps :
              drvJob.deps[f] \cap DOMAIN drvJob.deps = Succ(f, LoaderTargets)
         /\ drvJob.mark \in [DOMAIN drvJob.deps -> 0..2]
         /\ drvJob.work \in Seq(Frames(DOMAIN drvJob.deps)) /\ Len(drvJob.work) \in Nat
<1>1. drvJob = [k \in DOMAIN NoJob |-> drvJob[k]] /\ LoadedOK
  BY DEF JobInv
<1>2. Frontier = {}
  BY <1>1 DEF LoadedOK
<1>3. SearchState(DOMAIN drvJob.deps, LoaderTargets, drvJob.mark, drvJob.work, drvJob.errs)
  BY DEF SearchInv
<1>4. /\ SearchedGraph(DOMAIN drvJob.deps, LoaderTargets)
      /\ \A f \in DOMAIN drvJob.deps :
           drvJob.deps[f] \cap DOMAIN drvJob.deps = Succ(f, LoaderTargets)
  BY <1>2, SearchedFiles
<1>5. /\ drvJob.mark \in [DOMAIN drvJob.deps -> 0..2]
      /\ drvJob.work \in Seq(Frames(DOMAIN drvJob.deps))
  BY <1>3 DEF SearchState, SearchShape
<1>6. Len(drvJob.work) \in Nat
  BY <1>5
<1>7. QED
  BY <1>1, <1>3, <1>4, <1>5, <1>6

LEMMA SearchDoneKeeps ==
  ASSUME FilesOK, JobInv, SearchInv, ExplicitFiles = {}, SearchDone
  PROVE  SearchInv'
<1> DEFINE D == DOMAIN drvJob.deps
           L == LoaderTargets
           work == drvJob.work
           n == Len(work)
<1>0. /\ UNCHANGED Inputs /\ L' = L /\ drvJob = [k \in DOMAIN NoJob |-> drvJob[k]]
      /\ drvJob.pc = "cycles"
      /\ SearchState(D, L, drvJob.mark, work, drvJob.errs) /\ SearchedGraph(D, L)
      /\ \A f \in D : drvJob.deps[f] \cap D = Succ(f, L)
      /\ drvJob.mark \in [D -> 0..2] /\ work \in Seq(Frames(D)) /\ n \in Nat
  BY InputsFix, SearchHolds DEF SearchDone, Searching
<1>1. /\ drvJob'.pc = "stages" /\ drvJob'.deps = drvJob.deps /\ drvJob'.mark = drvJob.mark
      /\ drvJob'.work = <<>> /\ drvJob'.errs = drvJob.errs /\ work = <<>>
      /\ \A f \in D : drvJob.mark[f] # 0
  BY <1>0 DEF SearchDone, NoJob
<1>2. QED
  BY <1>0, <1>1 DEF SearchInv

LEMMA VisitDoneKeeps ==
  ASSUME FilesOK, JobInv, SearchInv, ExplicitFiles = {}, VisitDone
  PROVE  SearchInv'
<1> DEFINE D == DOMAIN drvJob.deps
           L == LoaderTargets
           work == drvJob.work
           n == Len(work)
<1>0. /\ UNCHANGED Inputs /\ L' = L /\ drvJob = [k \in DOMAIN NoJob |-> drvJob[k]]
      /\ drvJob.pc = "cycles"
      /\ SearchState(D, L, drvJob.mark, work, drvJob.errs) /\ SearchedGraph(D, L)
      /\ \A f \in D : drvJob.deps[f] \cap D = Succ(f, L)
      /\ drvJob.mark \in [D -> 0..2] /\ work \in Seq(Frames(D)) /\ n \in Nat
  BY InputsFix, SearchHolds DEF VisitDone, Searching
<1>1. /\ drvJob'.pc = "cycles" /\ drvJob'.deps = drvJob.deps /\ drvJob'.errs = drvJob.errs
      /\ drvJob'.mark = [drvJob.mark EXCEPT ![work[n].node] = 2]
      /\ drvJob'.work = Front(work) /\ work # <<>> /\ work[n].kids = {}
  BY <1>0 DEF VisitDone, Searching, Top, NoJob
<1>2. SearchState(D, L, [drvJob.mark EXCEPT ![work[n].node] = 2], Front(work), drvJob.errs)
  BY <1>0, <1>1, LeaveKeeps
<1>3. QED
  BY <1>0, <1>1, <1>2 DEF SearchInv

LEMMA VisitStartKeeps ==
  ASSUME FilesOK, JobInv, SearchInv, ExplicitFiles = {},
         NEW f \in SourceSet, VisitStart(f)
  PROVE  SearchInv'
<1> DEFINE D == DOMAIN drvJob.deps
           L == LoaderTargets
           work == drvJob.work
           n == Len(work)
<1>0. /\ UNCHANGED Inputs /\ L' = L /\ drvJob = [k \in DOMAIN NoJob |-> drvJob[k]]
      /\ drvJob.pc = "cycles"
      /\ SearchState(D, L, drvJob.mark, work, drvJob.errs) /\ SearchedGraph(D, L)
      /\ \A x \in D : drvJob.deps[x] \cap D = Succ(x, L)
      /\ drvJob.mark \in [D -> 0..2] /\ work \in Seq(Frames(D)) /\ n \in Nat
  BY InputsFix, SearchHolds DEF VisitStart, Searching
<1>1. /\ drvJob'.pc = "cycles" /\ drvJob'.deps = drvJob.deps /\ drvJob'.errs = drvJob.errs
      /\ drvJob'.mark = [drvJob.mark EXCEPT ![f] = 1]
      /\ drvJob'.work = Append(work, [node |-> f, kids |-> drvJob.deps[f] \cap D])
      /\ work = <<>> /\ f \in D /\ drvJob.mark[f] = 0
  <2>1. /\ work = <<>> /\ f \in D /\ drvJob.mark[f] = 0
        /\ drvJob' = [drvJob EXCEPT !.mark[f] = 1, !.work = Push(@, f)]
    BY DEF VisitStart
  <2>2. QED
    BY <1>0, <2>1 DEF Push, NoJob
<1>2. drvJob.deps[f] \cap D = Succ(f, L)
  BY <1>0, <1>1
<1>3. SearchState(D, L, [drvJob.mark EXCEPT ![f] = 1],
                  Append(work, [node |-> f, kids |-> Succ(f, L)]), drvJob.errs)
  <2>1. n = 0
    BY <1>1
  <2>2. LeadsTo(work, f, L) /\ LookedAt(work, f, work)
    BY <2>1 DEF LeadsTo, LookedAt
  <2> HIDE DEF D, L, work, n
  <2>3. QED
    BY <1>0, <1>1, <2>2, EnterKeeps
<1>4. QED
  BY <1>0, <1>1, <1>2, <1>3 DEF SearchInv

LEMMA VisitKidKeeps ==
  ASSUME FilesOK, JobInv, SearchInv, ExplicitFiles = {},
         NEW k \in SourceSet, VisitKid(k)
  PROVE  SearchInv'
<1> DEFINE D == DOMAIN drvJob.deps
           L == LoaderTargets
           work == drvJob.work
           n == Len(work)
<1>0. /\ UNCHANGED Inputs /\ L' = L /\ drvJob = [x \in DOMAIN NoJob |-> drvJob[x]]
      /\ drvJob.pc = "cycles"
      /\ SearchState(D, L, drvJob.mark, work, drvJob.errs) /\ SearchedGraph(D, L)
      /\ \A f \in D : drvJob.deps[f] \cap D = Succ(f, L)
      /\ drvJob.mark \in [D -> 0..2] /\ work \in Seq(Frames(D)) /\ n \in Nat
  BY InputsFix, SearchHolds DEF VisitKid, Searching
<1> DEFINE rest == [work EXCEPT ![n].kids = @ \ {k}]
<1>1. work # <<>> /\ k \in work[n].kids /\ n \in 1..n
  <2>1. work # <<>> /\ k \in work[n].kids
    BY DEF VisitKid, Top
  <2>2. QED
    BY <1>0, <2>1, EmptySeq
<1>2. work[n].node \in D /\ k \in D /\ k \in Succ(work[n].node, L)
  BY <1>0, <1>1, FramesHold DEF SearchState, SearchShape
<1>3. rest \in Seq(Frames(D)) /\ LookedAt(work, k, rest)
  <2> DEFINE top == [work[n] EXCEPT !.kids = @ \ {k}]
  <2>1. top \in Frames(D) /\ top.node = work[n].node /\ top.kids = work[n].kids \ {k}
    <3>1. work[n] \in Frames(D)
      BY <1>0, <1>1
    <3>2. QED
      BY <3>1 DEF Frames
  <2>2. rest = [work EXCEPT ![n] = top]
    OBVIOUS
  <2> HIDE DEF top, rest
  <2>3. rest \in Seq(Frames(D)) /\ Len(rest) = n
        /\ \A i \in 1..n : rest[i] = IF i = n THEN top ELSE work[i]
    BY <1>0, <1>1, <2>1, <2>2, ExceptSeq
  <2>4. QED
    BY <2>1, <2>3 DEF LookedAt
<1> HIDE DEF rest
<1>4. ASSUME drvJob.mark[k] = 0,
             drvJob' = [drvJob EXCEPT !.mark[k] = 1, !.work = Push(rest, k)]
      PROVE  SearchInv'
  <2>1. /\ drvJob'.pc = "cycles" /\ drvJob'.deps = drvJob.deps /\ drvJob'.errs = drvJob.errs
        /\ drvJob'.mark = [drvJob.mark EXCEPT ![k] = 1]
        /\ drvJob'.work = Append(rest, [node |-> k, kids |-> Succ(k, L)])
    BY <1>0, <1>2, <1>4 DEF Push, NoJob
  <2>2. ASSUME NEW i \in 1..n PROVE k \in Reached(Succ(work[i].node, L), L)
    <3>1. work[i].node \in D
      BY <1>0, FramesHold
    <3>2. /\ Succ(work[i].node, L) \subseteq Reached(Succ(work[i].node, L), L)
          /\ Closed(Reached(Succ(work[i].node, L), L), L)
      BY <1>0, <3>1, SuccReached
    <3>3. CASE i = n
      BY <1>2, <3>2, <3>3
    <3>4. CASE i # n
      <4>1. work[n].node \in Reached(Succ(work[i].node, L), L)
        <5>1. SearchShape(D, L, drvJob.mark, work) /\ i < n
          BY <1>0, <3>4 DEF SearchState
        <5>2. QED
          BY <1>1, <5>1 DEF SearchShape
      <4>2. QED
        BY <1>2, <3>2, <4>1 DEF Closed, Succ
    <3>5. QED
      BY <3>3, <3>4
  <2>3. SearchState(D, L, [drvJob.mark EXCEPT ![k] = 1],
                    Append(rest, [node |-> k, kids |-> Succ(k, L)]), drvJob.errs)
    <3>1. LeadsTo(work, k, L)
      BY <2>2 DEF LeadsTo
    <3> HIDE DEF D, L, work, n
    <3>2. QED
      BY <1>0, <1>2, <1>3, <1>4, <3>1, EnterKeeps
  <2>4. QED
    BY <1>0, <2>1, <2>3 DEF SearchInv
<1>5. ASSUME drvJob.mark[k] \in {1, 2},
             drvJob'.pc = "cycles", drvJob'.deps = drvJob.deps, drvJob'.mark = drvJob.mark,
             drvJob'.work = rest, "cycle" \in drvJob'.errs <=> "cycle" \in drvJob.errs \/ drvJob.mark[k] = 1
      PROVE  SearchInv'
  <2>1. SearchState(D, L, drvJob.mark, rest, drvJob'.errs)
    <3> HIDE DEF D, L, work
    <3>1. QED
      BY <1>0, <1>1, <1>3, <1>5, SkipKeeps
  <2>2. QED
    BY <1>0, <1>5, <2>1 DEF SearchInv
<1>6. CASE drvJob.mark[k] = 1 /\ drvJob' = [drvJob EXCEPT !.errs = @ \cup {"cycle"}, !.work = rest]
  <2>1. /\ drvJob'.pc = "cycles" /\ drvJob'.deps = drvJob.deps /\ drvJob'.mark = drvJob.mark
        /\ drvJob'.work = rest /\ drvJob'.errs = drvJob.errs \cup {"cycle"}
    BY <1>0, <1>6 DEF NoJob
  <2>2. QED
    BY <1>5, <1>6, <2>1
<1>7. CASE drvJob.mark[k] = 2 /\ drvJob' = [drvJob EXCEPT !.work = rest]
  <2>1. /\ drvJob'.pc = "cycles" /\ drvJob'.deps = drvJob.deps /\ drvJob'.mark = drvJob.mark
        /\ drvJob'.work = rest /\ drvJob'.errs = drvJob.errs
    BY <1>0, <1>7 DEF NoJob
  <2>2. QED
    BY <1>5, <1>7, <2>1
<1>8. QED
  BY <1>4, <1>6, <1>7 DEF VisitKid, rest

LEMMA LoadKeepsSearch ==
  ASSUME FilesOK, JobInv, SearchInv, NEW f \in SourceSet, LoadModule(f)
  PROVE  SearchInv'
<1>1. drvJob = [k \in DOMAIN NoJob |-> drvJob[k]] /\ drvJob.pc = "load"
  BY DEF JobInv, LoadModule
<1>2. drvJob.work = <<>> /\ "cycle" \notin drvJob.errs
  BY <1>1 DEF SearchInv
<1>3. /\ drvJob'.pc = "load" /\ drvJob'.work = drvJob.work
      /\ drvJob'.errs = drvJob.errs \cup (IF Ambiguous(f) THEN {"ambiguous"} ELSE {})
  BY <1>1 DEF LoadModule, NoJob
<1>4. QED
  BY <1>2, <1>3 DEF SearchInv

LEMMA OthersKeepSearch ==
  ASSUME FilesOK, JobInv, StageInv, SearchInv,
         \/ Lookup \/ ParseRoot \/ RunStage \/ FinishJob \/ EditHeader
         \/ \E r \in {"check", "build"}, t \in 1..2 : StartJob(r, t)
         \/ \E f \in SourceSet : EditFile(f) \/ CreateFile(f)
  PROVE  SearchInv'
<1>1. CASE drvJob' = NoJob
  BY <1>1 DEF SearchInv, NoJob
<1>2. ASSUME NEW r \in {"check", "build"}, NEW t \in 1..2, StartJob(r, t) PROVE SearchInv'
  BY <1>2 DEF StartJob, SearchInv, NoJob
<1>3. CASE Lookup \/ ParseRoot
  <2>1. \/ drvJob' = NoJob
        \/ drvJob' = [drvJob EXCEPT !.pc = "parse"]
        \/ drvJob' = [drvJob EXCEPT !.pc = "load", !.ran = {"parse"}]
    BY <1>3 DEF Lookup, ParseRoot
  <2>2. CASE drvJob' # NoJob
    <3>1. drvJob'.pc \in {"parse", "load"} /\ drvJob'.work = drvJob.work /\ drvJob'.errs = drvJob.errs
      BY <2>1, <2>2 DEF JobInv, NoJob
    <3>2. QED
      BY <1>3, <3>1 DEF SearchInv, Lookup, ParseRoot
  <2>3. QED
    BY <1>1, <2>2
<1>5. CASE RunStage
  <2> DEFINE s == StagesOf(drvJob.route)[drvJob.at]
  <2>1. /\ drvJob'.pc = "stages" /\ drvJob.pc = "stages" /\ drvJob'.deps = drvJob.deps
        /\ drvJob'.mark = drvJob.mark /\ drvJob'.work = drvJob.work
        /\ drvJob'.errs = drvJob.errs \cup ({s} \cap drvDefects)
    BY <1>5 DEF RunStage, JobInv, NoJob
  <2>2. s # "cycle"
    <3>1. drvJob.at \in Nat \ {0} /\ drvJob.at <= Len(StagesOf(drvJob.route))
      BY <1>5 DEF RunStage, StageInv
    <3>2. Len(StagesOf(drvJob.route)) \in Nat
      <4>1. 1 \in 1..Len(StagesOf(drvJob.route))
        BY <3>1, StageTables
      <4>2. QED
        BY <4>1, StageOrder
    <3>3. drvJob.at \in 1..Len(StagesOf(drvJob.route))
      BY <3>1, <3>2
    <3>4. QED
      BY <3>3, StageOrder
  <2>3. "cycle" \in drvJob'.errs <=> "cycle" \in drvJob.errs
    BY <2>1, <2>2
  <2>4. LoaderTargets' = LoaderTargets
    BY <1>5, InputsFix DEF RunStage
  <2>5. SearchState(DOMAIN drvJob.deps, LoaderTargets, drvJob.mark, drvJob.work, drvJob'.errs)
    BY <2>1, <2>3 DEF SearchInv, SearchState
  <2>6. QED
    BY <2>1, <2>4, <2>5 DEF SearchInv
<1>6. CASE FinishJob
  BY <1>1, <1>6 DEF FinishJob
<1>7. ASSUME NEW f \in SourceSet, EditFile(f) \/ CreateFile(f) \/ EditHeader PROVE SearchInv'
  <2>1. drvJob' = drvJob /\ drvJob.pc = "idle"
    BY <1>7 DEF EditFile, CreateFile, EditHeader
  <2>2. QED
    BY <2>1 DEF SearchInv
<1>8. CASE EditHeader
  BY <1>8 DEF EditHeader, SearchInv
<1>9. QED
  BY <1>2, <1>3, <1>5, <1>6, <1>7, <1>8

\* When the search has visited every file, it has found a cycle exactly if there is one.
LEMMA SearchEnds ==
  ASSUME SearchInv, LoadedIsComplete, JobInv, ExplicitFiles = {}
  PROVE  CyclesAreErrors
<1> SUFFICES ASSUME drvJob.pc = "stages" PROVE "cycle" \in drvJob.errs <=> RealCycle
  BY DEF CyclesAreErrors
<1> DEFINE D == DOMAIN drvJob.deps
<1>1. D = FreshFiles
  BY DEF JobInv, LoadedOK, LoadedIsComplete
<1>2. SearchState(D, LoaderTargets, drvJob.mark, drvJob.work, drvJob.errs)
      /\ drvJob.work = <<>> /\ \A f \in D : drvJob.mark[f] # 0
  BY DEF SearchInv
<1>3. \A f \in D : drvJob.mark[f] = 2
  BY <1>2 DEF SearchState, SearchShape
<1>4. "cycle" \in drvJob.errs <=> \E f \in D : OnCycle(f, LoaderTargets)
  BY <1>2, <1>3 DEF SearchState, SearchClean
<1>5. QED
  BY <1>1, <1>4 DEF RealCycle, OnCycle, Succ

\* A circular import is reported exactly when the program has one, for any import graph,
\* when one file is compiled; with the two theorems above, what the back end is given is
\* the program the imports mean, and anything else is an error.
THEOREM DriverIsSound ==
  ASSUME ExplicitFiles = {}
  PROVE  drvSpec => []BuildIsSound
<1>1. drvInit => SearchInv
  BY DEF drvInit, SearchInv, NoJob
<1>2. ASSUME FilesOK, JobInv, StageInv, SearchInv, [drvNext]_drvVars PROVE SearchInv'
  <2>1. CASE UNCHANGED drvVars
    <3>1. drvJob' = drvJob /\ LoaderTargets' = LoaderTargets
      BY <2>1, InputsFix DEF drvVars, Inputs
    <3>2. QED
      BY <1>2, <3>1 DEF SearchInv
  <2>2. QED
    BY <1>2, <2>1, StartSearch, SearchDoneKeeps, VisitDoneKeeps, VisitStartKeeps,
       VisitKidKeeps, LoadKeepsSearch, OthersKeepSearch DEF drvNext
<1>3. drvSpec => []SearchInv
  BY <1>1, <1>2, FilesInvariant, JobInvariant, StageInvariant, PTL DEF drvSpec
<1>4. ASSUME SearchInv, LoadedIsComplete, JobInv, RejectedIsNotLowered PROVE BuildIsSound
  BY <1>4, SearchEnds DEF BuildIsSound
<1>5. QED
  BY <1>3, <1>4, LoadingIsComplete, RejectedStops, JobInvariant, PTL
=============================================================================
