------------------------------ MODULE Packages ------------------------------
(***************************************************************************)
(* The package manager (src/src/project/pm, src/src/cli/pkg.rs): the       *)
(* curated registry and its published bundles, the content-addressed       *)
(* store, the project's packages/ directory, datara.toml and datara.lock,  *)
(* and the commands add, remove, install, update, publish, trust and       *)
(* verify.  A command is a sequence of file-system steps; the process can  *)
(* be killed between any two of them, and in the middle of writing a file. *)
(*                                                                         *)
(* A package is a record [name, version, files, digest]; files is a        *)
(* function from file names to contents.  A digest is kept as what it      *)
(* hashes, so two digests are equal exactly when their inputs are.         *)
(***************************************************************************)
EXTENDS Integers, FiniteSets, Sequences, Functions

CONSTANTS
  Curated,      \* the packages compiled into the registry
  Releases,     \* the packages the workspace may publish: [name, version, files]
  Archive,      \* what the tarball URL serves: [name, entries, meta], entries a sequence of
                \* [file, text], meta what its package.json says: [version, files, digest]
  GitName,      \* a package cloned with --git
  GitFiles,     \* and the files of its repository
  BridgeName,   \* the name of a foreign-language bridge package
  BridgeKey,    \* and its key in datara.toml, "<lang>:<name>"
  SourceFiles,  \* the file names with extension .dtr
  CrlfTexts,    \* the contents written with CRLF line ends
  Unix(_),      \* the content with LF line ends
  Mentions(_, _), \* Mentions(k, n): the manifest line of key k contains the text n
  ShaChoices,   \* whether a tarball is added with --sha256
  MaxCommands   \* bound on the number of commands and kills

Cut == "cut"      \* stands in datara.toml where a line ends that was not written to its end

\* Files are functions, an archive is a sequence of entries; the LF text of a CRLF
\* text has LF line ends; the package cloned with --git has a name of its own.
ASSUME PackagesAssumption ==
  /\ Archive.entries \in Seq(Range(Archive.entries))
  /\ Cut \notin {p.name : p \in Curated \cup Releases} \cup {Archive.name}
  /\ \A c \in CrlfTexts : Unix(Unix(c)) = Unix(c)
  /\ GitName \notin {p.name : p \in Curated \cup Releases} \cup {Archive.name}
  /\ ShaChoices \subseteq BOOLEAN /\ MaxCommands \in Nat

VARIABLES
  casStore,     \* <store>/<name>/<version>/package.json
  pmBundles,    \* <store>/bundles/<name>-<version>.dtr-pkg
  pmSigs,       \* the detached signature beside each bundle: the bundle it signs
  pmIndex,      \* <store>/index.json: the version of each published package
  pmTrusted,    \* whether the signing key is in the trust store
  pkgDirs,      \* packages/<name>: the files of each linked package
  bridgeDirs,   \* dpm_packages/
  depManifest,  \* datara.toml, see below
  depLock,      \* datara.lock: [st: absent, torn or ok, pkgs]
  pmProc,       \* the running command: its step, package, source, names to do
  pmLeft,       \* commands and kills left
  pmTaint,      \* names whose installation or removal was cut short
  pmUpdated     \* names whose lock entry was last written by `dpm update`

pmVars == <<casStore, pmBundles, pmSigs, pmIndex, pmTrusted, pkgDirs, bridgeDirs,
            depManifest, depLock, pmProc, pmLeft, pmTaint, pmUpdated>>

NoPkg == [name |-> "none", version |-> 0, files |-> <<>>, digest |-> <<>>]
Idle == [pc |-> "idle", cmd |-> "none", pkg |-> NoPkg, src |-> "none", todo |-> {},
         mem |-> <<>>, sha |-> FALSE]
Killed == [Idle EXCEPT !.cmd = "killed"]
EmptyLock == [st |-> "absent", pkgs |-> <<>>]
Without(f, k) == Restrict(f, DOMAIN f \ {k})
PutEntry(f, k, v) == [x \in DOMAIN f \cup {k} |-> IF x = k THEN v ELSE f[x]]

(***************************************************************************)
(* Digests.                                                                *)
(***************************************************************************)
Normalized(files) == [f \in DOMAIN files |-> Unix(files[f])]
compute_digest(files) == [scheme |-> "sha256", of |-> Normalized(files)]
compute_merkle_root(files) == [scheme |-> "merkle", of |-> Normalized(files)]
\* the SHA-256 of the archive as it arrived
TarSha(entries) == [scheme |-> "tar", of |-> entries]
collect_files(dir) == Restrict(dir, DOMAIN dir \cap SourceFiles)
DigestLike(d, files) ==
  IF d.scheme = "merkle" THEN compute_merkle_root(files) ELSE compute_digest(files)

(***************************************************************************)
(* The registry a command loads: the curated packages, overlaid with every *)
(* index entry whose bundle can be read.                                   *)
(***************************************************************************)
Indexed ==
  {n \in DOMAIN pmIndex : /\ <<n, pmIndex[n]>> \in DOMAIN pmBundles
                          /\ pmBundles[<<n, pmIndex[n]>>].st = "ok"}
lookup ==
  [n \in Indexed \cup {p.name : p \in Curated} |->
     IF n \in Indexed THEN pmBundles[<<n, pmIndex[n]>>].pkg
     ELSE LET p == CHOOSE q \in Curated : q.name = n
          IN [name |-> n, version |-> p.version, files |-> p.files,
              digest |-> compute_digest(p.files)]]

(***************************************************************************)
(* datara.toml.  A line of the table [dependencies] is a key and what is   *)
(* glued on behind its entry; the order of the lines is left out.  A file  *)
(* whose last line has no newline (nl) glues the next text appended to it. *)
(* The text before the table may be cut, or the table be missing.          *)
(***************************************************************************)
FreshManifest == [cut |-> FALSE, table |-> TRUE, nl |-> TRUE, lines |-> {}]
Line(k) == [key |-> k, rest |-> {}]
Keys(m) == {l.key : l \in m.lines}
Entries(m) == UNION {{l.key} \cup l.rest : l \in m.lines}
Parses(m) == ~m.cut /\ \A l \in m.lines : l.key # Cut /\ l.rest = {}
Deps(m) == IF Parses(m) THEN Keys(m) ELSE {}

\* a new line after the table's header, and no newline at the end of the file
Inserted(m, k) ==
  IF k \in Keys(m) THEN m
  ELSE [cut |-> m.cut, table |-> TRUE, nl |-> FALSE, lines |-> m.lines \cup {Line(k)}]
\* an entry appended to the text
Appended(m, k) ==
  IF m.nl \/ m.lines = {}
  THEN {[m EXCEPT !.table = TRUE, !.nl = TRUE, !.lines = @ \cup {Line(k)}]}
  ELSE {[m EXCEPT !.nl = TRUE, !.lines = (@ \ {l}) \cup {[l EXCEPT !.rest = @ \cup {k}]}] :
        l \in m.lines}
LinesDropped(m, dropped) ==
  [cut |-> m.cut, table |-> m.table, nl |-> TRUE, lines |-> m.lines \ dropped]

(***************************************************************************)
(* Reading an archive: the entries that arrived, in order.  A response     *)
(* without Content-Length that ends early at a block boundary parses as a  *)
(* shorter archive.  Its package.json, if it arrived, says what the        *)
(* package is; without one the other files are the package.                *)
(***************************************************************************)
Metadata == "package.json"
Downloads == {SubSeq(Archive.entries, 1, k) : k \in 1..Len(Archive.entries)}
Loose(entries) ==
  [f \in {e.file : e \in Range(entries)} \ {Metadata} |->
     (CHOOSE e \in Range(entries) : e.file = f).text]
package_from_tar(entries) ==
  LET described == \E e \in Range(entries) : e.file = Metadata
      meta == Archive.meta
      files == IF described /\ meta.files # <<>> THEN meta.files ELSE Loose(entries)
  IN [name |-> Archive.name, version |-> IF described THEN meta.version ELSE 1, files |-> files,
      digest |-> IF described /\ meta.digest # <<>> THEN meta.digest ELSE compute_digest(files)]
ChecksumOk_Any(entries, expected) == TRUE
ChecksumOk(entries, expected) ==
  expected \in {<<>>, TarSha(entries), package_from_tar(entries).digest}
CasHit(n, v) == <<n, v>> \in DOMAIN casStore /\ casStore[<<n, v>>].st = "ok"

(***************************************************************************)
(* What the lock records for an installed package: the digest supplied     *)
(* with it when that describes the linked files, otherwise the digest of   *)
(* the linked files under the same scheme.                                 *)
(***************************************************************************)
InstallDigest_Supplied(pkg, dir) == pkg.digest
InstallDigest(pkg, dir) ==
  LET disk == DigestLike(pkg.digest, collect_files(dir))
  IN IF pkg.digest = disk THEN pkg.digest ELSE disk
LockedPkgs == IF depLock.st = "ok" THEN depLock.pkgs ELSE <<>>
LockEntry(pkg, digest, src) == [version |-> pkg.version, digest |-> digest, source |-> src]
SaveLock(pkgs) == depLock' = [st |-> "ok", pkgs |-> pkgs]

(***************************************************************************)
(* Commands.                                                               *)
(***************************************************************************)
Begin == pmProc.pc = "idle" /\ pmLeft > 0 /\ pmLeft' = pmLeft - 1
Running(pc) == pmProc.pc = pc
Installing(pkg, src, cmd, sha) ==
  [Idle EXCEPT !.pc = "cas", !.cmd = cmd, !.pkg = pkg, !.src = src, !.sha = sha]
Store == <<casStore, pmBundles, pmSigs, pmIndex, pmTrusted>>
Project == <<pkgDirs, bridgeDirs, depManifest, depLock>>
History == <<pmTaint, pmUpdated>>

AddRegistry(n) ==
  /\ Begin /\ n \in DOMAIN lookup
  /\ pmProc' = Installing(lookup[n], "hypergrid", "add", FALSE)
  /\ UNCHANGED <<Store, Project, History>>

\* fetch_and_install_tarball up to the installation: a cached package.json is
\* taken as it is, online and offline; otherwise what was downloaded must match the checksum given
FetchTarball(n, v, expected, proc) ==
  IF CasHit(n, v)
  THEN pmProc' = [proc EXCEPT !.pc = "cas", !.pkg = casStore[<<n, v>>].pkg]
  ELSE \/ \E d \in Downloads :
            IF ChecksumOk(d, expected)
            THEN pmProc' = [proc EXCEPT !.pc = "cas", !.pkg = package_from_tar(d)]
            ELSE pmProc' = Idle
       \/ pmProc' = Idle

AddTarball(sha) ==
  /\ Begin
  /\ FetchTarball(Archive.name, 1, IF sha THEN TarSha(Archive.entries) ELSE <<>>,
                  [Idle EXCEPT !.cmd = "add", !.src = "url", !.sha = sha])
  /\ UNCHANGED <<Store, Project, History>>

\* fetch_and_install_sparks: schema, artifact checksum, signature and capability
\* sidecar must all agree with the index manifest before anything is written
SparksAccepted(m, d) ==
  /\ m.schema = 1
  /\ TarSha(d) = TarSha(Archive.entries)
  /\ m.signature \in {"none", "good"}
  /\ m.sidecar \in {"none", "equal"}
AddSparks(m) ==
  /\ Begin /\ Archive.name \notin DOMAIN lookup
  /\ \E d \in Downloads :
       pmProc' = IF SparksAccepted(m, d)
                 THEN Installing([package_from_tar(d) EXCEPT !.digest = TarSha(d)], "url", "add", TRUE)
                 ELSE Idle
  /\ UNCHANGED <<Store, Project, History>>

\* the clone, unless the directory is there; a clone that fails leaves no directory
AddGit ==
  /\ Begin /\ GitName \notin DOMAIN lookup
  /\ \/ /\ GitName \in DOMAIN pkgDirs /\ UNCHANGED pkgDirs
     \/ /\ GitName \notin DOMAIN pkgDirs
        /\ pkgDirs' = PutEntry(pkgDirs, GitName, GitFiles) \/ UNCHANGED pkgDirs
  /\ pmProc' = [Idle EXCEPT !.pc = "gittoml", !.cmd = "git"]
  /\ UNCHANGED <<Store, bridgeDirs, depManifest, depLock, History>>

AddBridge ==
  /\ Begin
  /\ bridgeDirs' = bridgeDirs \cup {BridgeName}
  /\ pmProc' = [Idle EXCEPT !.pc = "bridgetoml", !.cmd = "bridge"]
  /\ UNCHANGED <<Store, pkgDirs, depManifest, depLock, History>>

\* the removal of the bridge's directory may fail, unheeded
RemoveBridge ==
  /\ Begin /\ BridgeName \in bridgeDirs
  /\ bridgeDirs' \in {bridgeDirs, bridgeDirs \ {BridgeName}}
  /\ pmProc' = [Idle EXCEPT !.pc = "unbridge", !.cmd = "unbridge"]
  /\ UNCHANGED <<Store, pkgDirs, depManifest, depLock, History>>

\* remove_dir_all removes file by file: cut short by an error or a kill it leaves some
SomeFilesLeft(n) ==
  /\ n \in DOMAIN pkgDirs
  /\ \E left \in SUBSET DOMAIN pkgDirs[n] : pkgDirs' = [pkgDirs EXCEPT ![n] = Restrict(@, left)]
  /\ pmTaint' = pmTaint \cup {n}

\* an error of the removal ends the command before the manifest and the lock
RemoveDir(n) ==
  /\ Begin /\ n \notin bridgeDirs
  /\ \/ /\ pkgDirs' = Without(pkgDirs, n) /\ UNCHANGED pmTaint
        /\ pmProc' = [Idle EXCEPT !.pc = "rmtoml", !.cmd = "remove", !.pkg.name = n]
     \/ SomeFilesLeft(n) /\ pmProc' = Idle
  /\ UNCHANGED <<Store, bridgeDirs, depManifest, depLock, pmUpdated>>

\* forgen remove does not heed it, and leaves the lock alone
ForgenRemove(n) ==
  /\ Begin
  /\ \/ pkgDirs' = Without(pkgDirs, n) /\ UNCHANGED pmTaint
     \/ SomeFilesLeft(n)
  /\ pmProc' = [Idle EXCEPT !.pc = "forgentoml", !.cmd = "forgen", !.pkg.name = n]
  /\ UNCHANGED <<Store, bridgeDirs, depManifest, depLock, pmUpdated>>

(***************************************************************************)
(* Writing datara.toml.  `dpm remove` writes only if it finds the key, and *)
(* so do the commands that add one; the two other removals always write.   *)
(***************************************************************************)
LinesRemoved_Substring(n) == {l \in depManifest.lines : Mentions(l.key, n)}
LinesRemoved(n) == {l \in depManifest.lines : l.key = n}
NewManifests(pc) ==
  LET n == pmProc.pkg.name
      add(k, present) == IF present THEN {depManifest} ELSE Appended(depManifest, k)
  IN CASE pc = "toml" -> {Inserted(depManifest, n)}
       [] pc = "rmtoml" -> {IF n \in Keys(depManifest) THEN LinesDropped(depManifest, LinesRemoved(n))
                            ELSE depManifest}
       [] pc = "gittoml" -> add(GitName, \E k \in Entries(depManifest) : Mentions(k, GitName))
       [] pc = "bridgetoml" -> add(BridgeKey, BridgeKey \in Entries(depManifest))
       [] pc = "unbridge" ->
            {LinesDropped(depManifest, {l \in depManifest.lines :
                                          \E k \in {l.key} \cup l.rest : Mentions(k, BridgeName)})}
       [] pc = "forgentoml" -> {LinesDropped(depManifest, LinesRemoved(n))}
       [] OTHER -> {}
AlwaysWrites == {"unbridge", "forgentoml"}

RemoveKey ==
  /\ Running("rmtoml")
  /\ depManifest' \in NewManifests("rmtoml")
  /\ pmProc' = [pmProc EXCEPT !.pc = "rmlock"]
  /\ UNCHANGED <<Store, pkgDirs, bridgeDirs, depLock, pmLeft, History>>

\* the other commands end with the manifest
EditManifest ==
  /\ pmProc.pc \in {"gittoml", "bridgetoml", "unbridge", "forgentoml"}
  /\ depManifest' \in NewManifests(pmProc.pc)
  /\ pmProc' = Idle
  /\ UNCHANGED <<Store, pkgDirs, bridgeDirs, depLock, pmLeft, History>>

RemoveLock ==
  /\ Running("rmlock")
  /\ SaveLock(Without(LockedPkgs, pmProc.pkg.name))
  /\ pmProc' = Idle
  /\ UNCHANGED <<Store, pkgDirs, bridgeDirs, depManifest, pmLeft, History>>

\* install without a target: the lock if it parses, the manifest otherwise
Sync == [Idle EXCEPT !.pc = "pick", !.cmd = "sync",
           !.todo = (Deps(depManifest) \ DOMAIN pkgDirs) \cap DOMAIN lookup]
Install ==
  /\ Begin
  /\ pmProc' = IF depLock.st = "ok"
               THEN [Idle EXCEPT !.pc = "pick", !.cmd = "restore", !.mem = LockedPkgs,
                       !.todo = DOMAIN LockedPkgs \ DOMAIN pkgDirs]
               ELSE Sync
  /\ UNCHANGED <<Store, Project, History>>

\* forgen install never reads the lock
ForgenInstall ==
  /\ Begin
  /\ pmProc' = Sync
  /\ UNCHANGED <<Store, Project, History>>

Update ==
  /\ Begin
  /\ pmProc' = IF ~Parses(depManifest) THEN Idle
               ELSE [Idle EXCEPT !.pc = "pick", !.cmd = "update", !.mem = LockedPkgs,
                       !.todo = {n \in Deps(depManifest) \cap DOMAIN lookup :
                                   n \in DOMAIN LockedPkgs => LockedPkgs[n].version # lookup[n].version}]
  /\ UNCHANGED <<Store, Project, History>>

\* the loop over the names still to be installed, in any order
Pick(n) ==
  /\ Running("pick") /\ n \in pmProc.todo
  /\ LET rest == [pmProc EXCEPT !.todo = @ \ {n}]
     IN IF n \in DOMAIN lookup
        THEN pmProc' = [rest EXCEPT !.pc = "cas", !.pkg = lookup[n],
                          !.src = IF pmProc.cmd = "restore" THEN pmProc.mem[n].source ELSE "hypergrid"]
        ELSE IF pmProc.mem[n].source = "url"
        THEN FetchTarball(n, pmProc.mem[n].version, pmProc.mem[n].digest, [rest EXCEPT !.src = "url"])
        ELSE pmProc' = Idle
  /\ UNCHANGED <<Store, Project, pmLeft, History>>

LoopEnd ==
  /\ Running("pick") /\ pmProc.todo = {}
  /\ IF pmProc.cmd = "update" THEN SaveLock(pmProc.mem) ELSE UNCHANGED depLock
  /\ pmProc' = Idle
  /\ UNCHANGED <<Store, pkgDirs, bridgeDirs, depManifest, pmLeft, History>>

(***************************************************************************)
(* install_with_source, one step per file-system write.                    *)
(***************************************************************************)
InstallCas ==
  /\ Running("cas")
  /\ casStore' = PutEntry(casStore, <<pmProc.pkg.name, pmProc.pkg.version>>,
                     [st |-> "ok", pkg |-> pmProc.pkg])
  /\ pmProc' = [pmProc EXCEPT !.pc = "link"]
  /\ UNCHANGED <<pmBundles, pmSigs, pmIndex, pmTrusted, Project, pmLeft, History>>

DirOf(n) == IF n \in DOMAIN pkgDirs THEN pkgDirs[n] ELSE <<>>
Linked(n, files) == [f \in DOMAIN DirOf(n) \cup DOMAIN files |->
                       IF f \in DOMAIN files THEN files[f] ELSE DirOf(n)[f]]
InstallLink ==
  /\ Running("link")
  /\ pkgDirs' = PutEntry(pkgDirs, pmProc.pkg.name, Linked(pmProc.pkg.name, pmProc.pkg.files))
  /\ pmProc' = [pmProc EXCEPT !.pc = "toml"]
  /\ UNCHANGED <<Store, bridgeDirs, depManifest, depLock, pmLeft, History>>

InstallToml ==
  /\ Running("toml")
  /\ depManifest' \in NewManifests("toml")
  /\ pmProc' = [pmProc EXCEPT !.pc = "lock"]
  /\ UNCHANGED <<Store, pkgDirs, bridgeDirs, depLock, pmLeft, History>>

NewLock ==
  LET p == pmProc.pkg
  IN PutEntry(LockedPkgs, p.name, LockEntry(p, InstallDigest(p, DirOf(p.name)), pmProc.src))
InstallLock ==
  /\ Running("lock")
  /\ LET p == pmProc.pkg
         n == p.name
     IN /\ SaveLock(NewLock)
        /\ pmTaint' = pmTaint \ {n}
        /\ IF pmProc.cmd = "update"
           THEN /\ pmProc' = [pmProc EXCEPT !.pc = "pick",
                                !.mem = PutEntry(@, n, LockEntry(p, p.digest, "hypergrid"))]
                /\ pmUpdated' = pmUpdated \cup {n}
           ELSE /\ pmProc' = IF pmProc.cmd = "add" THEN Idle ELSE [pmProc EXCEPT !.pc = "pick"]
                /\ pmUpdated' = pmUpdated \ {n}
  /\ UNCHANGED <<Store, pkgDirs, bridgeDirs, depManifest, pmLeft>>

(***************************************************************************)
(* publish: the bundle, its signature when a key is configured, the index. *)
(***************************************************************************)
PublishBundle(r, signed) ==
  /\ Begin
  /\ LET src == collect_files(r.files)
         pkg == [name |-> r.name, version |-> r.version, files |-> src,
                 digest |-> compute_merkle_root(src)]
     IN /\ pmBundles' = PutEntry(pmBundles, <<r.name, r.version>>, [st |-> "ok", pkg |-> pkg])
        /\ pmProc' = [Idle EXCEPT !.pc = IF signed THEN "sign" ELSE "index",
                        !.cmd = "publish", !.pkg = pkg]
  /\ UNCHANGED <<casStore, pmSigs, pmIndex, pmTrusted, Project, History>>

PublishSign ==
  /\ Running("sign")
  /\ LET k == <<pmProc.pkg.name, pmProc.pkg.version>> IN pmSigs' = PutEntry(pmSigs, k, pmBundles[k])
  /\ pmProc' = [pmProc EXCEPT !.pc = "index"]
  /\ UNCHANGED <<casStore, pmBundles, pmIndex, pmTrusted, Project, pmLeft, History>>

PublishIndex ==
  /\ Running("index")
  /\ pmIndex' = PutEntry(pmIndex, pmProc.pkg.name, pmProc.pkg.version)
  /\ pmProc' = Idle
  /\ UNCHANGED <<casStore, pmBundles, pmSigs, pmTrusted, Project, pmLeft, History>>

Trust ==
  /\ Begin /\ ~pmTrusted /\ pmTrusted' = TRUE
  /\ UNCHANGED <<casStore, pmBundles, pmSigs, pmIndex, Project, pmProc, History>>

(***************************************************************************)
(* The environment: a kill, a checkout that rewrites line ends, a fresh    *)
(* clone of the project on a machine with an empty store.                  *)
(***************************************************************************)
\* A file is truncated and written anew: cut short, datara.toml is a part of its new
\* text, in which the last line may be broken off, before or behind its key.
Fragments(l) == {[key |-> Cut, rest |-> {}], [key |-> l.key, rest |-> {Cut}]}
TornManifests(new) ==
  {[FreshManifest EXCEPT !.cut = c, !.table = FALSE] : c \in BOOLEAN}
    \cup {[new EXCEPT !.nl = e, !.lines = kept] : e \in BOOLEAN, kept \in SUBSET new.lines}
    \cup UNION {{[new EXCEPT !.nl = FALSE, !.lines = kept \cup {f}] :
                   kept \in SUBSET (new.lines \ {l}), f \in Fragments(l)} : l \in new.lines}
TornManifest ==
  \E new \in NewManifests(pmProc.pc) :
    /\ new # depManifest \/ pmProc.pc \in AlwaysWrites
    /\ depManifest' \in TornManifests(new)
\* and datara.lock does not parse, or names some of the packages only
TornLock(pkgs) ==
  \/ depLock' = [st |-> "torn", pkgs |-> <<>>]
  \/ \E kept \in SUBSET DOMAIN pkgs : SaveLock(Restrict(pkgs, kept))

Torn(pc) ==
  \/ /\ pc = "cas"
     /\ casStore' = PutEntry(casStore, <<pmProc.pkg.name, pmProc.pkg.version>>,
                        [st |-> "torn", pkg |-> NoPkg])
     /\ UNCHANGED <<pkgDirs, depManifest, depLock>>
  \/ /\ pc = "link"
     /\ \E some \in SUBSET DOMAIN pmProc.pkg.files :
          pkgDirs' = PutEntry(pkgDirs, pmProc.pkg.name,
                        Linked(pmProc.pkg.name, Restrict(pmProc.pkg.files, some)))
     /\ UNCHANGED <<casStore, depManifest, depLock>>
  \/ /\ TornManifest
     /\ UNCHANGED <<casStore, pkgDirs, depLock>>
  \/ /\ \/ pc = "lock" /\ TornLock(NewLock)
        \/ pc = "rmlock" /\ TornLock(Without(LockedPkgs, pmProc.pkg.name))
        \/ pc = "pick" /\ pmProc.cmd = "update" /\ pmProc.todo = {} /\ TornLock(pmProc.mem)
     /\ UNCHANGED <<casStore, pkgDirs, depManifest>>
Crash ==
  /\ pmProc.pc # "idle" /\ pmLeft > 0 /\ pmLeft' = pmLeft - 1
  /\ \/ Torn(pmProc.pc)
     \/ UNCHANGED <<casStore, pkgDirs, depManifest, depLock>>
  /\ pmTaint' = IF pmProc.pc \in {"link", "toml", "lock"} THEN pmTaint \cup {pmProc.pkg.name} ELSE pmTaint
  /\ pmProc' = Killed
  /\ UNCHANGED <<pmBundles, pmSigs, pmIndex, pmTrusted, bridgeDirs, pmUpdated>>

Crlf(t) == CHOOSE c \in CrlfTexts : Unix(c) = t
Checkout(n) ==
  /\ Begin /\ n \in DOMAIN pkgDirs
  /\ pkgDirs' = [pkgDirs EXCEPT ![n] =
                   [f \in DOMAIN @ |-> IF \E c \in CrlfTexts : Unix(c) = @[f] THEN Crlf(@[f]) ELSE @[f]]]
  /\ UNCHANGED <<Store, bridgeDirs, depManifest, depLock, pmProc, History>>

Clone ==
  /\ Begin
  /\ pkgDirs' = <<>> /\ casStore' = <<>>
  /\ UNCHANGED <<pmBundles, pmSigs, pmIndex, pmTrusted, bridgeDirs, depManifest, depLock, pmProc, History>>

SparksManifests == [schema : {1, 2}, signature : {"none", "good", "bad"}, sidecar : {"none", "equal", "other"}]

pmInit ==
  /\ casStore = <<>> /\ pmBundles = <<>> /\ pmSigs = <<>> /\ pmIndex = <<>> /\ pmTrusted = FALSE
  /\ pkgDirs = <<>> /\ bridgeDirs = {} /\ depManifest = FreshManifest /\ depLock = EmptyLock
  /\ pmProc = Idle /\ pmLeft = MaxCommands /\ pmTaint = {} /\ pmUpdated = {}

pmNames == {p.name : p \in Curated \cup Releases} \cup {Archive.name, GitName}

pmNext ==
  \/ \E n \in pmNames : AddRegistry(n) \/ RemoveDir(n) \/ ForgenRemove(n) \/ Pick(n) \/ Checkout(n)
  \/ \E sha \in ShaChoices : AddTarball(sha)
  \/ \E m \in SparksManifests : AddSparks(m)
  \/ AddGit \/ AddBridge \/ RemoveBridge \/ RemoveKey \/ RemoveLock \/ EditManifest
  \/ Install \/ ForgenInstall \/ Update \/ LoopEnd
  \/ InstallCas \/ InstallLink \/ InstallToml \/ InstallLock
  \/ \E r \in Releases, s \in BOOLEAN : PublishBundle(r, s)
  \/ PublishSign \/ PublishIndex \/ Trust \/ Crash \/ Clone

pmSpec == pmInit /\ [][pmNext]_pmVars

(***************************************************************************)
(* dpm verify.                                                             *)
(***************************************************************************)
SignatureStatus(k) ==
  IF k \notin DOMAIN pmBundles \/ k \notin DOMAIN pmSigs THEN "Unsigned"
  ELSE IF ~pmTrusted THEN "Untrusted"
  ELSE IF pmSigs[k] = pmBundles[k] THEN "Valid" ELSE "Invalid"
VerifyStatus(n) ==
  LET e == LockedPkgs[n]
  IN IF n \notin DOMAIN pkgDirs THEN "Missing"
     ELSE IF DigestLike(e.digest, collect_files(pkgDirs[n])) # e.digest THEN "Mismatch"
     ELSE IF SignatureStatus(<<n, e.version>>) = "Invalid" THEN "Mismatch" ELSE "Valid"

(***************************************************************************)
(* Properties.                                                             *)
(***************************************************************************)
\* A package that the lock names and that is linked verifies: whatever commands
\* ran, and after line-end rewriting, its files hash to the locked digest.  Excepted
\* are a package whose installation or removal was cut short and that was not
\* installed since, where the directory is ahead of the lock, and an entry written
\* by `dpm update` (which records the release's digest instead of the disk's).
LockedIsOnDisk ==
  pmProc.pc = "idle" =>
    \A n \in DOMAIN LockedPkgs \ (pmTaint \cup pmUpdated) : n \in DOMAIN pkgDirs =>
      DigestLike(LockedPkgs[n].digest, collect_files(pkgDirs[n])) = LockedPkgs[n].digest

\* An archive whose package.json states a digest lists its files there too.
DigestMeansFiles == Archive.meta.digest # <<>> => Archive.meta.files # <<>>

KnownFiles(n) ==
  {p.files : p \in {q \in Curated \cup Releases : q.name = n}}
    \cup (IF n = Archive.name THEN {package_from_tar(Archive.entries).files} ELSE {})
    \cup (IF n = GitName THEN {GitFiles} ELSE {})
\* What `dpm verify` calls Valid is a complete package: every source file of some
\* release of that name is on disk with its content, whatever crashes, partial
\* downloads and reinstallations came before.
ValidMeansComplete ==
  pmProc.pc = "idle" =>
    \A n \in DOMAIN LockedPkgs : VerifyStatus(n) = "Valid" =>
      \E files \in KnownFiles(n) : \A f \in DOMAIN files \cap SourceFiles :
        f \in DOMAIN pkgDirs[n] /\ Unix(pkgDirs[n][f]) = Unix(files[f])

(***************************************************************************)
(* The inductive invariants behind the two.                                *)
(***************************************************************************)
PkgNames == {p.name : p \in Curated \cup Releases} \cup {Archive.name}
InstallPcs == {"cas", "link", "toml", "lock"}

ProcFields == {"pc", "cmd", "pkg", "src", "todo", "mem", "sha"}
\* An installation is of a package of the registry or of the archive, and of the
\* archive alone when it comes from a URL; the names its loop has left are names it
\* can look up, or restores from the lock.
ProcInv ==
  /\ DOMAIN pmProc = ProcFields
  /\ pmProc.pc \in InstallPcs =>
       /\ pmProc.pkg.name \in PkgNames
       /\ pmProc.src = "url" => pmProc.pkg.name = Archive.name
  /\ pmProc.pc \in InstallPcs \cup {"pick"} =>
       /\ pmProc.cmd \in {"add", "sync", "update", "restore"}
       /\ pmProc.cmd = "restore" => pmProc.todo \subseteq DOMAIN pmProc.mem
       /\ pmProc.cmd \in {"sync", "update"} => pmProc.todo \subseteq DOMAIN lookup
       /\ pmProc.pc = "pick" => pmProc.cmd # "add"
\* A lock names packages of the registry or the archive, never the cloned one.
NamedLock(pkgs) ==
  \A n \in DOMAIN pkgs : n \in PkgNames /\ (pkgs[n].source = "url" => n = Archive.name)
\* A package is stored under its own name.
NamedStore(store) ==
  \A k \in DOMAIN store :
    store[k].st = "ok" => store[k].pkg.name = k[1] /\ k[1] \in PkgNames
NamesInv ==
  /\ ProcInv
  /\ NamedLock(LockedPkgs) /\ NamedLock(pmProc.mem)
  /\ NamedStore(casStore) /\ NamedStore(pmBundles)

\* Between the link and the lock the directory is ahead of the lock.
InFlight == IF pmProc.pc \in {"toml", "lock"} THEN {pmProc.pkg.name} ELSE {}
Excepted == pmTaint \cup pmUpdated \cup InFlight
\* The packages of pkgs that are linked, except these, hash to their digests.
Agree(pkgs, dirs, except) ==
  \A n \in (DOMAIN pkgs \cap DOMAIN dirs) \ except :
    DigestLike(pkgs[n].digest, collect_files(dirs[n])) = pkgs[n].digest
\* The lock agrees with the disk throughout, except for the package in flight, and
\* so does the copy that `dpm update` writes back when its loop has ended.
OnDiskInv ==
  /\ Agree(LockedPkgs, pkgDirs, Excepted)
  /\ pmProc.pc # "idle" /\ pmProc.cmd = "update" => Agree(pmProc.mem, pkgDirs, Excepted)

\* Files, or the digest of files, that contain every source file of some release of n.
WholeFiles(n, files) ==
  \E known \in KnownFiles(n) : \A f \in DOMAIN known \cap SourceFiles :
    f \in DOMAIN files /\ Unix(files[f]) = Unix(known[f])
WholeDigest(n, d) ==
  /\ DOMAIN d = {"scheme", "of"} /\ d.scheme \in {"sha256", "merkle"}
  /\ \E known \in KnownFiles(n) : \A f \in DOMAIN known \cap SourceFiles :
       f \in DOMAIN d.of /\ d.of[f] = Unix(known[f])
WholeLock(pkgs) == \A n \in DOMAIN pkgs : WholeDigest(n, pkgs[n].digest)
WholePkg(pkg) == WholeFiles(pkg.name, pkg.files) /\ WholeDigest(pkg.name, pkg.digest)
\* Only whole packages get into the store, into the hands of an installation and,
\* by their digests, into the lock.
WholeInv ==
  /\ WholeLock(LockedPkgs) /\ WholeLock(pmProc.mem)
  /\ \A k \in DOMAIN casStore : casStore[k].st = "ok" =>
       WholeFiles(casStore[k].pkg.name, casStore[k].pkg.files)
  /\ \A k \in DOMAIN pmBundles : pmBundles[k].st = "ok" => WholePkg(pmBundles[k].pkg)
  /\ pmProc.pc \in InstallPcs =>
       /\ WholeFiles(pmProc.pkg.name, pmProc.pkg.files)
       /\ pmProc.cmd = "update" => WholePkg(pmProc.pkg)
  /\ pmProc.pc \in {"toml", "lock"} =>
       pmProc.pkg.name \in DOMAIN pkgDirs /\ WholeFiles(pmProc.pkg.name, pkgDirs[pmProc.pkg.name])

\* Adding, installing or removing one package leaves every other package's
\* directory, manifest key and lock entry alone, and the manifest readable if it
\* was.  A kill in the middle of writing the manifest, or the lock, may lose any
\* entry of that file, and still no directory.
TouchingOne ==
  /\ pmProc.cmd \in {"add", "sync", "restore", "remove"}
  /\ pmProc.pc \in {"cas", "link", "toml", "lock", "rmtoml", "rmlock"}
OthersUntouchedStep ==
  TouchingOne =>
    LET others == pmNames \ {pmProc.pkg.name}
        torn(pcs) == pmProc'.cmd = "killed" /\ pmProc.pc \in pcs
    IN /\ \A m \in others \cap DOMAIN pkgDirs : m \in DOMAIN pkgDirs' /\ pkgDirs'[m] = pkgDirs[m]
       /\ torn({"toml", "rmtoml"}) \/ (/\ others \cap Keys(depManifest) \subseteq Keys(depManifest')
                                       /\ Parses(depManifest) => Parses(depManifest'))
       /\ torn({"lock", "rmlock"}) \/ \A m \in others \cap DOMAIN LockedPkgs :
                                        m \in DOMAIN LockedPkgs' /\ LockedPkgs'[m] = LockedPkgs[m]
OthersUntouched == [][OthersUntouchedStep]_pmVars

\* A tarball added with --sha256 is installed only if it matches that checksum
\* ("verifies SHA-256, extracts, stores in CAS and links into project").
ChecksumHonoured ==
  pmProc.pc = "cas" /\ pmProc.sha => pmProc.pkg.files = package_from_tar(Archive.entries).files
=============================================================================
