---------------------------- MODULE SelfUpdate ----------------------------
(***************************************************************************)
(* hydra-worker update (self_update.rs): download the published build next *)
(* to the executable, verify it and swap it into place, while CI replaces  *)
(* the release, updates are killed, and others run on the same host.       *)
(*                                                                         *)
(* What a process has written is there for the next one: the host itself   *)
(* does not fail.  Nothing is synced to disk (self_update.rs:336, 376), so *)
(* no more is promised of a host that loses power.                         *)
(*                                                                         *)
(* A file is an inode and a path names one, so a rename moves content and  *)
(* an open file survives the removal of its name.  A build is downloaded   *)
(* in two parts, enough for a file to be empty, torn, mixed or whole.      *)
(***************************************************************************)
EXTENDS Integers, FiniteSets

CONSTANTS
  Updater,      \* processes that run `hydra-worker update`
  CheckOnly,    \* those started with --check
  Build,        \* builds a release may hold
  Broken,       \* builds that do not load on this host
  NoBuild, NoFile,
  Host,         \* the operating systems considered
  Inode,
  MaxReleases,  \* bound: replacements of the release by CI
  MaxFaults,    \* bound: kills and failed requests, reads and writes
  MaxChecks     \* bound: runs with --check

ASSUME SelfUpdateAssumption ==
  /\ CheckOnly \subseteq Updater
  /\ Broken \subseteq Build /\ NoBuild \notin Build
  /\ Host \subseteq {"unix", "windows"}
  /\ Inode \subseteq Nat /\ Inode # {} /\ NoFile \notin Inode
  /\ MaxReleases \in Nat /\ MaxFaults \in Nat /\ MaxChecks \in Nat

VARIABLES
  host,
  sums,               \* whether the release publishes checksums
  asset, sum,         \* the release: binary and .sha256, NoBuild for a 404
  uploads,            \* files that runs of CI have yet to replace
  exe, partial, old,  \* paths in the executable's directory
  content,            \* what each inode holds
  service,            \* the image the worker service runs
  pc,                 \* where each update is
  image,              \* the executable it was started from
  cur, want, got,     \* hashes: of the executable, published, downloaded
  file,               \* the download's open file
  part,               \* how much of it was written
  releases, faults, checks

release == <<sums, asset, sum, uploads, releases>>
paths   == <<exe, partial, old>>
hashes  == <<cur, want, got>>
vars    == <<host, release, paths, content, service, pc, image, hashes, file,
             part, faults, checks>>

Part     == {1, 2}
Blank    == [p \in Part |-> NoBuild]
Whole(b) == [p \in Part |-> b]
Step     == {"idle", "clean", "hash", "sum", "check", "stage", "get", "write",
             "verify", "exec", "swap", "swapin"}

TypeOK ==
  /\ host \in Host
  /\ sums \in BOOLEAN
  /\ asset \in Build \cup {NoBuild} /\ sum \in Build \cup {NoBuild}
  /\ uploads \subseteq Build \X {"asset", "sum"}
  /\ {exe, partial, old} \subseteq Inode \cup {NoFile}
  /\ content \in [Inode -> [Part -> Build \cup {NoBuild}]]
  /\ service \in Inode
  /\ pc \in [Updater -> Step]
  /\ image \in [Updater -> Inode \cup {NoFile}]
  /\ cur \in [Updater -> [Part -> Build \cup {NoBuild}]]
  /\ want \in [Updater -> Build \cup {NoBuild}]
  /\ got \in [Updater -> Build \cup {NoBuild}]
  /\ file \in [Updater -> Inode \cup {NoFile}]
  /\ part \in [Updater -> 0..2]
  /\ releases \in 0..MaxReleases /\ faults \in 0..MaxFaults
  /\ checks \in 0..MaxChecks

Runs(i)     == service = i \/ \E u \in Updater : image[u] = i
Writes(i)   == \E u \in Updater : file[u] = i
Free        == {i \in Inode \ {exe, partial, old} : ~Runs(i) /\ ~Writes(i)}

\* fs::remove_file, result ignored: Windows keeps an image that runs.
Removed(path) ==
  IF path # NoFile /\ host = "windows" /\ Runs(path) THEN path ELSE NoFile

Fault == faults < MaxFaults /\ faults' = faults + 1

\* The process ends, and with it its open file and its image.
Leave(u) ==
  /\ pc' = [pc EXCEPT ![u] = "idle"]
  /\ image' = [image EXCEPT ![u] = NoFile]
  /\ file' = [file EXCEPT ![u] = NoFile]
  /\ part' = [part EXCEPT ![u] = 0]
  /\ cur' = [cur EXCEPT ![u] = Blank]
  /\ want' = [want EXCEPT ![u] = NoBuild]
  /\ got' = [got EXCEPT ![u] = NoBuild]

Go(u, step) ==
  pc' = [pc EXCEPT ![u] = step] /\ UNCHANGED <<image, file, part, hashes>>

Init ==
  /\ host \in Host
  /\ sums \in BOOLEAN
  /\ asset \in Build /\ sum = (IF sums THEN asset ELSE NoBuild) /\ uploads = {}
  /\ exe = (CHOOSE i \in Inode : TRUE) /\ service = exe
  /\ \E b \in Build \ Broken :
       content = [i \in Inode |-> IF i = exe THEN Whole(b) ELSE Blank]
  /\ partial = NoFile /\ old = NoFile
  /\ pc = [u \in Updater |-> "idle"]
  /\ image = [u \in Updater |-> NoFile]
  /\ cur = [u \in Updater |-> Blank]
  /\ want = [u \in Updater |-> NoBuild] /\ got = [u \in Updater |-> NoBuild]
  /\ file = [u \in Updater |-> NoFile] /\ part = [u \in Updater |-> 0]
  /\ releases = 0 /\ faults = 0 /\ checks = 0

----------------------------------------------------------------------------
(* CI and the service manager *)

\* The job edge-release: a run of CI has built b and starts to publish it.
Publish(b) ==
  /\ releases < MaxReleases /\ b # asset
  /\ uploads' = uploads \cup {<<b, f>> : f \in {"asset"} \cup IF sums THEN {"sum"} ELSE {}}
  /\ releases' = releases + 1
  /\ UNCHANGED <<host, sums, asset, sum, paths, content, service, pc, image,
                 hashes, file, part, faults, checks>>

\* action-gh-release replaces the files one by one, in no order to rely on, by
\* deleting the old and uploading the new: in between a request finds none.
Upload ==
  /\ \E b \in Build :
       \/ /\ <<b, "asset">> \in uploads /\ UNCHANGED sum
          /\ \/ asset # NoBuild /\ asset' = NoBuild /\ UNCHANGED uploads
             \/ asset = NoBuild /\ asset' = b /\ uploads' = uploads \ {<<b, "asset">>}
       \/ /\ <<b, "sum">> \in uploads /\ UNCHANGED asset
          /\ \/ sum # NoBuild /\ sum' = NoBuild /\ UNCHANGED uploads
             \/ sum = NoBuild /\ sum' = b /\ uploads' = uploads \ {<<b, "sum">>}
  /\ UNCHANGED <<host, sums, releases, paths, content, service, pc, image,
                 hashes, file, part, faults, checks>>

\* restart_service, or any other restart: the service runs what exe names.
RestartService ==
  /\ exe # NoFile /\ exe # service /\ service' = exe
  /\ UNCHANGED <<host, release, paths, content, pc, image, hashes, file, part,
                 faults, checks>>

----------------------------------------------------------------------------
(* run_update, in its order *)

\* main and cmd_update: a process is started from the executable.
Start(u) ==
  /\ pc[u] = "idle" /\ exe # NoFile
  /\ checks' = IF u \in CheckOnly THEN checks + 1 ELSE checks
  /\ checks' <= MaxChecks
  /\ pc' = [pc EXCEPT ![u] = "clean"]
  /\ image' = [image EXCEPT ![u] = exe]
  /\ UNCHANGED <<host, release, paths, content, service, hashes, file, part,
                 faults>>

\* Debris of an interrupted run is removed first.
Clean(u) ==
  /\ pc[u] = "clean"
  /\ partial' = Removed(partial) /\ old' = Removed(old)
  /\ Go(u, "hash")
  /\ UNCHANGED <<host, release, exe, content, service, faults, checks>>

HashExe(u) ==
  /\ pc[u] = "hash"
  /\ IF exe = NoFile
     THEN Leave(u)
     ELSE /\ cur' = [cur EXCEPT ![u] = content[exe]]
          /\ pc' = [pc EXCEPT ![u] = "sum"]
          /\ UNCHANGED <<image, want, got, file, part>>
  /\ UNCHANGED <<host, release, paths, content, service, faults, checks>>

FetchSumRequired(u) ==
  /\ pc[u] = "sum"
  /\ IF sum = NoBuild \/ Whole(sum) = cur[u] \/ u \in CheckOnly
     THEN Leave(u)
     ELSE /\ want' = [want EXCEPT ![u] = sum]
          /\ pc' = [pc EXCEPT ![u] = "stage"]
          /\ UNCHANGED <<image, cur, got, file, part>>
  /\ UNCHANGED <<host, release, paths, content, service, faults, checks>>

\* fetch_remote_sha and the two early returns that need no download.
FetchSum(u) ==
  /\ pc[u] = "sum"
  /\ LET known == sum # NoBuild
     IN IF known /\ (Whole(sum) = cur[u] \/ u \in CheckOnly)
        THEN Leave(u)
        ELSE /\ want' = [want EXCEPT ![u] = sum]
             /\ pc' = [pc EXCEPT ![u] =
                         IF u \in CheckOnly THEN "check" ELSE "stage"]
             /\ UNCHANGED <<image, cur, got, file, part>>
  /\ UNCHANGED <<host, release, paths, content, service, faults, checks>>

\* --check without a checksum: a download to the temporary directory, hashed
\* and discarded.
CheckDownload(u) ==
  /\ pc[u] = "check" /\ Leave(u)
  /\ UNCHANGED <<host, release, paths, content, service, faults, checks>>

\* File::create on the partial path: an existing file is emptied.
Created == IF partial = NoFile THEN CHOOSE i \in Free : TRUE ELSE partial
Creates ==
  /\ partial = NoFile => Free # {}
  /\ partial' = Created
  /\ content' = [content EXCEPT ![Created] = Blank]
  /\ UNCHANGED <<exe, old>>

StagePartial(u) ==
  /\ pc[u] = "stage" /\ Creates /\ Go(u, "get")
  /\ UNCHANGED <<host, release, service, faults, checks>>

\* download_to: the response is of the asset as it is now.
OpenDownload(u) ==
  /\ pc[u] = "get" /\ asset # NoBuild /\ Creates
  /\ got' = [got EXCEPT ![u] = asset]
  /\ file' = [file EXCEPT ![u] = Created]
  /\ part' = [part EXCEPT ![u] = 0]
  /\ pc' = [pc EXCEPT ![u] = "write"]
  /\ UNCHANGED <<host, release, service, image, cur, want, faults, checks>>

\* The asset is being replaced: the request fails and the partial file goes.
NotFound(u) ==
  /\ pc[u] = "get" /\ asset = NoBuild
  /\ partial' = Removed(partial) /\ Leave(u)
  /\ UNCHANGED <<host, release, exe, old, content, service, faults, checks>>

WritePast(u) ==
  /\ pc[u] = "write"
  /\ part' = [part EXCEPT ![u] = @ + 1]
  /\ content' = [content EXCEPT ![file[u]][1] = got[u]]
  /\ UNCHANGED <<host, release, paths, service, pc, image, hashes, file,
                 faults, checks>>

WritePart(u) ==
  /\ pc[u] = "write" /\ part[u] < 2
  /\ part' = [part EXCEPT ![u] = @ + 1]
  /\ content' = [content EXCEPT ![file[u]][part[u] + 1] = got[u]]
  /\ UNCHANGED <<host, release, paths, service, pc, image, hashes, file,
                 faults, checks>>

\* The stream ended: download_to drops its file and returns the stream's hash.
EndDownload(u) ==
  /\ pc[u] = "write" /\ part[u] = 2
  /\ file' = [file EXCEPT ![u] = NoFile]
  /\ pc' = [pc EXCEPT ![u] = "verify"]
  /\ UNCHANGED <<host, release, paths, content, service, image, hashes, part,
                 faults, checks>>

VerifySkipsSum(u) ==
  /\ pc[u] = "verify"
  /\ IF Whole(got[u]) = cur[u]
     THEN partial' = Removed(partial) /\ Leave(u)
     ELSE /\ UNCHANGED partial
          /\ IF partial = NoFile THEN Leave(u) ELSE Go(u, "exec")
  /\ UNCHANGED <<host, release, exe, old, content, service, faults, checks>>

\* A download that does not match the checksum, or is what runs already, is
\* removed; chmod fails when the partial file is gone.
Verify(u) ==
  /\ pc[u] = "verify"
  /\ IF want[u] \notin {NoBuild, got[u]} \/ Whole(got[u]) = cur[u]
     THEN partial' = Removed(partial) /\ Leave(u)
     ELSE /\ UNCHANGED partial
          /\ IF partial = NoFile THEN Leave(u) ELSE Go(u, "exec")
  /\ UNCHANGED <<host, release, exe, old, content, service, faults, checks>>

\* A whole build tells whether it loads; a torn or mixed one may do either.
Loads(c) ==
  CASE \E b \in Build : c = Whole(b) -> {c \notin {Whole(b) : b \in Broken}}
    [] c = Blank                     -> {FALSE}
    [] OTHER                         -> BOOLEAN

SanityCheckSkipped(u) ==
  /\ pc[u] = "exec"
  /\ Go(u, "swap")
  /\ UNCHANGED <<host, release, paths, content, service, faults, checks>>

\* sanity_check_exec.  A file that is open for writing cannot be executed.
SanityCheck(u) ==
  /\ pc[u] = "exec"
  /\ IF partial = NoFile \/ Writes(partial)
     THEN Leave(u)
     ELSE \E loads \in Loads(content[partial]) :
            IF loads THEN Go(u, "swap") ELSE Leave(u)
  /\ UNCHANGED <<host, release, paths, content, service, faults, checks>>

SwapByCopy(u) ==
  /\ host = "unix" /\ pc[u] = "swap"
  /\ content' = [content EXCEPT ![exe] =
                   IF partial = NoFile THEN @ ELSE content[partial]]
  /\ Leave(u)
  /\ UNCHANGED <<host, release, paths, service, faults, checks>>

\* swap_into_place on unix: one rename.
SwapUnix(u) ==
  /\ host = "unix" /\ pc[u] = "swap"
  /\ IF partial = NoFile THEN UNCHANGED paths
     ELSE exe' = partial /\ partial' = NoFile /\ UNCHANGED old
  /\ Leave(u)
  /\ UNCHANGED <<host, release, content, service, faults, checks>>

\* swap_into_place on Windows, first rename: refused when it would replace an
\* image that runs.
SwapAside(u) ==
  /\ host = "windows" /\ pc[u] = "swap"
  /\ IF exe = NoFile \/ (old # NoFile /\ Runs(old))
     THEN Leave(u) /\ UNCHANGED paths
     ELSE old' = exe /\ exe' = NoFile /\ UNCHANGED partial /\ Go(u, "swapin")
  /\ UNCHANGED <<host, release, content, service, faults, checks>>

\* Second rename.  Whatever keeps it from happening, the first is undone.
SwapIn(u) ==
  /\ pc[u] = "swapin" /\ Leave(u)
  /\ \/ /\ partial # NoFile /\ exe' = partial /\ partial' = NoFile
        /\ UNCHANGED <<old, faults>>
     \/ /\ IF partial = NoFile THEN UNCHANGED faults ELSE Fault
        /\ exe' = (IF old = NoFile THEN exe ELSE old) /\ old' = NoFile
        /\ UNCHANGED partial
  /\ UNCHANGED <<host, release, content, service, checks>>

\* A request, a read or a write fails.  Only a failed download removes its file.
Fail(u) ==
  /\ pc[u] \in {"hash", "sum", "check", "stage", "get", "write", "verify"}
  /\ Fault /\ Leave(u)
  /\ partial' = IF pc[u] \in {"get", "write"} THEN Removed(partial) ELSE partial
  /\ UNCHANGED <<host, release, exe, old, content, service, checks>>

\* The process is killed.
Crash(u) ==
  /\ pc[u] # "idle" /\ Fault /\ Leave(u)
  /\ UNCHANGED <<host, release, paths, content, service, checks>>

Update(u) ==
  \/ Clean(u) \/ HashExe(u) \/ FetchSum(u) \/ CheckDownload(u)
  \/ StagePartial(u) \/ OpenDownload(u) \/ NotFound(u) \/ WritePart(u)
  \/ EndDownload(u) \/ Verify(u) \/ SanityCheck(u)
  \/ SwapUnix(u) \/ SwapAside(u) \/ SwapIn(u)

Next ==
  \/ \E b \in Build : Publish(b)
  \/ Upload \/ RestartService
  \/ \E u \in Updater : Start(u) \/ Update(u) \/ Fail(u) \/ Crash(u)

\* A running update goes on, CI finishes its upload, and the operator who wants
\* the new build runs the command again until it is installed.
Fairness ==
  /\ \A u \in Updater : WF_vars(Update(u))
  /\ \A u \in Updater \ CheckOnly : WF_vars(Start(u))
  /\ WF_vars(Upload)

Spec == Init /\ [][Next]_vars /\ Fairness

----------------------------------------------------------------------------
(* Properties *)

Usable(path) ==
  path # NoFile /\ content[path] \in {Whole(b) : b \in Build \ Broken}

\* Whatever is killed, fails, is republished or checks for updates at the same
\* time, the host keeps a whole build that loads.  On unix the executable is
\* one at every moment; on Windows the one moved aside is, between the renames
\* of swap_into_place.
BinaryKept ==
  \/ Usable(exe)
  \/ host = "windows" /\ exe = NoFile /\ Usable(old)

\* What run_update installs is what it verified: the executable it puts in
\* place holds the bytes that it hashed, their hash is that of the checksum, if
\* one was found, and it is not the build that ran before.
Installs(u) == pc[u] \in {"swap", "swapin"} /\ pc'[u] = "idle" /\ exe' = partial
InstalledAsVerified ==
  [][\A u \in Updater :
       Installs(u) /\ exe' # NoFile =>
         /\ content[exe'] = Whole(got[u])
         /\ want[u] \in {NoBuild, got[u]}
         /\ content[exe'] # cur[u]]_vars

\* Once the last release is complete and loads on this host, an operator on
\* unix who repeats the command gets it installed, whatever the earlier runs
\* left behind.
Settled ==
  /\ host = "unix" /\ releases = MaxReleases
  /\ uploads = {} /\ sum \in {asset, NoBuild} /\ asset \in Build \ Broken
Converges == Settled ~> exe # NoFile /\ content[exe] = Whole(asset)

\* The service keeps running a whole build: no update writes to the file that
\* runs or to the one it would be restarted from.
ImageUntouched ==
  [][\A i \in Inode : i \in {exe, service} => content'[i] = content[i]]_vars
=============================================================================
