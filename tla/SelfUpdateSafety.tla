------------------------- MODULE SelfUpdateSafety -------------------------
(***************************************************************************)
(* Proofs about SelfUpdate, for any number of builds, checks, releases and *)
(* faults, and at most one installer.                                      *)
(*                                                                         *)
(* The executable stays usable because nothing is written to a path but    *)
(* the partial one, because what reaches a swap is whole and loads, and    *)
(* because on Windows the file moved aside is the image of every process   *)
(* that could remove it.                                                   *)
(***************************************************************************)
EXTENDS SelfUpdate, TLAPS

\* Two installers would share the partial file.
OneInstaller == \A u, v \in Updater \ CheckOnly : u = v

\* A check never touches a file but to remove debris.
Checking == \A u \in CheckOnly : pc[u] \in {"idle", "clean", "hash", "sum", "check"}

\* No two paths name one file.
Distinct ==
  /\ exe # NoFile => exe \notin {partial, old}
  /\ partial # NoFile => partial # old

\* What is written is the partial file, or one without a name.
Writing ==
  /\ service # partial
  /\ \A u \in Updater :
       /\ file[u] # NoFile <=> pc[u] = "write"
       /\ pc[u] = "write" =>
            /\ file[u] \notin {exe, old, service}
            /\ partial \in {NoFile, file[u]}
            /\ got[u] \in Build
            /\ \A p \in 1..part[u] : content[file[u]][p] = got[u]

\* From the end of a download on, the partial file holds what was downloaded;
\* after Verify it is a build the update may install, after SanityCheck it loads.
Downloaded ==
  \A u \in Updater :
    /\ pc[u] \in {"verify", "exec", "swap", "swapin"} =>
         /\ got[u] \in Build
         /\ partial # NoFile => content[partial] = Whole(got[u])
    /\ pc[u] \in {"exec", "swap", "swapin"} =>
         /\ want[u] \in {NoBuild, got[u]}
         /\ Whole(got[u]) # cur[u]
    /\ pc[u] \in {"swap", "swapin"} /\ partial # NoFile => got[u] \notin Broken

\* On Windows every update runs the executable or the one moved aside, which
\* Windows does not let anybody remove.
Images ==
  /\ host = "windows" =>
       \A u \in Updater : pc[u] # "idle" => image[u] \in {exe, old} \ {NoFile}
  /\ \A u \in Updater : pc[u] = "swapin" => host = "windows" /\ exe = NoFile

IInv == /\ TypeOK /\ Checking /\ Distinct /\ Writing /\ Downloaded /\ Images
        /\ BinaryKept

---------------------------------------------------------------------------
LEMMA PartFacts ==
  /\ Blank \in [Part -> Build \cup {NoBuild}]
  /\ \A b \in Build \cup {NoBuild} : Whole(b) \in [Part -> Build \cup {NoBuild}]
  /\ \A a, b \in Build \cup {NoBuild} : Whole(a) = Whole(b) => a = b
BY DEF Part, Blank, Whole

LEMMA InitIInv == Init => IInv
<1> SUFFICES ASSUME Init PROVE IInv
  OBVIOUS
<1>1. exe \in Inode
  BY SelfUpdateAssumption DEF Init
<1>2. TypeOK
  <2>1. asset \in Build \cup {NoBuild} /\ sum \in Build \cup {NoBuild}
        /\ sums \in BOOLEAN /\ uploads \subseteq Build \X {"asset", "sum"}
    BY DEF Init
  <2>2. PICK b \in Build \ Broken :
          content = [i \in Inode |-> IF i = exe THEN Whole(b) ELSE Blank]
    BY DEF Init
  <2>3. content \in [Inode -> [Part -> Build \cup {NoBuild}]]
    BY <2>2, PartFacts
  <2> QED
    BY <1>1, <2>1, <2>3, PartFacts, SelfUpdateAssumption DEF Init, TypeOK, Step
<1>3. Checking /\ Distinct /\ Writing /\ Downloaded /\ Images
  BY <1>1, SelfUpdateAssumption
  DEF Init, Checking, Distinct, Writing, Downloaded, Images
<1>4. BinaryKept
  BY <1>1, SelfUpdateAssumption DEF Init, BinaryKept, Usable
<1> QED
  BY <1>2, <1>3, <1>4 DEF IInv

\* Every step but those that write to a path keeps what the paths name.
LEMMA LeaveTypes ==
  ASSUME TypeOK, NEW u \in Updater, Leave(u)
  PROVE  /\ pc' \in [Updater -> Step]
         /\ image' \in [Updater -> Inode \cup {NoFile}]
         /\ cur' \in [Updater -> [Part -> Build \cup {NoBuild}]]
         /\ want' \in [Updater -> Build \cup {NoBuild}]
         /\ got' \in [Updater -> Build \cup {NoBuild}]
         /\ file' \in [Updater -> Inode \cup {NoFile}]
         /\ part' \in [Updater -> 0..2]
BY PartFacts DEF TypeOK, Leave, Step

LEMMA CreatedFact ==
  ASSUME TypeOK, Distinct, Writing, Creates
  PROVE  /\ Created \in Inode
         /\ Created \notin {exe, old, service}
         /\ partial' = Created
         /\ content' = [content EXCEPT ![Created] = Blank]
         /\ UNCHANGED <<exe, old>>
<1> USE SelfUpdateAssumption DEF Creates
<1>1. CASE partial = NoFile
  <2>1. Created \in Free
    BY <1>1 DEF Created
  <2> QED
    BY <2>1 DEF Free, Runs
<1>2. CASE partial # NoFile
  BY <1>2 DEF Created, TypeOK, Distinct, Writing
<1> QED
  BY <1>1, <1>2

---------------------------------------------------------------------------
LEMMA EnvironmentStep ==
  ASSUME IInv, Upload \/ RestartService \/ (\E b \in Build : Publish(b))
  PROVE  IInv'
<1> USE SelfUpdateAssumption DEF IInv
<1>1. CASE Upload \/ \E b \in Build : Publish(b)
  <2>1. UNCHANGED <<host, paths, content, service, pc, image, hashes, file, part,
                    faults, checks, sums>>
    BY <1>1 DEF Upload, Publish
  <2>2. asset' \in Build \cup {NoBuild} /\ sum' \in Build \cup {NoBuild}
    BY <1>1 DEF Upload, Publish, TypeOK
  <2>3. uploads' \subseteq Build \X {"asset", "sum"} /\ releases' \in 0..MaxReleases
    <3>1. CASE Upload
      <4>1. uploads' \subseteq uploads /\ UNCHANGED releases
        BY <3>1 DEF Upload
      <4> QED
        BY <4>1 DEF TypeOK
    <3>2. ASSUME NEW b \in Build, Publish(b)
          PROVE  uploads' \subseteq Build \X {"asset", "sum"} /\ releases' \in 0..MaxReleases
      <4>1. uploads' = uploads \cup {<<b, f>> : f \in {"asset"} \cup IF sums THEN {"sum"} ELSE {}}
        BY <3>2 DEF Publish
      <4>2. releases < MaxReleases /\ releases' = releases + 1
        BY <3>2 DEF Publish
      <4> QED
        BY <4>1, <4>2 DEF TypeOK
    <3> QED
      BY <1>1, <3>1, <3>2
  <2>4. TypeOK'
    BY <2>1, <2>2, <2>3 DEF TypeOK, paths, hashes
  <2> QED
    BY <2>1, <2>4 DEF Checking, Distinct, Writing, Downloaded, Images, BinaryKept,
       Usable, paths, hashes
<1>2. CASE RestartService
  <2>1. TypeOK' /\ Checking' /\ Distinct'
    BY <1>2 DEF RestartService, TypeOK, Checking, Distinct, release, paths, hashes
  <2>2. Writing'
    BY <1>2 DEF RestartService, TypeOK, Distinct, Writing, paths, hashes
  <2>3. Downloaded' /\ Images' /\ BinaryKept'
    BY <1>2 DEF RestartService, Downloaded, Images, BinaryKept, Usable, paths,
       hashes
  <2> QED
    BY <2>1, <2>2, <2>3
<1> QED
  BY <1>1, <1>2

LEMMA StartStep ==
  ASSUME IInv, NEW u \in Updater, Start(u)
  PROVE  IInv'
<1> USE SelfUpdateAssumption DEF IInv
<1>1. TypeOK'
  BY DEF Start, TypeOK, Step, release, paths, hashes
<1>2. Checking' /\ Distinct' /\ Writing' /\ Downloaded'
  BY DEF Start, TypeOK, Checking, Distinct, Writing, Downloaded, paths, hashes
<1>3. Images' /\ BinaryKept'
  BY DEF Start, TypeOK, Images, BinaryKept, Usable, paths, hashes
<1> QED
  BY <1>1, <1>2, <1>3

\* An update that ends, and changes no path.
LEMMA LeaveStep ==
  ASSUME IInv, NEW u \in Updater, Leave(u), faults' \in 0..MaxFaults,
         UNCHANGED <<host, release, paths, content, service, checks>>
  PROVE  IInv'
<1> USE DEF IInv
<1>1. TypeOK'
  BY LeaveTypes DEF TypeOK, release, paths
<1>2. Checking' /\ Distinct'
  BY DEF Leave, TypeOK, Checking, Distinct, paths
<1>3. Writing'
  BY DEF Leave, TypeOK, Writing, paths
<1>4. Downloaded'
  BY DEF Leave, TypeOK, Downloaded, paths
<1>5. Images' /\ BinaryKept'
  BY DEF Leave, TypeOK, Images, BinaryKept, Usable, paths
<1> QED
  BY <1>1, <1>2, <1>3, <1>4, <1>5

\* Removing the partial file harms nothing.
LEMMA PartialGone ==
  ASSUME IInv, NEW u \in Updater, Leave(u), faults' \in 0..MaxFaults,
         partial' \in {partial, NoFile},
         UNCHANGED <<host, release, exe, old, content, service, checks>>
  PROVE  IInv'
<1> USE SelfUpdateAssumption DEF IInv
<1>1. TypeOK'
  BY LeaveTypes DEF TypeOK, release
<1>2. Checking' /\ Distinct'
  BY DEF Leave, TypeOK, Checking, Distinct
<1>3. Writing'
  BY DEF Leave, TypeOK, Writing
<1>4. Downloaded'
  BY DEF Leave, TypeOK, Downloaded
<1>5. Images' /\ BinaryKept'
  BY DEF Leave, TypeOK, Images, BinaryKept, Usable
<1> QED
  BY <1>1, <1>2, <1>3, <1>4, <1>5

LEMMA FailStep ==
  ASSUME IInv, NEW u \in Updater, Fail(u) \/ Crash(u)
  PROVE  IInv'
<1>1. faults' \in 0..MaxFaults
  BY SelfUpdateAssumption DEF Fail, Crash, Fault, IInv, TypeOK
<1>2. CASE Fail(u)
  BY <1>1, <1>2, PartialGone DEF Fail, Removed
<1>3. CASE Crash(u)
  BY <1>1, <1>3, LeaveStep DEF Crash
<1> QED
  BY <1>2, <1>3

---------------------------------------------------------------------------
\* The steps of an update before its download.
LEMMA CleanStep ==
  ASSUME IInv, NEW u \in Updater, Clean(u)
  PROVE  IInv'
<1> USE SelfUpdateAssumption DEF IInv
<1>1. partial' \in {partial, NoFile} /\ old' \in {old, NoFile}
  BY DEF Clean, Removed
<1>2. /\ pc[u] = "clean" /\ pc' = [pc EXCEPT ![u] = "hash"]
      /\ UNCHANGED <<host, release, exe, content, service, faults, checks, image,
                     file, part, hashes>>
  BY DEF Clean, Go
<1>3. host = "windows" /\ exe = NoFile => old' = old
  BY <1>2 DEF Clean, Images, Removed, Runs, TypeOK
<1>4. TypeOK'
  BY <1>1, <1>2 DEF TypeOK, Step, release, hashes
<1>5. Checking' /\ Distinct'
  BY <1>1, <1>2 DEF TypeOK, Checking, Distinct
<1>6. Writing'
  BY <1>1, <1>2 DEF TypeOK, Writing, hashes
<1>7. Downloaded'
  BY <1>1, <1>2 DEF TypeOK, Downloaded, hashes
<1>8. Images'
  <2>1. ASSUME host = "windows", NEW v \in Updater, pc[v] # "idle"
        PROVE  image[v] \in {exe, old'} \ {NoFile}
    BY <2>1 DEF Images, Clean, Removed, Runs
  <2> QED
    BY <1>2, <2>1 DEF Images, TypeOK
<1>9. BinaryKept'
  BY <1>2, <1>3 DEF BinaryKept, Usable
<1> QED
  BY <1>4, <1>5, <1>6, <1>7, <1>8, <1>9

\* A step that changes nothing but where an update is, to a step at which the
\* invariant asks nothing of it, and what it knows.
LEMMA AdvanceStep ==
  ASSUME IInv, NEW u \in Updater, TypeOK',
         pc[u] # "idle", pc[u] # "write", NEW step \in {"sum", "check", "stage"},
         u \in CheckOnly => step # "stage",
         pc' = [pc EXCEPT ![u] = step],
         \A v \in Updater \ {u} : got'[v] = got[v] /\ want'[v] = want[v]
                                 /\ cur'[v] = cur[v],
         UNCHANGED <<host, paths, content, service, image, file, part>>
  PROVE  IInv'
<1> USE DEF IInv
<1>1. Checking' /\ Distinct'
  BY DEF TypeOK, Checking, Distinct, paths
<1>2. Writing'
  BY DEF TypeOK, Writing, paths
<1>3. Downloaded'
  BY DEF TypeOK, Downloaded, paths
<1>4. Images' /\ BinaryKept'
  BY DEF TypeOK, Images, BinaryKept, Usable, paths
<1> QED
  BY <1>1, <1>2, <1>3, <1>4

LEMMA BeforeDownload ==
  ASSUME IInv, NEW u \in Updater, HashExe(u) \/ FetchSum(u) \/ CheckDownload(u)
  PROVE  IInv'
<1>1. faults \in 0..MaxFaults
  BY DEF IInv, TypeOK
<1>2. CASE HashExe(u)
  <2>1. CASE exe = NoFile
    BY <1>1, <1>2, <2>1, LeaveStep DEF HashExe
  <2>2. CASE exe # NoFile
    <3> DEFINE hash == content[exe]
    <3>a. hash \in [Part -> Build \cup {NoBuild}]
      BY <2>2 DEF IInv, TypeOK
    <3>b. cur' = [cur EXCEPT ![u] = hash]
      BY <1>2, <2>2 DEF HashExe
    <3> HIDE DEF hash
    <3>1. TypeOK'
      BY <1>2, <2>2, <3>a, <3>b DEF HashExe, IInv, TypeOK, Step, release, paths
    <3>2. pc[u] = "hash" /\ pc' = [pc EXCEPT ![u] = "sum"]
      BY <1>2, <2>2 DEF HashExe
    <3>3. /\ \A v \in Updater \ {u} : got'[v] = got[v] /\ want'[v] = want[v]
                                      /\ cur'[v] = cur[v]
          /\ UNCHANGED <<host, paths, content, service, image, file, part>>
      BY <1>2, <2>2 DEF HashExe, IInv, TypeOK
    <3> QED
      BY <3>1, <3>2, <3>3, AdvanceStep
  <2> QED
    BY <2>1, <2>2
<1>3. CASE FetchSum(u)
  <2> DEFINE over == sum # NoBuild /\ (Whole(sum) = cur[u] \/ u \in CheckOnly)
  <2>1. CASE over
    BY <1>1, <1>3, <2>1, LeaveStep DEF FetchSum
  <2>2. CASE ~over
    <3> DEFINE step == IF u \in CheckOnly THEN "check" ELSE "stage"
    <3>1. TypeOK'
      BY <1>3, <2>2 DEF FetchSum, IInv, TypeOK, Step, release, paths
    <3>2. pc[u] = "sum" /\ pc' = [pc EXCEPT ![u] = step]
      BY <1>3, <2>2 DEF FetchSum
    <3>3. /\ \A v \in Updater \ {u} : got'[v] = got[v] /\ want'[v] = want[v]
                                      /\ cur'[v] = cur[v]
          /\ UNCHANGED <<host, paths, content, service, image, file, part>>
      BY <1>3, <2>2 DEF FetchSum, IInv, TypeOK
    <3>4. step \in {"sum", "check", "stage"} /\ (u \in CheckOnly => step # "stage")
      OBVIOUS
    <3> HIDE DEF step
    <3> QED
      BY <3>1, <3>2, <3>3, <3>4, AdvanceStep
  <2> QED
    BY <2>1, <2>2
<1>4. CASE CheckDownload(u)
  BY <1>1, <1>4, LeaveStep DEF CheckDownload
<1> QED
  BY <1>2, <1>3, <1>4

---------------------------------------------------------------------------
(* The download and what follows it: only the installer comes here. *)

Late == {"stage", "get", "write", "verify", "exec", "swap", "swapin"}

LEMMA Alone ==
  ASSUME OneInstaller, Checking, NEW u \in Updater, pc[u] \in Late
  PROVE  /\ u \notin CheckOnly
         /\ \A v \in Updater : pc[v] \in Late => v = u
BY DEF OneInstaller, Checking, Late

LEMMA StageStep ==
  ASSUME IInv, OneInstaller, NEW u \in Updater, StagePartial(u)
  PROVE  IInv'
<1> USE SelfUpdateAssumption DEF IInv
<1>1. /\ pc[u] = "stage" /\ pc' = [pc EXCEPT ![u] = "get"]
      /\ UNCHANGED <<host, release, service, faults, checks, image, file, part,
                     hashes>>
      /\ Creates
  BY DEF StagePartial, Go
<1>2. /\ Created \in Inode /\ Created \notin {exe, old, service}
      /\ partial' = Created /\ content' = [content EXCEPT ![Created] = Blank]
      /\ UNCHANGED <<exe, old>>
  BY <1>1, CreatedFact
<1>3. u \notin CheckOnly /\ \A v \in Updater : pc[v] \in Late => v = u
  BY <1>1, Alone DEF Late
<1>4. TypeOK'
  BY <1>1, <1>2, PartFacts DEF TypeOK, Step, release, hashes
<1>5. Checking' /\ Distinct'
  BY <1>1, <1>2, <1>3 DEF TypeOK, Checking, Distinct
<1>6. Writing'
  BY <1>1, <1>2, <1>3 DEF TypeOK, Writing, Late, hashes
<1>7. Downloaded'
  BY <1>1, <1>2, <1>3 DEF TypeOK, Downloaded, Late, hashes
<1>8. Images'
  BY <1>1, <1>2 DEF TypeOK, Images
<1>9. BinaryKept'
  BY <1>1, <1>2 DEF TypeOK, BinaryKept, Usable
<1> QED
  BY <1>4, <1>5, <1>6, <1>7, <1>8, <1>9

LEMMA OpenStep ==
  ASSUME IInv, OneInstaller, NEW u \in Updater, OpenDownload(u)
  PROVE  IInv'
<1> USE SelfUpdateAssumption DEF IInv
<1>1. /\ pc[u] = "get" /\ pc' = [pc EXCEPT ![u] = "write"]
      /\ got' = [got EXCEPT ![u] = asset] /\ file' = [file EXCEPT ![u] = Created]
      /\ part' = [part EXCEPT ![u] = 0]
      /\ UNCHANGED <<host, release, service, faults, checks, image, cur, want>>
      /\ Creates /\ asset # NoBuild
  BY DEF OpenDownload
<1>2. /\ Created \in Inode /\ Created \notin {exe, old, service}
      /\ partial' = Created /\ content' = [content EXCEPT ![Created] = Blank]
      /\ UNCHANGED <<exe, old>>
  BY <1>1, CreatedFact
<1>3. u \notin CheckOnly /\ \A v \in Updater : pc[v] \in Late => v = u
  BY <1>1, Alone DEF Late
<1>4. TypeOK'
  BY <1>1, <1>2, PartFacts DEF TypeOK, Step, release
<1>5. Checking' /\ Distinct'
  BY <1>1, <1>2, <1>3 DEF TypeOK, Checking, Distinct
<1>6. Writing'
  BY <1>1, <1>2, <1>3 DEF TypeOK, Writing, Late
<1>7. Downloaded'
  BY <1>1, <1>2, <1>3 DEF TypeOK, Downloaded, Late
<1>8. Images'
  BY <1>1, <1>2 DEF TypeOK, Images
<1>9. BinaryKept'
  BY <1>1, <1>2 DEF TypeOK, BinaryKept, Usable
<1> QED
  BY <1>4, <1>5, <1>6, <1>7, <1>8, <1>9

LEMMA MissingStep ==
  ASSUME IInv, NEW u \in Updater, NotFound(u)
  PROVE  IInv'
<1>1. faults' \in 0..MaxFaults
  BY DEF NotFound, IInv, TypeOK
<1> QED
  BY <1>1, PartialGone DEF NotFound, Removed

LEMMA WriteStep ==
  ASSUME IInv, OneInstaller, NEW u \in Updater, WritePart(u)
  PROVE  IInv'
<1> USE SelfUpdateAssumption DEF IInv
<1>1. /\ pc[u] = "write" /\ part[u] < 2 /\ part' = [part EXCEPT ![u] = part[u] + 1]
      /\ content' = [content EXCEPT ![file[u]][part[u] + 1] = got[u]]
      /\ UNCHANGED <<host, release, paths, service, pc, image, hashes, file,
                     faults, checks>>
  BY DEF WritePart
<1>2. u \notin CheckOnly /\ \A v \in Updater : pc[v] \in Late => v = u
  BY <1>1, Alone DEF Late
<1>3. /\ file[u] \in Inode \ {exe, old, service} /\ got[u] \in Build
      /\ part[u] \in {0, 1}
  BY <1>1 DEF Writing, TypeOK
<1>4. /\ content'[file[u]] = [content[file[u]] EXCEPT ![part[u] + 1] = got[u]]
      /\ content[file[u]] \in [Part -> Build \cup {NoBuild}]
      /\ \A i \in Inode \ {file[u]} : content'[i] = content[i]
      /\ content' \in [Inode -> [Part -> Build \cup {NoBuild}]]
  BY <1>1, <1>3 DEF TypeOK, Part
<1>5. TypeOK'
  BY <1>1, <1>3, <1>4 DEF TypeOK, release, paths, hashes
<1>6. Checking' /\ Distinct'
  BY <1>1 DEF Checking, Distinct, paths
<1>7. Writing'
  <2>1. \A q \in 1..part'[u] : content'[file[u]][q] = got[u]
    BY <1>1, <1>3, <1>4 DEF Writing, TypeOK, Part
  <2> QED
    BY <1>1, <1>2, <2>1 DEF Writing, Late, paths, hashes
<1>8. Downloaded'
  BY <1>1, <1>2 DEF Downloaded, Late, paths, hashes
<1>9. Images' /\ BinaryKept'
  BY <1>1, <1>3, <1>4 DEF TypeOK, Images, BinaryKept, Usable, paths
<1> QED
  BY <1>5, <1>6, <1>7, <1>8, <1>9

LEMMA EndStep ==
  ASSUME IInv, OneInstaller, NEW u \in Updater, EndDownload(u)
  PROVE  IInv'
<1> USE SelfUpdateAssumption DEF IInv
<1>1. /\ pc[u] = "write" /\ part[u] = 2 /\ file' = [file EXCEPT ![u] = NoFile]
      /\ pc' = [pc EXCEPT ![u] = "verify"]
      /\ UNCHANGED <<host, release, paths, content, service, image, hashes, part,
                     faults, checks>>
  BY DEF EndDownload
<1>2. u \notin CheckOnly /\ \A v \in Updater : pc[v] \in Late => v = u
  BY <1>1, Alone DEF Late
<1>3. TypeOK'
  BY <1>1 DEF TypeOK, Step, release, paths, hashes
<1>4. Checking' /\ Distinct'
  BY <1>1, <1>2 DEF TypeOK, Checking, Distinct, paths
<1>5. Writing'
  BY <1>1, <1>2 DEF TypeOK, Writing, paths, hashes
<1>6. Downloaded'
  <2>1. partial # NoFile => content[partial] = Whole(got[u])
    <3> SUFFICES ASSUME partial # NoFile PROVE content[partial] = Whole(got[u])
      OBVIOUS
    <3>1. partial = file[u] /\ content[partial] \in [Part -> Build \cup {NoBuild}]
      BY <1>1 DEF Writing, TypeOK
    <3>2. content[partial][1] = got[u] /\ content[partial][2] = got[u]
      BY <1>1, <3>1 DEF Writing
    <3> QED
      BY <3>1, <3>2 DEF Whole, Part
  <2>2. got[u] \in Build
    BY <1>1 DEF Writing
  <2> QED
    BY <1>1, <1>2, <2>1, <2>2 DEF TypeOK, Downloaded, Late, paths, hashes
<1>7. Images' /\ BinaryKept'
  BY <1>1 DEF TypeOK, Images, BinaryKept, Usable, paths
<1> QED
  BY <1>3, <1>4, <1>5, <1>6, <1>7

\* A build loads or it does not; only of other content either may be seen.
LEMMA LoadsWhole ==
  ASSUME NEW b \in Build, TRUE \in Loads(Whole(b))
  PROVE  b \notin Broken
<1> USE SelfUpdateAssumption
<1>1. \E d \in Build : Whole(b) = Whole(d)
  OBVIOUS
<1>2. Whole(b) # Blank
  BY DEF Whole, Blank, Part
<1>3. Loads(Whole(b)) = {Whole(b) \notin {Whole(d) : d \in Broken}}
  BY <1>1, <1>2 DEF Loads
<1>4. Whole(b) \notin {Whole(d) : d \in Broken}
  BY <1>3
<1> QED
  BY <1>4

\* A step of the installer between the download and the swap.
LEMMA JudgeStep ==
  ASSUME IInv, OneInstaller, NEW u \in Updater, NEW step \in {"exec", "swap"},
         pc[u] \in {"verify", "exec"}, pc' = [pc EXCEPT ![u] = step],
         want[u] \in {NoBuild, got[u]}, Whole(got[u]) # cur[u],
         step = "swap" => got[u] \notin Broken,
         UNCHANGED <<host, release, paths, content, service, image, file, part,
                     hashes, faults, checks>>
  PROVE  IInv'
<1> USE SelfUpdateAssumption DEF IInv
<1>1. u \notin CheckOnly /\ \A v \in Updater : pc[v] \in Late => v = u
  BY Alone DEF Late
<1>2. TypeOK'
  BY DEF TypeOK, Step, release, paths, hashes
<1>3. Checking' /\ Distinct'
  BY <1>1 DEF TypeOK, Checking, Distinct, paths
<1>4. Writing'
  BY <1>1 DEF TypeOK, Writing, paths, hashes
<1>5. Downloaded'
  BY <1>1 DEF TypeOK, Downloaded, Late, paths, hashes
<1>6. Images' /\ BinaryKept'
  BY DEF TypeOK, Images, BinaryKept, Usable, paths
<1> QED
  BY <1>2, <1>3, <1>4, <1>5, <1>6

LEMMA VerifyStep ==
  ASSUME IInv, OneInstaller, NEW u \in Updater, Verify(u)
  PROVE  IInv'
<1>1. faults' \in 0..MaxFaults
  BY DEF Verify, IInv, TypeOK
<1> DEFINE refused == want[u] \notin {NoBuild, got[u]} \/ Whole(got[u]) = cur[u]
<1>2. CASE refused
  BY <1>1, <1>2, PartialGone DEF Verify, Removed
<1>3. CASE ~refused /\ partial = NoFile
  BY <1>1, <1>3, LeaveStep DEF Verify, paths
<1>4. CASE ~refused /\ partial # NoFile
  <2>1. /\ pc[u] = "verify" /\ pc' = [pc EXCEPT ![u] = "exec"]
        /\ UNCHANGED <<host, release, paths, content, service, image, file, part,
                       hashes, faults, checks>>
    BY <1>4 DEF Verify, Go, paths
  <2> QED
    BY <1>4, <2>1, JudgeStep
<1> QED
  BY <1>2, <1>3, <1>4

LEMMA SanityStep ==
  ASSUME IInv, OneInstaller, NEW u \in Updater, SanityCheck(u)
  PROVE  IInv'
<1>1. faults' \in 0..MaxFaults
  BY DEF SanityCheck, IInv, TypeOK
<1>2. CASE Leave(u)
  BY <1>1, <1>2, LeaveStep DEF SanityCheck
<1>3. CASE ~Leave(u)
  <2>1. /\ partial # NoFile /\ TRUE \in Loads(content[partial])
        /\ pc[u] = "exec" /\ Go(u, "swap")
    BY <1>3 DEF SanityCheck
  <2>2. /\ got[u] \in Build /\ content[partial] = Whole(got[u])
        /\ want[u] \in {NoBuild, got[u]} /\ Whole(got[u]) # cur[u]
    BY <2>1 DEF IInv, Downloaded
  <2>3. got[u] \notin Broken
    BY <2>1, <2>2, LoadsWhole
  <2>4. pc' = [pc EXCEPT ![u] = "swap"]
        /\ UNCHANGED <<host, release, paths, content, service, image, file, part,
                       hashes, faults, checks>>
    BY <2>1 DEF SanityCheck, Go
  <2> QED
    BY <2>1, <2>2, <2>3, <2>4, JudgeStep
<1> QED
  BY <1>2, <1>3

\* What the installer is about to install.
LEMMA Installable ==
  ASSUME IInv, NEW u \in Updater, pc[u] \in {"swap", "swapin"}, partial # NoFile
  PROVE  /\ partial \in Inode
         /\ content[partial] \in {Whole(b) : b \in Build \ Broken}
BY DEF IInv, Downloaded, TypeOK

LEMMA SwapUnixStep ==
  ASSUME IInv, OneInstaller, NEW u \in Updater, SwapUnix(u)
  PROVE  IInv'
<1>1. faults' \in 0..MaxFaults
  BY DEF SwapUnix, IInv, TypeOK
<1>2. CASE partial = NoFile
  BY <1>1, <1>2, LeaveStep DEF SwapUnix
<1>3. CASE partial # NoFile
  <2> USE SelfUpdateAssumption DEF IInv
  <2>1. /\ host = "unix" /\ pc[u] = "swap" /\ Leave(u)
        /\ exe' = partial /\ partial' = NoFile
        /\ UNCHANGED <<old, host, release, content, service, faults, checks>>
    BY <1>3 DEF SwapUnix
  <2>2. \A v \in Updater : pc[v] \in Late => v = u
    BY <2>1, Alone DEF Late
  <2>3. TypeOK'
    BY <2>1, LeaveTypes DEF TypeOK, release
  <2>4. Checking' /\ Distinct'
    BY <2>1 DEF Leave, TypeOK, Checking, Distinct
  <2>5. Writing'
    BY <2>1, <2>2 DEF Leave, TypeOK, Writing, Late
  <2>6. Downloaded'
    BY <2>1, <2>2 DEF Leave, TypeOK, Downloaded, Late
  <2>7. Images'
    BY <2>1, <2>2 DEF Leave, TypeOK, Images, Late
  <2>8. BinaryKept'
    BY <1>3, <2>1, Installable DEF BinaryKept, Usable
  <2> QED
    BY <2>3, <2>4, <2>5, <2>6, <2>7, <2>8
<1> QED
  BY <1>2, <1>3

LEMMA SwapAsideStep ==
  ASSUME IInv, OneInstaller, NEW u \in Updater, SwapAside(u)
  PROVE  IInv'
<1>1. faults' \in 0..MaxFaults
  BY DEF SwapAside, IInv, TypeOK
<1> DEFINE refused == exe = NoFile \/ (old # NoFile /\ Runs(old))
<1>2. CASE refused
  BY <1>1, <1>2, LeaveStep DEF SwapAside
<1>3. CASE ~refused
  <2> USE SelfUpdateAssumption DEF IInv
  <2>1. /\ host = "windows" /\ pc[u] = "swap" /\ pc' = [pc EXCEPT ![u] = "swapin"]
        /\ exe # NoFile /\ old' = exe /\ exe' = NoFile
        /\ UNCHANGED <<partial, host, release, content, service, faults, checks,
                       image, file, part, hashes>>
    BY <1>3 DEF SwapAside, Go
  <2>2. u \notin CheckOnly /\ \A v \in Updater : pc[v] \in Late => v = u
    BY <2>1, Alone DEF Late
  <2>3. TypeOK'
    BY <2>1 DEF TypeOK, Step, release, hashes
  <2>4. Checking' /\ Distinct'
    BY <2>1, <2>2 DEF TypeOK, Checking, Distinct
  <2>5. Writing'
    BY <2>1, <2>2 DEF TypeOK, Writing, Late, hashes
  <2>6. Downloaded'
    BY <2>1, <2>2 DEF TypeOK, Downloaded, Late, hashes
  <2>7. Images'
    <3>1. ASSUME NEW v \in Updater, pc[v] # "idle" PROVE image[v] = exe
      BY <1>3, <2>1, <3>1 DEF Images, Runs
    <3> QED
      BY <2>1, <2>2, <3>1 DEF TypeOK, Images, Late
  <2>8. BinaryKept'
    BY <2>1 DEF BinaryKept, Usable
  <2> QED
    BY <2>3, <2>4, <2>5, <2>6, <2>7, <2>8
<1> QED
  BY <1>2, <1>3

LEMMA SwapInStep ==
  ASSUME IInv, OneInstaller, NEW u \in Updater, SwapIn(u)
  PROVE  IInv'
<1> USE SelfUpdateAssumption DEF IInv
<1>1. /\ pc[u] = "swapin" /\ Leave(u)
      /\ UNCHANGED <<host, release, content, service, checks>>
  BY DEF SwapIn
<1>2. \A v \in Updater : pc[v] \in Late => v = u
  BY <1>1, Alone DEF Late
<1>3. faults' \in 0..MaxFaults
  BY DEF SwapIn, Fault, TypeOK
<1>4. host = "windows" /\ exe = NoFile /\ Usable(old)
  BY <1>1 DEF Images, BinaryKept, Usable
<1>5. CASE partial # NoFile /\ exe' = partial /\ partial' = NoFile /\ old' = old
  <2>1. TypeOK'
    BY <1>1, <1>3, <1>5, LeaveTypes DEF TypeOK, release
  <2>2. Checking' /\ Distinct'
    BY <1>1, <1>5 DEF Leave, TypeOK, Checking, Distinct
  <2>3. Writing' /\ Downloaded'
    BY <1>1, <1>2, <1>5 DEF Leave, TypeOK, Writing, Downloaded, Late
  <2>4. Images'
    BY <1>1, <1>2, <1>4, <1>5 DEF Leave, TypeOK, Images, Late
  <2>5. BinaryKept'
    BY <1>1, <1>5, Installable DEF BinaryKept, Usable
  <2> QED
    BY <2>1, <2>2, <2>3, <2>4, <2>5
<1>6. CASE exe' = old /\ old' = NoFile /\ partial' = partial
  <2>1. TypeOK'
    BY <1>1, <1>3, <1>6, LeaveTypes DEF TypeOK, release
  <2>2. Checking' /\ Distinct'
    BY <1>1, <1>6 DEF Leave, TypeOK, Checking, Distinct
  <2>3. Writing' /\ Downloaded'
    BY <1>1, <1>2, <1>6 DEF Leave, TypeOK, Writing, Downloaded, Late
  <2>4. Images'
    BY <1>1, <1>2, <1>4, <1>6 DEF Leave, TypeOK, Images, Late
  <2>5. BinaryKept'
    BY <1>1, <1>4, <1>6 DEF BinaryKept, Usable
  <2> QED
    BY <2>1, <2>2, <2>3, <2>4, <2>5
<1> QED
  BY <1>4, <1>5, <1>6 DEF SwapIn, Usable

---------------------------------------------------------------------------
LEMMA NextIInv ==
  ASSUME OneInstaller
  PROVE  IInv /\ [Next]_vars => IInv'
<1> SUFFICES ASSUME IInv, [Next]_vars PROVE IInv'
  OBVIOUS
<1>1. ASSUME NEW u \in Updater, Update(u) PROVE IInv'
  BY <1>1, CleanStep, BeforeDownload, StageStep, OpenStep, MissingStep, WriteStep,
     EndStep, VerifyStep, SanityStep, SwapUnixStep, SwapAsideStep, SwapInStep DEF Update
<1>2. CASE UNCHANGED vars
  BY <1>2 DEF vars, release, paths, hashes, IInv, TypeOK, Checking, Distinct,
     Writing, Downloaded, Images, BinaryKept, Usable
<1> QED
  BY <1>1, <1>2, EnvironmentStep, StartStep, FailStep DEF Next

LEMMA AlwaysIInv ==
  ASSUME OneInstaller
  PROVE  Spec => []IInv
<1>1. IInv /\ [Next]_vars => IInv'
  BY NextIInv
<1> QED
  BY <1>1, InitIInv, PTL DEF Spec

---------------------------------------------------------------------------
\* The types of an update, for every number of builds, checks and faults.
THEOREM TypeCorrect ==
  ASSUME OneInstaller
  PROVE  Spec => []TypeOK
<1>1. IInv => TypeOK
  BY DEF IInv
<1> QED
  BY <1>1, AlwaysIInv, PTL

\* The host keeps a whole executable that loads, whatever is killed, fails, is
\* republished or checks for updates meanwhile (self_update.rs, run_update and
\* swap_into_place).
THEOREM BinaryIsKept ==
  ASSUME OneInstaller
  PROVE  Spec => []BinaryKept
<1>1. IInv => BinaryKept
  BY DEF IInv
<1> QED
  BY <1>1, AlwaysIInv, PTL

LEMMA InstallStep ==
  ASSUME IInv, OneInstaller, [Next]_vars
  PROVE  \A u \in Updater :
           Installs(u) /\ exe' # NoFile =>
             /\ content[exe'] = Whole(got[u])
             /\ want[u] \in {NoBuild, got[u]}
             /\ content[exe'] # cur[u]
<1> SUFFICES ASSUME NEW u \in Updater, Installs(u), exe' # NoFile
             PROVE  /\ content[exe'] = Whole(got[u])
                    /\ want[u] \in {NoBuild, got[u]}
                    /\ content[exe'] # cur[u]
  OBVIOUS
<1>1. CASE exe' = partial
  BY <1>1 DEF IInv, Downloaded, Installs
<1>2. CASE exe' # partial
  BY <1>2 DEF Installs
<1> QED
  BY <1>1, <1>2

\* What an update puts in place is what it verified (self_update.rs, run_update).
THEOREM InstalledWasVerified ==
  ASSUME OneInstaller
  PROVE  Spec => InstalledAsVerified
<1>1. IInv /\ [Next]_vars =>
        [\A u \in Updater :
           Installs(u) /\ exe' # NoFile =>
             /\ content[exe'] = Whole(got[u])
             /\ want[u] \in {NoBuild, got[u]}
             /\ content[exe'] # cur[u]]_vars
  BY InstallStep
<1> QED
  BY <1>1, AlwaysIInv, PTL DEF Spec, InstalledAsVerified

LEMMA ImageStep ==
  ASSUME IInv, OneInstaller, [Next]_vars
  PROVE  \A i \in Inode : i \in {exe, service} => content'[i] = content[i]
<1> USE DEF IInv
<1>1. ASSUME NEW u \in Updater, StagePartial(u) \/ OpenDownload(u)
      PROVE  \A i \in Inode : i \in {exe, service} => content'[i] = content[i]
  <2>1. Creates
    BY <1>1 DEF StagePartial, OpenDownload
  <2> QED
    BY <2>1, CreatedFact DEF TypeOK
<1>2. ASSUME NEW u \in Updater, WritePart(u)
      PROVE  \A i \in Inode : i \in {exe, service} => content'[i] = content[i]
  BY <1>2 DEF WritePart, Writing, TypeOK
<1>3. CASE UNCHANGED content
  BY <1>3
<1> QED
  BY <1>1, <1>2, <1>3 DEF Next, Publish, Upload, RestartService, Start, Fail, Crash,
     Update, Clean, HashExe, FetchSum, CheckDownload, NotFound, EndDownload, Verify,
     SanityCheck, SwapUnix, SwapAside, SwapIn, vars

\* No update writes to the file the service runs or would be restarted from.
THEOREM ImageIsUntouched ==
  ASSUME OneInstaller
  PROVE  Spec => ImageUntouched
<1>1. IInv /\ [Next]_vars =>
        [\A i \in Inode : i \in {exe, service} => content'[i] = content[i]]_vars
  BY ImageStep
<1> QED
  BY <1>1, AlwaysIInv, PTL DEF Spec, ImageUntouched
===========================================================================
