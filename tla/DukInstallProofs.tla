-------------------------- MODULE DukInstallProofs --------------------------
(***************************************************************************)
(* The installer for every number of processes, forms, files and versions: *)
(* types, and that no manifest claims more than the files whose hashes it  *)
(* records, however installs race, fail and end half-way; and that an      *)
(* install that ran undisturbed leaves its units whole and in no need of   *)
(* another.                                                                *)
(***************************************************************************)
EXTENDS DukInstall, TLAPS

USE DukUnits, DukBound

\* Below, c is what the download host has, cdn in every state.

\* A manifest claims no version that is not out, nor one newer than a file whose
\* hash it records.
Consistent(c, m) ==
    /\ \A f \in Files : m.hashes[f] # 0 => m.hashes[f] >= m.claims[UnitOf[f]]
    /\ \A u \in Units : m.claims[u] <= c[u]

\* The version an install brings its unit to.
Goal(c, j) == IF j.unit = Saft THEN c[Saft] ELSE j.listed[j.unit]

\* What an install has done so far: the base files behind it are at the version
\* listed, or newer, and so are the files of the form it is at.
CheckHolds(c, j) ==
    /\ j.units \subseteq Forms \cup {Saft}
    /\ j.left \subseteq FilesOf(j.unit)
    /\ \A f \in FilesOf(Core) :
          (j.unit = Core => f \notin j.left) => j.mine.hashes[f] >= j.listed[Core]
    /\ j.unit # Core /\ j.left # {} =>
          \A f \in FilesOf(j.unit) \ j.left : j.mine.hashes[f] >= Goal(c, j)

\* What was downloaded is of that version or newer, and not older than the claim.
WriteHolds(c, j) ==
    /\ j.file \in j.left
    /\ j.data >= Goal(c, j) /\ j.data >= j.mine.claims[j.unit]
    /\ j.unit = Saft => j.data = c[Saft]

JobHolds(c, j) ==
    /\ j.phase # "idle" => \A u \in Units : j.listed[u] <= c[u]
    /\ j.phase \in {"checking", "writing", "saving"} => Consistent(c, j.mine)
    /\ j.phase \in {"checking", "writing"} => CheckHolds(c, j)
    /\ j.phase = "writing" => WriteHolds(c, j)

\* ClaimsAreTrue is not inductive alone: the next manifest is written from what an
\* install holds in memory, whatever others did to the disk meanwhile.
DukInv ==
    /\ DukTypeOK
    /\ \A u \in Units : feed[u] <= cdn[u]
    /\ Consistent(cdn, recorded)
    /\ \A i \in Installs : JobHolds(cdn, job[i])

-----------------------------------------------------------------------------
(* Jobs and manifests, whatever the state.                                 *)

\* A job has its fields and no others.
LEMMA JobFields ==
    ASSUME NEW j \in Jobs
    PROVE  /\ j.phase \in Phases /\ j.named \in SUBSET (Forms \cup {Saft})
           /\ j.listed \in [Units -> Versions] /\ j.mine \in Manifest /\ j.unit \in Units
           /\ j.left \in SUBSET Files /\ j.units \in SUBSET Units /\ j.file \in Files
           /\ j.data \in Versions /\ j.calm \in BOOLEAN
           /\ j = [phase |-> j.phase, named |-> j.named, listed |-> j.listed,
                   mine |-> j.mine, unit |-> j.unit, left |-> j.left, units |-> j.units,
                   file |-> j.file, data |-> j.data, calm |-> j.calm]
  BY DEF Jobs

\* A job one field of which is replaced is a job.
LEMMA FieldUpdates ==
    ASSUME NEW j \in Jobs
    PROVE  /\ \A p \in Phases : [j EXCEPT !.phase = p] \in Jobs
           /\ \A n \in SUBSET (Forms \cup {Saft}) : [j EXCEPT !.named = n] \in Jobs
           /\ \A l \in [Units -> Versions] : [j EXCEPT !.listed = l] \in Jobs
           /\ \A m \in Manifest : [j EXCEPT !.mine = m] \in Jobs
           /\ \A u \in Units : [j EXCEPT !.unit = u] \in Jobs
           /\ \A l \in SUBSET Files : [j EXCEPT !.left = l] \in Jobs
           /\ \A us \in SUBSET Units : [j EXCEPT !.units = us] \in Jobs
           /\ \A f \in Files : [j EXCEPT !.file = f] \in Jobs
           /\ \A d \in Versions : [j EXCEPT !.data = d] \in Jobs
           /\ \A b \in BOOLEAN : [j EXCEPT !.calm = b] \in Jobs
<1>1. \A p \in Phases : [j EXCEPT !.phase = p] \in Jobs
  BY DEF Jobs
<1>2. \A n \in SUBSET (Forms \cup {Saft}) : [j EXCEPT !.named = n] \in Jobs
  BY DEF Jobs
<1>3. \A l \in [Units -> Versions] : [j EXCEPT !.listed = l] \in Jobs
  BY DEF Jobs
<1>4. \A m \in Manifest : [j EXCEPT !.mine = m] \in Jobs
  BY DEF Jobs
<1>5. \A u \in Units : [j EXCEPT !.unit = u] \in Jobs
  BY DEF Jobs
<1>6. \A l \in SUBSET Files : [j EXCEPT !.left = l] \in Jobs
  BY DEF Jobs
<1>7. \A us \in SUBSET Units : [j EXCEPT !.units = us] \in Jobs
  BY DEF Jobs
<1>8. \A f \in Files : [j EXCEPT !.file = f] \in Jobs
  BY DEF Jobs
<1>9. \A d \in Versions : [j EXCEPT !.data = d] \in Jobs
  BY DEF Jobs
<1>10. \A b \in BOOLEAN : [j EXCEPT !.calm = b] \in Jobs
  BY DEF Jobs
<1>11. QED
  BY <1>1, <1>2, <1>3, <1>4, <1>5, <1>6, <1>7, <1>8, <1>9, <1>10

LEMMA ManifestFields ==
    ASSUME NEW m \in Manifest
    PROVE  /\ m.claims \in [Units -> Versions] /\ m.hashes \in [Files -> Versions]
           /\ \A u \in Units : m.claims[u] \in Nat
           /\ \A f \in Files : m.hashes[f] \in Nat
  BY DEF Manifest, Versions

LEMMA UnitFacts ==
    /\ Core \in Units /\ Saft \in Units /\ Forms \subseteq Units
    /\ \A f \in Files : UnitOf[f] \in Units
    /\ \A u : FilesOf(u) \subseteq Files
    /\ \A f \in Files, u \in Units : f \in FilesOf(u) <=> UnitOf[f] = u
  BY DEF Units, FilesOf

LEMMA BlankHolds ==
    /\ Blank \in Manifest
    /\ \A c \in [Units -> Versions] : Consistent(c, Blank)
<1>1. Blank \in Manifest
  BY DEF Blank, Manifest, Versions
<1>2. ASSUME NEW c \in [Units -> Versions] PROVE Consistent(c, Blank)
  BY UnitFacts DEF Blank, Consistent, Versions
<1>3. QED
  BY <1>1, <1>2

\* An install that is over promises nothing.
LEMMA NoJobHolds == NoJob \in Jobs /\ \A c : JobHolds(c, NoJob)
<1>1. (CHOOSE f \in Files : TRUE) \in Files
  OBVIOUS
<1>2. NoJob \in Jobs
  BY <1>1, BlankHolds, UnitFacts DEF NoJob, Jobs, Phases, Versions
<1>3. NoJob.phase = "idle"
  BY DEF NoJob
<1>4. QED
  BY <1>2, <1>3 DEF JobHolds

\* What else happens meanwhile does not disturb a job.
LEMMA CalmHolds ==
    ASSUME NEW c, NEW j \in Jobs, JobHolds(c, j)
    PROVE  /\ [j EXCEPT !.calm = FALSE] \in Jobs
           /\ JobHolds(c, [j EXCEPT !.calm = FALSE])
<1> DEFINE q == [j EXCEPT !.calm = FALSE]
<1>1. q \in Jobs
  BY FieldUpdates
<1>2. /\ q.phase = j.phase /\ q.listed = j.listed /\ q.mine = j.mine /\ q.unit = j.unit
      /\ q.left = j.left /\ q.units = j.units /\ q.file = j.file /\ q.data = j.data
  BY DEF Jobs
<1> HIDE DEF q
<1>3. JobHolds(c, q)
  BY <1>2 DEF JobHolds, CheckHolds, WriteHolds, Goal
<1>4. QED
  BY <1>1, <1>3 DEF q

\* Nor do new files on the host, while the SAF-T form's stay.
LEMMA GrownHolds ==
    ASSUME NEW c \in [Units -> Versions], NEW d \in [Units -> Versions],
           \A u \in Units : c[u] <= d[u], c[Saft] = d[Saft]
    PROVE  /\ \A m \in Manifest : Consistent(c, m) => Consistent(d, m)
           /\ \A j \in Jobs : JobHolds(c, j) => JobHolds(d, j)
<1>1. \A u \in Units : c[u] \in Nat /\ d[u] \in Nat
  BY DEF Versions
<1>2. ASSUME NEW m \in Manifest, Consistent(c, m) PROVE Consistent(d, m)
  BY <1>1, <1>2, ManifestFields DEF Consistent
<1>3. ASSUME NEW j \in Jobs, JobHolds(c, j) PROVE JobHolds(d, j)
  <2>1. Goal(c, j) = Goal(d, j)
    BY DEF Goal
  <2>2. CheckHolds(c, j) => CheckHolds(d, j)
    BY <2>1 DEF CheckHolds
  <2>3. WriteHolds(c, j) => WriteHolds(d, j)
    BY <2>1 DEF WriteHolds
  <2>4. \A u \in Units : j.listed[u] \in Nat
    BY JobFields DEF Versions
  <2>5. (\A u \in Units : j.listed[u] <= c[u]) => \A u \in Units : j.listed[u] <= d[u]
    BY <1>1, <2>4
  <2>6. j.mine \in Manifest
    BY JobFields
  <2>7. QED
    BY <1>2, <1>3, <2>2, <2>3, <2>5, <2>6 DEF JobHolds
<1>4. QED
  BY <1>2, <1>3

\* A job as it is after its file was placed.
Done(j) == [phase |-> "checking", named |-> j.named, listed |-> j.listed,
            mine |-> Recorded(j), unit |-> j.unit, left |-> j.left \ {j.file},
            units |-> j.units, file |-> NoJob.file, data |-> 0, calm |-> j.calm]

\* A placed file is recorded, and its form claimed, only as what was downloaded.
LEMMA PlacedHolds ==
    ASSUME NEW c \in [Units -> Versions], NEW j \in Jobs, j.phase = "writing",
           JobHolds(c, j)
    PROVE  Done(j) \in Jobs /\ JobHolds(c, Done(j))
<1> DEFINE m == Recorded(j)
           goal == Goal(c, j)
<1>1. /\ \A u \in Units : j.listed[u] <= c[u]
      /\ Consistent(c, j.mine) /\ CheckHolds(c, j) /\ WriteHolds(c, j)
  BY DEF JobHolds
<1>2. /\ j.mine \in Manifest /\ j.unit \in Units /\ j.file \in Files /\ j.data \in Versions
      /\ j.left \in SUBSET Files
      /\ \A u \in Units : j.listed[u] \in Versions /\ c[u] \in Versions
  BY JobFields
<1>3. goal \in Versions /\ goal <= c[j.unit] /\ goal <= j.data
  BY <1>1, <1>2, UnitFacts DEF Goal, Versions, WriteHolds
<1>4. j.file \in j.left /\ UnitOf[j.file] = j.unit /\ j.left \subseteq FilesOf(j.unit)
  BY <1>1, <1>2, UnitFacts DEF CheckHolds, WriteHolds
<1>5. /\ m.hashes = [j.mine.hashes EXCEPT ![j.file] = j.data]
      /\ m.claims = IF j.unit # Core /\ j.left = {j.file}
                    THEN [j.mine.claims EXCEPT ![j.unit] = goal] ELSE j.mine.claims
  BY <1>1 DEF Recorded, Goal, WriteHolds
<1>6. m = [claims |-> m.claims, hashes |-> m.hashes]
  BY DEF Recorded
<1>7. /\ m.hashes \in [Files -> Versions]
      /\ \A f \in Files : m.hashes[f] = IF f = j.file THEN j.data ELSE j.mine.hashes[f]
  BY <1>2, <1>5, ManifestFields
<1>8. /\ m.claims \in [Units -> Versions]
      /\ \A u \in Units : m.claims[u] = IF u = j.unit /\ j.unit # Core /\ j.left = {j.file}
                                        THEN goal ELSE j.mine.claims[u]
  <2>1. CASE j.unit # Core /\ j.left = {j.file}
    BY <2>1, <1>2, <1>3, <1>5, ManifestFields
  <2>2. CASE ~(j.unit # Core /\ j.left = {j.file})
    BY <2>2, <1>2, <1>5, ManifestFields
  <2>3. QED
    BY <2>1, <2>2
<1>9. m \in Manifest
  BY <1>6, <1>7, <1>8 DEF Manifest
<1> HIDE DEF m, goal
<1>10. \A f \in Files : j.mine.hashes[f] \in Nat
  BY <1>2, ManifestFields
<1>11. \A u \in Units : j.mine.claims[u] \in Nat
  BY <1>2, ManifestFields
<1>12. Consistent(c, m)
  <2>1. ASSUME NEW f \in Files, m.hashes[f] # 0 PROVE m.hashes[f] >= m.claims[UnitOf[f]]
    <3>1. UnitOf[f] \in Units
      BY UnitFacts
    <3>2. CASE UnitOf[f] = j.unit /\ j.unit # Core /\ j.left = {j.file}
      <4>1. m.claims[UnitOf[f]] = goal
        BY <3>1, <3>2, <1>8
      <4>2. CASE f = j.file
        BY <4>1, <4>2, <1>2, <1>3, <1>7 DEF Versions
      <4>3. CASE f # j.file
        <5>1. f \in FilesOf(j.unit) \ j.left
          BY <3>2, <4>3, <1>2, UnitFacts
        <5>2. j.mine.hashes[f] >= goal
          BY <3>2, <5>1, <1>1 DEF CheckHolds, goal
        <5>3. QED
          BY <4>1, <4>3, <5>2, <1>7
      <4>4. QED
        BY <4>2, <4>3
    <3>3. CASE ~(UnitOf[f] = j.unit /\ j.unit # Core /\ j.left = {j.file})
      <4>1. m.claims[UnitOf[f]] = j.mine.claims[UnitOf[f]]
        BY <3>1, <3>3, <1>8
      <4>2. CASE f = j.file
        BY <4>1, <4>2, <1>1, <1>4, <1>7 DEF WriteHolds
      <4>3. CASE f # j.file
        BY <2>1, <4>1, <4>3, <1>1, <1>7 DEF Consistent
      <4>4. QED
        BY <4>2, <4>3
    <3>4. QED
      BY <3>2, <3>3
  <2>2. \A u \in Units : m.claims[u] <= c[u]
    BY <1>1, <1>3, <1>8 DEF Consistent
  <2>3. QED
    BY <2>1, <2>2 DEF Consistent
<1> DEFINE q == Done(j)
<1>13. /\ q.phase = "checking" /\ q.listed = j.listed /\ q.mine = m /\ q.unit = j.unit
       /\ q.left = j.left \ {j.file} /\ q.units = j.units
  BY DEF Done, m
<1>14. q \in Jobs
  BY <1>9, JobFields, NoJobHolds DEF Done, Jobs, Phases, m, Versions
<1> HIDE DEF q
<1>15. CheckHolds(c, q)
  <2>1. q.units \subseteq Forms \cup {Saft} /\ q.left \subseteq FilesOf(q.unit)
    BY <1>1, <1>4, <1>13 DEF CheckHolds
  <2>2. ASSUME NEW f \in FilesOf(Core), q.unit = Core => f \notin q.left
        PROVE  q.mine.hashes[f] >= q.listed[Core]
    <3>1. f \in Files /\ UnitOf[f] = Core
      BY UnitFacts
    <3>2. CASE f = j.file
      <4>1. goal = j.listed[Core]
        BY <3>1, <3>2, <1>4 DEF Goal, goal
      <4>2. QED
        BY <3>1, <3>2, <4>1, <1>2, <1>3, <1>7, <1>13 DEF Versions
    <3>3. CASE f # j.file
      <4>1. j.unit = Core => f \notin j.left
        BY <2>2, <3>3, <1>13
      <4>2. j.mine.hashes[f] >= j.listed[Core]
        BY <4>1, <1>1 DEF CheckHolds
      <4>3. QED
        BY <3>1, <3>3, <4>2, <1>7, <1>13
    <3>4. QED
      BY <3>2, <3>3
  <2>3. ASSUME q.unit # Core, NEW f \in FilesOf(q.unit) \ q.left
        PROVE  q.mine.hashes[f] >= Goal(c, q)
    <3>1. Goal(c, q) = goal
      BY <1>13 DEF Goal, goal
    <3>2. f \in Files
      BY UnitFacts
    <3>3. CASE f = j.file
      BY <3>1, <3>2, <3>3, <1>2, <1>3, <1>7, <1>13 DEF Versions
    <3>4. CASE f # j.file
      <4>1. f \in FilesOf(j.unit) \ j.left /\ j.left # {}
        BY <2>3, <3>4, <1>4, <1>13
      <4>2. j.mine.hashes[f] >= goal
        BY <2>3, <4>1, <1>1, <1>13 DEF CheckHolds, goal
      <4>3. QED
        BY <3>1, <3>2, <3>4, <4>2, <1>7, <1>13
    <3>5. QED
      BY <3>3, <3>4
  <2>4. QED
    BY <2>1, <2>2, <2>3 DEF CheckHolds
<1>16. JobHolds(c, q)
  BY <1>1, <1>12, <1>13, <1>15 DEF JobHolds
<1>17. QED
  BY <1>14, <1>16 DEF q

-----------------------------------------------------------------------------
(* The steps.                                                              *)

LEMMA InitDuk == DukInit => DukInv
<1> SUFFICES ASSUME DukInit PROVE DukInv
  OBVIOUS
<1>1. feed \in [Units -> Versions] /\ cdn \in [Units -> Versions]
  BY UnitFacts DEF DukInit, Versions
<1>2. \A u \in Units : feed[u] <= cdn[u]
  BY <1>1, UnitFacts DEF DukInit, Versions
<1>3. disk \in [Files -> Versions] /\ recorded \in Manifest
  BY BlankHolds DEF DukInit, Versions
<1>4. job \in [Installs -> Jobs] /\ \A i \in Installs : JobHolds(cdn, job[i])
  BY NoJobHolds DEF DukInit
<1>5. Consistent(cdn, recorded)
  BY <1>1, BlankHolds DEF DukInit
<1>6. settled \subseteq Units
  BY DEF DukInit
<1>7. QED
  BY <1>1, <1>2, <1>3, <1>4, <1>5, <1>6 DEF DukInv, DukTypeOK

LEMMA DukFacts ==
    ASSUME DukInv
    PROVE  /\ cdn \in [Units -> Versions] /\ feed \in [Units -> Versions]
           /\ disk \in [Files -> Versions] /\ recorded \in Manifest
           /\ job \in [Installs -> Jobs] /\ settled \subseteq Units
           /\ \A u \in Units : cdn[u] \in Nat /\ feed[u] \in Nat /\ feed[u] <= cdn[u]
           /\ Consistent(cdn, recorded)
           /\ \A i \in Installs : job[i] \in Jobs /\ JobHolds(cdn, job[i])
<1>1. DukTypeOK
  BY DEF DukInv
<1>2. \A u \in Units : cdn[u] \in Nat /\ feed[u] \in Nat
  BY <1>1 DEF DukTypeOK, Versions
<1>3. QED
  BY <1>1, <1>2 DEF DukInv, DukTypeOK

\* A step of one install, with nothing new from ANAF: only its job, the disk and
\* the manifest are to be looked at.
LEMMA OneStep ==
    ASSUME DukInv, UNCHANGED upstream, NEW i \in Installs, NEW q \in Jobs,
           JobHolds(cdn, q), job' = [job EXCEPT ![i] = q],
           disk' \in [Files -> Versions], recorded' \in Manifest,
           Consistent(cdn, recorded'), settled' \subseteq Units
    PROVE  DukInv'
<1>1. cdn' = cdn /\ feed' = feed
  BY DEF upstream
<1>2. job' \in [Installs -> Jobs]
  BY DukFacts
<1>3. \A k \in Installs : JobHolds(cdn', job'[k])
  BY <1>1, DukFacts
<1>4. DukTypeOK'
  BY <1>1, <1>2, DukFacts DEF DukTypeOK
<1>5. \A u \in Units : feed'[u] <= cdn'[u]
  BY <1>1, DukFacts
<1>6. Consistent(cdn', recorded')
  BY <1>1
<1>7. QED
  BY <1>3, <1>4, <1>5, <1>6 DEF DukInv

LEMMA FetchFeedKeeps ==
    ASSUME DukInv, NEW i \in Installs, NEW names \in Namings[i], FetchFeed(i, names)
    PROVE  DukInv'
<1>1. PICK alone \in BOOLEAN :
        /\ job' = [k \in Installs |->
                      IF k = i THEN [NoJob EXCEPT !.phase = "loading", !.named = names,
                                                  !.listed = feed, !.calm = alone]
                      ELSE [job[k] EXCEPT !.calm = FALSE]]
        /\ settled' \in {settled, {}}
        /\ UNCHANGED <<upstream, disk, recorded>>
  BY DEF FetchFeed
<1>2. names \in SUBSET (Forms \cup {Saft})
  OBVIOUS
<1> DEFINE q == [NoJob EXCEPT !.phase = "loading", !.named = names, !.listed = feed,
                              !.calm = alone]
<1>3. NoJob \in Jobs /\ "loading" \in Phases
  BY NoJobHolds DEF Phases
<1>4. q \in Jobs
  BY <1>2, <1>3, FieldUpdates, DukFacts
<1>5. JobHolds(cdn, q)
  <2>1. q.phase = "loading" /\ q.listed = feed
    BY <1>3 DEF Jobs
  <2>2. QED
    BY <2>1, DukFacts DEF JobHolds
<1> HIDE DEF q
<1>6. cdn' = cdn /\ feed' = feed /\ disk' = disk /\ recorded' = recorded
  BY <1>1 DEF upstream
<1>7. \A k \in Installs : job'[k] \in Jobs /\ JobHolds(cdn, job'[k])
  <2>1. ASSUME NEW k \in Installs PROVE job'[k] \in Jobs /\ JobHolds(cdn, job'[k])
    <3>1. CASE k = i
      BY <3>1, <1>1, <1>4, <1>5 DEF q
    <3>2. CASE k # i
      <4>1. job'[k] = [job[k] EXCEPT !.calm = FALSE]
        BY <3>2, <1>1
      <4>2. QED
        BY <4>1, CalmHolds, DukFacts
    <3>3. QED
      BY <3>1, <3>2
  <2>2. QED
    BY <2>1
<1>8. DukTypeOK'
  <2>1. job' \in [Installs -> Jobs]
    BY <1>1, <1>7
  <2>2. settled' \subseteq Units
    BY <1>1, DukFacts
  <2>3. QED
    BY <1>6, <2>1, <2>2, DukFacts DEF DukTypeOK
<1>9. QED
  BY <1>6, <1>7, <1>8 DEF DukInv

LEMMA LoadManifestKeeps ==
    ASSUME DukInv, NEW i \in Installs, LoadManifest(i)
    PROVE  DukInv'
<1> DEFINE j == job[i]
           units == IF j.named = {} THEN Targets(recorded) ELSE j.named
           q == [j EXCEPT !.phase = "checking", !.mine = recorded, !.unit = Core,
                          !.left = FilesOf(Core), !.units = units]
<1>1. /\ j \in Jobs /\ JobHolds(cdn, j) /\ j.phase = "loading"
      /\ UNCHANGED <<upstream, disk, recorded, settled>>
  BY DukFacts DEF LoadManifest
<1>2. job' = [job EXCEPT ![i] = q]
  BY DukFacts DEF LoadManifest
<1>3. units \subseteq Forms \cup {Saft} /\ units \in SUBSET Units
  BY <1>1, JobFields, UnitFacts DEF Targets
<1>4. /\ "checking" \in Phases /\ recorded \in Manifest /\ Core \in Units
      /\ FilesOf(Core) \in SUBSET Files
  BY DukFacts, UnitFacts DEF Phases
<1> HIDE DEF units
<1>5. q \in Jobs
  BY <1>1, <1>3, <1>4, FieldUpdates
<1>6. /\ q.phase = "checking" /\ q.listed = j.listed /\ q.mine = recorded
      /\ q.unit = Core /\ q.left = FilesOf(Core) /\ q.units = units
  BY <1>1 DEF Jobs
<1> HIDE DEF q
<1>7. JobHolds(cdn, q)
  <2>1. CheckHolds(cdn, q)
    BY <1>3, <1>6 DEF CheckHolds
  <2>2. \A u \in Units : j.listed[u] <= cdn[u]
    BY <1>1 DEF JobHolds
  <2>3. QED
    BY <1>6, <2>1, <2>2, DukFacts DEF JobHolds
<1>8. QED
  BY <1>1, <1>2, <1>5, <1>7, OneStep, DukFacts

LEMMA NextFileKeeps ==
    ASSUME DukInv, NEW i \in Installs, NEW f \in Files, NextFile(i, f)
    PROVE  DukInv'
<1> DEFINE j == job[i]
           q == [j EXCEPT !.phase = "writing", !.file = f, !.data = cdn[j.unit]]
           r == [j EXCEPT !.left = j.left \ {f}]
<1>1. /\ j \in Jobs /\ JobHolds(cdn, j) /\ j.phase = "checking" /\ f \in j.left
      /\ UNCHANGED <<upstream, disk, recorded, settled>>
  BY DukFacts DEF NextFile
<1>2. /\ \A u \in Units : j.listed[u] <= cdn[u]
      /\ Consistent(cdn, j.mine) /\ CheckHolds(cdn, j)
  BY <1>1 DEF JobHolds
<1>3. /\ "writing" \in Phases /\ j.unit \in Units /\ cdn[j.unit] \in Versions
      /\ j.left \ {f} \in SUBSET Files
  BY <1>1, JobFields, DukFacts DEF Phases
<1>4. CASE j.unit # Core \/ BaseStale(j, f)
  <2>1. job' = [job EXCEPT ![i] = q]
    BY <1>4, DukFacts DEF NextFile
  <2>2. q \in Jobs
    BY <1>1, <1>3, FieldUpdates
  <2>3. /\ q.phase = "writing" /\ q.listed = j.listed /\ q.mine = j.mine /\ q.unit = j.unit
        /\ q.left = j.left /\ q.units = j.units /\ q.file = f /\ q.data = cdn[j.unit]
    BY <1>1 DEF Jobs
  <2> HIDE DEF q
  <2>4. CheckHolds(cdn, q)
    BY <1>2, <2>3 DEF CheckHolds, Goal
  <2>5. cdn[j.unit] >= Goal(cdn, j) /\ cdn[j.unit] >= j.mine.claims[j.unit]
    <3>1. j.mine.claims[j.unit] \in Nat /\ j.listed[j.unit] \in Nat
      BY <1>1, <1>3, JobFields, ManifestFields DEF Versions
    <3>2. QED
      BY <1>2, <1>3, <3>1, DukFacts DEF Consistent, Goal
  <2>6. WriteHolds(cdn, q)
    BY <1>1, <2>3, <2>5 DEF WriteHolds, Goal
  <2>7. JobHolds(cdn, q)
    BY <1>2, <2>3, <2>4, <2>6 DEF JobHolds
  <2>8. QED
    BY <1>1, <2>1, <2>2, <2>7, OneStep, DukFacts
<1>5. CASE j.unit = Core /\ ~BaseStale(j, f)
  <2>1. job' = [job EXCEPT ![i] = r]
    BY <1>5, DukFacts DEF NextFile
  <2>2. r \in Jobs
    BY <1>1, <1>3, FieldUpdates
  <2>3. /\ r.phase = "checking" /\ r.listed = j.listed /\ r.mine = j.mine /\ r.unit = Core
        /\ r.left = j.left \ {f} /\ r.units = j.units
    BY <1>1, <1>5 DEF Jobs
  <2> HIDE DEF r
  <2>4. j.mine.hashes[f] >= j.listed[Core]
    <3>1. UnitOf[f] = Core
      BY <1>1, <1>2, <1>5, UnitFacts DEF CheckHolds
    <3>2. j.mine.claims[Core] = j.listed[Core] /\ j.mine.hashes[f] # 0
      BY <1>5 DEF BaseStale, Current
    <3>3. QED
      BY <1>2, <3>1, <3>2 DEF Consistent
  <2>5. CheckHolds(cdn, r)
    BY <1>2, <1>5, <2>3, <2>4 DEF CheckHolds
  <2>6. JobHolds(cdn, r)
    BY <1>2, <2>3, <2>5 DEF JobHolds
  <2>7. QED
    BY <1>1, <2>1, <2>2, <2>6, OneStep, DukFacts
<1>6. QED
  BY <1>4, <1>5

LEMMA NextFormKeeps ==
    ASSUME DukInv, NEW i \in Installs, NEW u \in Units, NextForm(i, u)
    PROVE  DukInv'
<1> DEFINE j == job[i]
<1>1. /\ j \in Jobs /\ JobHolds(cdn, j) /\ j.phase = "checking" /\ j.left = {}
      /\ u \in j.units /\ UNCHANGED <<upstream, disk, recorded, settled>>
  BY DukFacts DEF NextForm
<1>2. /\ \A w \in Units : j.listed[w] <= cdn[w]
      /\ Consistent(cdn, j.mine) /\ CheckHolds(cdn, j)
  BY <1>1 DEF JobHolds
<1>3. CASE job' = [job EXCEPT ![i] = NoJob]
  BY <1>1, <1>3, OneStep, NoJobHolds, DukFacts
<1>4. ASSUME NEW todo \in {{}, FilesOf(u)},
             job' = [job EXCEPT ![i].unit = u, ![i].units = j.units \ {u}, ![i].left = todo]
      PROVE  DukInv'
  <2> DEFINE q == [j EXCEPT !.unit = u, !.units = j.units \ {u}, !.left = todo]
  <2>1. job' = [job EXCEPT ![i] = q]
    BY <1>4, DukFacts
  <2>2. j.units \ {u} \in SUBSET Units /\ todo \in SUBSET Files
    BY <1>1, JobFields, UnitFacts
  <2>3. q \in Jobs
    BY <1>1, <2>2, FieldUpdates
  <2>4. /\ q.phase = "checking" /\ q.listed = j.listed /\ q.mine = j.mine /\ q.unit = u
        /\ q.left = todo /\ q.units = j.units \ {u}
    BY <1>1 DEF Jobs
  <2> HIDE DEF q
  <2>5. u # Core
    BY <1>1, <1>2 DEF CheckHolds
  <2>6. CheckHolds(cdn, q)
    <3>1. \A f \in FilesOf(Core) : q.mine.hashes[f] >= q.listed[Core]
      BY <1>1, <1>2, <2>4 DEF CheckHolds
    <3>2. q.units \subseteq Forms \cup {Saft} /\ q.left \subseteq FilesOf(q.unit)
      BY <1>2, <2>4 DEF CheckHolds
    <3>3. q.left # {} => FilesOf(q.unit) \ q.left = {}
      BY <2>4
    <3>4. QED
      BY <3>1, <3>2, <3>3 DEF CheckHolds
  <2>7. JobHolds(cdn, q)
    BY <1>2, <2>4, <2>6 DEF JobHolds
  <2>8. QED
    BY <1>1, <2>1, <2>3, <2>7, OneStep, DukFacts
<1>5. QED
  BY <1>3, <1>4 DEF NextForm

LEMMA PlaceKeeps ==
    ASSUME DukInv, NEW i \in Installs, Place(i)
    PROVE  DukInv'
<1> DEFINE j == job[i]
<1>1. /\ j \in Jobs /\ JobHolds(cdn, j) /\ j.phase = "writing"
      /\ UNCHANGED <<upstream, recorded, settled>>
  BY DukFacts DEF Place
<1>2. PICK d \in Written(i) : disk' = [disk EXCEPT ![j.file] = d]
  BY DEF Place
<1>3. d \in Versions
  <2>1. \A k \in Installs : job[k].data \in Versions
    BY JobFields, DukFacts
  <2>2. 0 \in Versions
    BY DEF Versions
  <2>3. QED
    BY <2>1, <2>2 DEF Written
<1>4. disk' \in [Files -> Versions]
  BY <1>2, <1>3, DukFacts
<1>5. job' = [job EXCEPT ![i] = Done(j)]
  <2> DEFINE q == [j EXCEPT !.phase = "checking", !.left = j.left \ {j.file},
                            !.mine = Recorded(j), !.file = NoJob.file, !.data = 0]
  <2>1. job' = [job EXCEPT ![i] = q]
    BY DukFacts DEF Place
  <2>2. /\ "checking" \in Phases /\ j.left \ {j.file} \in SUBSET Files
        /\ Recorded(j) \in Manifest /\ NoJob.file \in Files /\ 0 \in Versions
    <3>1. Done(j) \in Jobs
      BY <1>1, PlacedHolds, DukFacts
    <3>2. Recorded(j) = Done(j).mine
      BY DEF Done
    <3>3. QED
      BY <1>1, <3>1, <3>2, JobFields, NoJobHolds DEF Phases, Versions
  <2>3. q \in Jobs
    BY <1>1, <2>2, FieldUpdates
  <2>4. /\ q.phase = "checking" /\ q.named = j.named /\ q.listed = j.listed
        /\ q.mine = Recorded(j) /\ q.unit = j.unit /\ q.left = j.left \ {j.file}
        /\ q.units = j.units /\ q.file = NoJob.file /\ q.data = 0 /\ q.calm = j.calm
    BY <1>1 DEF Jobs
  <2> HIDE DEF q
  <2>5. q = Done(j)
    BY <2>3, <2>4, JobFields DEF Done
  <2>6. QED
    BY <2>1, <2>5
<1>6. Done(j) \in Jobs /\ JobHolds(cdn, Done(j))
  BY <1>1, PlacedHolds, DukFacts
<1>7. QED
  BY <1>1, <1>4, <1>5, <1>6, OneStep, DukFacts

LEMMA FailKeeps ==
    ASSUME DukInv, NEW i \in Installs, Fail(i)
    PROVE  DukInv'
  BY OneStep, NoJobHolds, DukFacts DEF Fail

LEMMA TruncateManifestKeeps ==
    ASSUME DukInv, NEW i \in Installs, TruncateManifest(i)
    PROVE  DukInv'
<1> DEFINE j == job[i]
           claims == [j.mine.claims EXCEPT ![Core] = j.listed[Core]]
           m == [j.mine EXCEPT !.claims = claims]
           q == [j EXCEPT !.phase = "saving", !.mine = m]
<1>1. /\ j \in Jobs /\ JobHolds(cdn, j) /\ j.phase = "checking" /\ j.left = {}
      /\ recorded' = Blank /\ UNCHANGED <<upstream, disk, settled>>
  BY DukFacts DEF TruncateManifest
<1>2. /\ \A u \in Units : j.listed[u] <= cdn[u]
      /\ Consistent(cdn, j.mine) /\ CheckHolds(cdn, j)
  BY <1>1 DEF JobHolds
<1>3. /\ j.mine \in Manifest /\ j.listed[Core] \in Versions
      /\ j.mine.claims \in [Units -> Versions]
  BY <1>1, JobFields, ManifestFields, UnitFacts
<1>4. job' = [job EXCEPT ![i] = q]
  BY <1>1, <1>3, DukFacts DEF TruncateManifest, Jobs, Manifest
<1>5. claims \in [Units -> Versions]
  BY <1>3
<1>6. \A u \in Units : claims[u] = IF u = Core THEN j.listed[Core] ELSE j.mine.claims[u]
  BY <1>3
<1> HIDE DEF claims
<1>7. /\ m \in Manifest /\ m.claims = claims /\ m.hashes = j.mine.hashes
  BY <1>3, <1>5 DEF Manifest
<1> HIDE DEF m
<1>8. Consistent(cdn, m)
  <2>1. ASSUME NEW f \in Files, m.hashes[f] # 0 PROVE m.hashes[f] >= m.claims[UnitOf[f]]
    <3>1. CASE UnitOf[f] = Core
      <4>1. f \in FilesOf(Core)
        BY <3>1, UnitFacts
      <4>2. j.mine.hashes[f] >= j.listed[Core]
        BY <1>1, <1>2, <4>1 DEF CheckHolds
      <4>3. QED
        BY <3>1, <4>2, <1>6, <1>7, UnitFacts
    <3>2. CASE UnitOf[f] # Core
      BY <2>1, <3>2, <1>2, <1>6, <1>7, UnitFacts DEF Consistent
    <3>3. QED
      BY <3>1, <3>2
  <2>2. \A u \in Units : m.claims[u] <= cdn[u]
    BY <1>2, <1>6, <1>7, UnitFacts DEF Consistent
  <2>3. QED
    BY <2>1, <2>2 DEF Consistent
<1>9. q \in Jobs
  <2>1. "saving" \in Phases
    BY DEF Phases
  <2>2. QED
    BY <1>1, <1>7, <2>1, FieldUpdates
<1>10. q.phase = "saving" /\ q.listed = j.listed /\ q.mine = m
  BY <1>1 DEF Jobs
<1> HIDE DEF q
<1>11. JobHolds(cdn, q)
  BY <1>2, <1>8, <1>10 DEF JobHolds
<1>12. QED
  BY <1>1, <1>4, <1>9, <1>11, OneStep, BlankHolds, DukFacts

LEMMA SaveManifestKeeps ==
    ASSUME DukInv, NEW i \in Installs, SaveManifest(i)
    PROVE  DukInv'
<1> DEFINE j == job[i]
<1>1. /\ j \in Jobs /\ JobHolds(cdn, j) /\ j.phase = "saving"
      /\ recorded' = j.mine /\ job' = [job EXCEPT ![i] = NoJob]
      /\ UNCHANGED <<upstream, disk>>
  BY DukFacts DEF SaveManifest
<1>2. j.mine \in Manifest /\ Consistent(cdn, j.mine)
  BY <1>1, JobFields DEF JobHolds
<1>3. settled' \subseteq Units
  <2>1. Covered(j) \subseteq Units
    BY <1>1, JobFields, UnitFacts DEF Covered
  <2>2. QED
    BY <2>1, DukFacts DEF SaveManifest
<1>4. QED
  BY <1>1, <1>2, <1>3, OneStep, NoJobHolds, DukFacts

-----------------------------------------------------------------------------
(* ANAF's publications.                                                    *)

LEMMA UploadKeeps ==
    ASSUME DukInv, NEW u \in Units, Upload(u)
    PROVE  DukInv'
<1>1. /\ u # Saft /\ cdn[u] < MaxVersion /\ cdn' = [cdn EXCEPT ![u] = cdn[u] + 1]
      /\ UNCHANGED <<feed, disk, recorded, job, settled>>
  BY DEF Upload
<1>2. cdn \in [Units -> Versions] /\ cdn[u] \in Nat
  BY DukFacts
<1>3. cdn' \in [Units -> Versions]
  BY <1>1, <1>2 DEF Versions
<1>4. (\A w \in Units : cdn[w] <= cdn'[w]) /\ cdn[Saft] = cdn'[Saft]
  BY <1>1, <1>2, UnitFacts, DukFacts
<1>5. \A w \in Units : cdn'[w] \in Nat
  BY <1>3 DEF Versions
<1>6. \A w \in Units : feed'[w] <= cdn'[w]
  BY <1>1, <1>4, <1>5, DukFacts
<1>7. Consistent(cdn', recorded') /\ \A i \in Installs : JobHolds(cdn', job'[i])
  BY <1>1, <1>2, <1>3, <1>4, GrownHolds, DukFacts
<1>8. DukTypeOK'
  BY <1>1, <1>3, DukFacts DEF DukTypeOK
<1>9. QED
  BY <1>6, <1>7, <1>8 DEF DukInv

LEMMA ListKeeps ==
    ASSUME DukInv, NEW u \in Units, List(u)
    PROVE  DukInv'
<1>1. /\ feed' = [feed EXCEPT ![u] = cdn[u]] /\ UNCHANGED <<cdn, disk, recorded>>
      /\ job' = [i \in Installs |-> [job[i] EXCEPT !.calm = FALSE]]
      /\ settled' = settled \ {u}
  BY DEF List, Disturb
<1>2. feed' \in [Units -> Versions] /\ \A w \in Units : feed'[w] <= cdn'[w]
  BY <1>1, DukFacts
<1>3. \A i \in Installs : job'[i] \in Jobs /\ JobHolds(cdn', job'[i])
  <2>1. ASSUME NEW i \in Installs PROVE job'[i] \in Jobs /\ JobHolds(cdn', job'[i])
    <3>1. job'[i] = [job[i] EXCEPT !.calm = FALSE]
      BY <1>1
    <3>2. QED
      BY <1>1, <3>1, CalmHolds, DukFacts
  <2>2. QED
    BY <2>1
<1>4. DukTypeOK'
  <2>1. job' \in [Installs -> Jobs]
    BY <1>1, <1>3
  <2>2. QED
    BY <1>1, <1>2, <2>1, DukFacts DEF DukTypeOK
<1>5. Consistent(cdn', recorded')
  BY <1>1, DukFacts
<1>6. QED
  BY <1>2, <1>3, <1>4, <1>5 DEF DukInv

LEMMA StutterKeeps ==
    ASSUME DukInv, UNCHANGED dukVars
    PROVE  DukInv'
<1>1. /\ cdn' = cdn /\ feed' = feed /\ disk' = disk /\ recorded' = recorded
      /\ job' = job /\ settled' = settled
  BY DEF dukVars
<1>2. QED
  BY <1>1 DEF DukInv, DukTypeOK

LEMMA StepKeeps == DukInv /\ [DukNext]_dukVars => DukInv'
<1> SUFFICES ASSUME DukInv, [DukNext]_dukVars PROVE DukInv'
  OBVIOUS
<1>1. CASE \E i \in Installs : Install(i)
  BY <1>1, FetchFeedKeeps, LoadManifestKeeps, NextFileKeeps, NextFormKeeps, PlaceKeeps,
     FailKeeps, TruncateManifestKeeps, SaveManifestKeeps DEF Install
<1>2. CASE \E u \in Units : Upload(u) \/ List(u)
  BY <1>2, UploadKeeps, ListKeeps
<1>3. CASE UNCHANGED dukVars
  BY <1>3, StutterKeeps
<1>4. QED
  BY <1>1, <1>2, <1>3 DEF DukNext

-----------------------------------------------------------------------------
(* The theorems.                                                           *)

\* DukInv holds in every reachable state: what install() holds in memory and what
\* it records never claims more than it downloaded (declaratii/install.py).
THEOREM InstallInvariant == DukSpec => []DukInv
<1>1. DukInit => DukInv
  BY InitDuk
<1>2. DukInv /\ [DukNext]_dukVars => DukInv'
  BY StepKeeps
<1>3. QED
  BY <1>1, <1>2, PTL DEF DukSpec

\* The installer's variables keep their types.
THEOREM InstallTypes == DukSpec => []DukTypeOK
<1>1. DukInv => DukTypeOK
  BY DEF DukInv
<1>2. QED
  BY <1>1, InstallInvariant, PTL

\* However installs race, fail and crash, a file that passes for up to date is not
\* older than the version the manifest claims for its unit.
THEOREM ManifestIsTrue == DukSpec => []ClaimsAreTrue
<1>1. DukInv => ClaimsAreTrue
  BY DukFacts DEF Consistent, ClaimsAreTrue
<1>2. QED
  BY <1>1, InstallInvariant, PTL

-----------------------------------------------------------------------------
(* Convergence.  Below, d is the disk and v the feed.                      *)

\* A file is what manifest m recorded, in the version listed or a newer one.
UpToDate(d, v, m, f) ==
    m.hashes[f] # 0 /\ d[f] = m.hashes[f] /\ d[f] >= v[UnitOf[f]]

\* So are a unit's files, and m claims them.
Fresh(d, v, m, u) ==
    /\ \A f \in FilesOf(u) : UpToDate(d, v, m, f)
    /\ FilesOf(u) # {} => IF u = Saft THEN m.claims[u] # 0 ELSE m.claims[u] = v[u]

InHand(j) == j.phase \in {"checking", "writing", "saving"}

\* What a calm install has behind it is fresh: the base files, the files of the form
\* it is at, and the forms it will answer for.
Converging(d, v, j) ==
    /\ j.listed = v
    /\ InHand(j) =>
          /\ \A f \in FilesOf(Core) :
                (j.unit = Core => f \notin j.left) => UpToDate(d, v, j.mine, f)
          /\ j.left # {} => \A f \in FilesOf(j.unit) \ j.left : UpToDate(d, v, j.mine, f)
          /\ j.left # {} /\ j.unit \notin {Core, Saft} => v[j.unit] # 0
          /\ \A u \in Covered(j) \ ({Core} \cup j.units) :
                (j.unit = u => j.left = {}) => Fresh(d, v, j.mine, u)
    /\ j.phase = "saving" => j.left = {} /\ j.units = {} /\ Fresh(d, v, j.mine, Core)

\* A settled unit is fresh in what an install holds, and it passes by.
PassesBy(d, v, j, u) ==
    /\ j.phase # "idle" => j.listed[u] = v[u]
    /\ InHand(j) => Fresh(d, v, j.mine, u)
    /\ j.phase = "writing" => j.unit # u
    /\ j.phase = "checking" /\ j.left # {} /\ j.unit # Core => j.unit # u

Others(i) == Installs \ {i}

\* A calm install is the only one; while anything is settled there is at most one.
ConvergeInv ==
    /\ DukInv
    /\ feed[Core] # 0 /\ feed[Saft] = 0 /\ cdn[Saft] # 0
    /\ \A i \in Installs : job[i].calm =>
          /\ job[i].phase # "idle" /\ \A k \in Others(i) : job[k].phase = "idle"
          /\ Converging(disk, feed, job[i])
    /\ settled # {} =>
          \A i \in Installs : \A k \in Others(i) :
              job[i].phase = "idle" \/ job[k].phase = "idle"
    /\ \A u \in settled, i \in Installs : PassesBy(disk, feed, job[i], u)
    /\ (\A i \in Installs : job[i].phase # "saving") =>
          \A u \in settled : Fresh(disk, feed, recorded, u)

LEMMA FreshAgain ==
    ASSUME NEW d, NEW e, NEW v, NEW m, NEW n, NEW u, Fresh(d, v, m, u),
           \A f \in FilesOf(u) : e[f] = d[f] /\ n.hashes[f] = m.hashes[f],
           n.claims[u] = m.claims[u]
    PROVE  Fresh(e, v, n, u)
  BY DEF Fresh, UpToDate

LEMMA ConvergeFacts ==
    ASSUME ConvergeInv, NEW i \in Installs
    PROVE  /\ DukInv /\ job[i] \in Jobs /\ JobHolds(cdn, job[i])
           /\ job \in [Installs -> Jobs]
           /\ feed[Core] # 0 /\ feed[Saft] = 0 /\ cdn[Saft] # 0
           /\ job[i].calm => /\ \A k \in Others(i) : job[k].phase = "idle"
                             /\ Converging(disk, feed, job[i])
           /\ \A u \in settled : PassesBy(disk, feed, job[i], u)
           /\ job[i].phase # "idle" =>
                 /\ \A k \in Others(i) : ~job[k].calm
                 /\ settled # {} => \A k \in Others(i) : job[k].phase = "idle"
           /\ job[i].phase \notin {"idle", "saving"} =>
                 \A u \in settled : Fresh(disk, feed, recorded, u)
<1>1. /\ DukInv /\ job[i] \in Jobs /\ JobHolds(cdn, job[i]) /\ job \in [Installs -> Jobs]
      /\ feed[Core] # 0 /\ feed[Saft] = 0 /\ cdn[Saft] # 0
      /\ job[i].calm => /\ \A k \in Others(i) : job[k].phase = "idle"
                        /\ Converging(disk, feed, job[i])
      /\ \A u \in settled : PassesBy(disk, feed, job[i], u)
  BY DukFacts DEF ConvergeInv
<1>2. ASSUME job[i].phase # "idle"
      PROVE  /\ \A k \in Others(i) : ~job[k].calm
             /\ settled # {} => \A k \in Others(i) : job[k].phase = "idle"
  <2>1. \A k \in Others(i) : k \in Installs /\ i \in Others(k)  BY DEF Others
  <2>2. QED  BY <1>2, <2>1 DEF ConvergeInv
<1>3. ASSUME job[i].phase \notin {"idle", "saving"}, NEW u \in settled
      PROVE  Fresh(disk, feed, recorded, u)
  <2>1. \A k \in Installs : job[k].phase # "saving"
    BY <1>2, <1>3 DEF Others
  <2>2. QED  BY <1>3, <2>1 DEF ConvergeInv
<1>4. QED  BY <1>1, <1>2, <1>3

\* A step with which an install goes on.
LEMMA GoingOnKeeps ==
    ASSUME ConvergeInv, DukInv', UNCHANGED <<cdn, feed, settled>>,
           NEW i \in Installs, NEW q \in Jobs, job' = [job EXCEPT ![i] = q],
           job[i].phase # "idle", q.phase # "idle", q.calm = job[i].calm,
           job[i].calm => Converging(disk', feed, q),
           \A u \in settled : PassesBy(disk', feed, q, u),
           q.phase # "saving" => \A u \in settled : Fresh(disk', feed, recorded', u)
    PROVE  ConvergeInv'
<1>1. /\ cdn' = cdn /\ feed' = feed /\ settled' = settled
      /\ job'[i] = q /\ \A k \in Others(i) : job'[k] = job[k]
      /\ \A k \in Installs : k = i \/ k \in Others(i)
  BY ConvergeFacts DEF Others
<1>2. /\ \A k \in Others(i) : ~job[k].calm
      /\ job[i].calm \/ settled # {} => \A k \in Others(i) : job[k].phase = "idle"
  BY ConvergeFacts
<1>3. ASSUME NEW k \in Installs, job'[k].calm
      PROVE  /\ job'[k].phase # "idle" /\ \A l \in Others(k) : job'[l].phase = "idle"
             /\ Converging(disk', feed', job'[k])
  BY <1>1, <1>2, <1>3
<1>4. ASSUME settled' # {}, NEW k \in Installs, NEW l \in Others(k)
      PROVE  job'[k].phase = "idle" \/ job'[l].phase = "idle"
  <2>1. k \in Others(i) \/ l \in Others(i)  BY DEF Others
  <2>2. QED  BY <1>1, <1>2, <1>4, <2>1
<1>5. ASSUME NEW u \in settled', NEW k \in Installs
      PROVE  PassesBy(disk', feed', job'[k], u)
  <2>1. CASE k = i  BY <1>1, <2>1
  <2>2. CASE k \in Others(i)
    BY <1>1, <1>2, <2>2 DEF PassesBy, InHand
  <2>3. QED  BY <1>1, <2>1, <2>2
<1>6. ASSUME \A k \in Installs : job'[k].phase # "saving", NEW u \in settled'
      PROVE  Fresh(disk', feed', recorded', u)
  BY <1>1, <1>6
<1>7. feed'[Core] # 0 /\ feed'[Saft] = 0 /\ cdn'[Saft] # 0
  BY <1>1, ConvergeFacts
<1>8. QED  BY <1>3, <1>4, <1>5, <1>6, <1>7 DEF ConvergeInv

\* A step with which one ends: what is settled then is fresh in the manifest.
LEMMA EndKeeps ==
    ASSUME ConvergeInv, DukInv', UNCHANGED <<cdn, feed, disk>>,
           NEW i \in Installs, job' = [job EXCEPT ![i] = NoJob], job[i].phase # "idle",
           settled' # {} => \A k \in Others(i) : job[k].phase = "idle",
           \A u \in settled' : Fresh(disk, feed, recorded', u)
    PROVE  ConvergeInv'
<1>1. /\ cdn' = cdn /\ feed' = feed /\ disk' = disk
      /\ job'[i] = NoJob /\ \A k \in Others(i) : job'[k] = job[k]
      /\ \A k \in Installs : k = i \/ k \in Others(i)
  BY ConvergeFacts DEF Others
<1>2. NoJob.phase = "idle" /\ ~NoJob.calm  BY DEF NoJob
<1>3. \A k \in Installs : ~job'[k].calm
  BY <1>1, <1>2, ConvergeFacts
<1>4. settled' # {} => \A k \in Installs : job'[k].phase = "idle"
  BY <1>1, <1>2
<1>5. ASSUME NEW u \in settled', NEW k \in Installs
      PROVE  PassesBy(disk', feed', job'[k], u)
  BY <1>4 DEF PassesBy, InHand
<1>6. feed'[Core] # 0 /\ feed'[Saft] = 0 /\ cdn'[Saft] # 0
  BY <1>1, ConvergeFacts
<1>7. QED  BY <1>1, <1>3, <1>4, <1>5, <1>6 DEF ConvergeInv, Others

LEMMA FailConverges ==
    ASSUME ConvergeInv, DukInv', NEW i \in Installs, job[i].phase # "idle",
           job' = [job EXCEPT ![i] = NoJob], UNCHANGED <<upstream, disk, recorded>>,
           settled' = IF job[i].phase = "saving" THEN {} ELSE settled
    PROVE  ConvergeInv'
<1>1. cdn' = cdn /\ feed' = feed /\ disk' = disk /\ recorded' = recorded  BY DEF upstream
<1>2. CASE job[i].phase = "saving"  BY <1>1, <1>2, EndKeeps
<1>3. CASE job[i].phase # "saving"
  <2>1. /\ settled' # {} => \A k \in Others(i) : job[k].phase = "idle"
        /\ \A u \in settled' : Fresh(disk, feed, recorded', u)
    BY <1>1, <1>3, ConvergeFacts
  <2>2. QED  BY <1>1, <2>1, EndKeeps
<1>4. QED  BY <1>2, <1>3

LEMMA SaveManifestConverges ==
    ASSUME ConvergeInv, DukInv', NEW i \in Installs, SaveManifest(i)
    PROVE  ConvergeInv'
<1> DEFINE j == job[i]
<1>1. /\ j.phase = "saving" /\ recorded' = j.mine /\ job' = [job EXCEPT ![i] = NoJob]
      /\ settled' = IF j.calm THEN settled \cup Covered(j) ELSE settled
      /\ cdn' = cdn /\ feed' = feed /\ disk' = disk
  BY DEF SaveManifest, upstream
<1>2. \A u \in settled : Fresh(disk, feed, j.mine, u)
  BY <1>1, ConvergeFacts DEF PassesBy, InHand
<1>3. ASSUME j.calm, NEW u \in Covered(j) PROVE Fresh(disk, feed, j.mine, u)
  <2>1. Converging(disk, feed, j)  BY <1>3, ConvergeFacts
  <2>2. j.left = {} /\ j.units = {} /\ Fresh(disk, feed, j.mine, Core)
    BY <1>1, <2>1 DEF Converging
  <2>3. QED  BY <1>1, <2>1, <2>2 DEF Converging, InHand
<1>4. \A u \in settled' : Fresh(disk, feed, recorded', u)
  BY <1>1, <1>2, <1>3
<1>5. settled' # {} => \A k \in Others(i) : job[k].phase = "idle"
  BY <1>1, ConvergeFacts
<1>6. QED  BY <1>1, <1>4, <1>5, EndKeeps

LEMMA LoadManifestConverges ==
    ASSUME ConvergeInv, DukInv', NEW i \in Installs, LoadManifest(i)
    PROVE  ConvergeInv'
<1> DEFINE j == job[i]
           units == IF j.named = {} THEN Targets(recorded) ELSE j.named
           q == [j EXCEPT !.phase = "checking", !.mine = recorded, !.unit = Core,
                          !.left = FilesOf(Core), !.units = units]
<1>1. /\ j \in Jobs /\ j.phase = "loading" /\ job' = [job EXCEPT ![i] = q]
      /\ cdn' = cdn /\ feed' = feed /\ disk' = disk /\ recorded' = recorded
      /\ settled' = settled
  BY ConvergeFacts DEF LoadManifest, upstream
<1>2. job' \in [Installs -> Jobs] /\ job'[i] = q
  BY <1>1, ConvergeFacts DEF DukInv, DukTypeOK
<1> HIDE DEF units
<1>3. /\ q.phase = "checking" /\ q.listed = j.listed /\ q.mine = recorded
      /\ q.unit = Core /\ q.left = FilesOf(Core) /\ q.units = units
      /\ q.named = j.named /\ q.calm = j.calm
  BY <1>1 DEF Jobs
<1>4. q \in Jobs  BY <1>2
<1> HIDE DEF q
<1>5. j.calm => Converging(disk, feed, q)
  <2> SUFFICES ASSUME j.calm PROVE Converging(disk, feed, q)
    OBVIOUS
  <2>1. q.listed = feed  BY <1>3, ConvergeFacts DEF Converging
  <2>2. Covered(q) \ ({Core} \cup q.units) = {}
    BY <1>3 DEF Covered, Targets, units
  <2>3. QED  BY <1>3, <2>1, <2>2 DEF Converging
<1>6. \A u \in settled : PassesBy(disk, feed, q, u) /\ Fresh(disk, feed, recorded, u)
  BY <1>1, <1>3, ConvergeFacts DEF PassesBy
<1>7. QED  BY <1>1, <1>3, <1>4, <1>5, <1>6, GoingOnKeeps

LEMMA NextFileConverges ==
    ASSUME ConvergeInv, DukInv', NEW i \in Installs, NEW f \in Files, NextFile(i, f)
    PROVE  ConvergeInv'
<1> DEFINE j == job[i]
           w == [j EXCEPT !.phase = "writing", !.file = f, !.data = cdn[j.unit]]
           r == [j EXCEPT !.left = j.left \ {f}]
<1>1. /\ j \in Jobs /\ JobHolds(cdn, j) /\ j.phase = "checking" /\ f \in j.left
      /\ cdn' = cdn /\ feed' = feed /\ disk' = disk /\ recorded' = recorded
      /\ settled' = settled
  BY ConvergeFacts DEF NextFile, upstream
<1>2. /\ Consistent(cdn, j.mine) /\ UnitOf[f] = j.unit /\ f \in FilesOf(j.unit)
  BY <1>1, UnitFacts DEF JobHolds, CheckHolds, FilesOf
<1>3. \A u \in settled : PassesBy(disk, feed, j, u) /\ Fresh(disk, feed, recorded, u)
  BY <1>1, ConvergeFacts
<1>4. CASE j.unit # Core \/ BaseStale(j, f)
  <2>1. job' = [job EXCEPT ![i] = w]
    BY <1>4, ConvergeFacts DEF NextFile
  <2>2. job' \in [Installs -> Jobs] /\ job'[i] = w
    BY <2>1, ConvergeFacts DEF DukInv, DukTypeOK
  <2>3. /\ w.phase = "writing" /\ w.listed = j.listed /\ w.mine = j.mine
        /\ w.unit = j.unit /\ w.left = j.left /\ w.units = j.units
        /\ w.named = j.named /\ w.calm = j.calm
    BY <1>1 DEF Jobs
  <2>4. w \in Jobs  BY <2>2
  <2> HIDE DEF w
  <2>5. Covered(w) = Covered(j)  BY <2>3 DEF Covered
  <2>6. j.calm => Converging(disk, feed, w)
    BY <1>1, <2>3, <2>5, ConvergeFacts DEF Converging, InHand
  <2>7. ASSUME NEW u \in settled PROVE PassesBy(disk, feed, w, u)
    <3>1. j.unit # u
      <4>1. CASE j.unit # Core  BY <1>1, <1>3, <4>1 DEF PassesBy
      <4>2. CASE u = Core /\ BaseStale(j, f)
        <5>1. Fresh(disk, feed, j.mine, Core) /\ j.listed[Core] = feed[Core]
          BY <1>1, <1>3, <4>2 DEF PassesBy, InHand
        <5>2. CASE j.unit = Core
          BY <1>2, <4>2, <5>1, <5>2 DEF Fresh, UpToDate, BaseStale, Current
        <5>3. QED  BY <4>2, <5>2
      <4>3. QED  BY <1>4, <4>1, <4>2
    <3>2. QED  BY <1>1, <1>3, <2>3, <3>1 DEF PassesBy, InHand
  <2>8. QED  BY <1>1, <1>3, <2>1, <2>3, <2>4, <2>6, <2>7, GoingOnKeeps
<1>5. CASE j.unit = Core /\ ~BaseStale(j, f)
  <2>1. job' = [job EXCEPT ![i] = r]
    BY <1>5, ConvergeFacts DEF NextFile
  <2>3. /\ r.phase = "checking" /\ r.listed = j.listed /\ r.mine = j.mine
        /\ r.unit = Core /\ r.left = j.left \ {f} /\ r.units = j.units
        /\ r.named = j.named /\ r.calm = j.calm
    BY <1>1, <1>5 DEF Jobs
  <2>4. r \in Jobs
    <3>1. j.left \ {f} \in SUBSET Files  BY <1>1, JobFields
    <3>2. QED  BY <1>1, <3>1, FieldUpdates
  <2> HIDE DEF r
  <2>5. Covered(r) = Covered(j)  BY <2>3 DEF Covered
  <2>6. j.listed = feed => UpToDate(disk, feed, j.mine, f)
    <3>1. /\ j.mine.claims[Core] = j.listed[Core] /\ j.mine.hashes[f] # 0
          /\ disk[f] = j.mine.hashes[f]
      BY <1>5 DEF BaseStale, Current
    <3>2. j.mine.hashes[f] >= j.mine.claims[Core]
      BY <1>2, <1>5, <3>1 DEF Consistent
    <3>3. QED  BY <1>2, <1>5, <3>1, <3>2 DEF UpToDate
  <2>7. j.calm => Converging(disk, feed, r)
    <3> SUFFICES ASSUME j.calm PROVE Converging(disk, feed, r)
      OBVIOUS
    <3>1. Converging(disk, feed, j)  BY ConvergeFacts
    <3>2. \A g \in FilesOf(Core) \ r.left : UpToDate(disk, feed, r.mine, g)
      BY <1>1, <2>3, <2>6, <3>1 DEF Converging, InHand
    <3>3. \A u \in Covered(r) \ ({Core} \cup r.units) : Fresh(disk, feed, r.mine, u)
      BY <1>1, <1>5, <2>3, <2>5, <3>1 DEF Converging, InHand
    <3>4. QED  BY <2>3, <3>1, <3>2, <3>3 DEF Converging
  <2>8. \A u \in settled : PassesBy(disk, feed, r, u)
    BY <1>1, <1>3, <2>3 DEF PassesBy, InHand
  <2>9. QED  BY <1>1, <1>3, <2>1, <2>3, <2>4, <2>7, <2>8, GoingOnKeeps
<1>6. QED  BY <1>4, <1>5

\* A form that is not stale is fresh, and a fresh one is not stale.
LEMMA StaleOrFresh ==
    ASSUME ConvergeInv, NEW j \in Jobs, Consistent(cdn, j.mine), NEW u \in Units,
           u # Core, j.listed[u] = feed[u]
    PROVE  /\ ~FormStale(j, u) => Fresh(disk, feed, j.mine, u)
           /\ FilesOf(u) # {} /\ Fresh(disk, feed, j.mine, u) => ~FormStale(j, u)
<1>1. ASSUME ~FormStale(j, u), NEW f \in FilesOf(u)
      PROVE  UpToDate(disk, feed, j.mine, f)
  <2>1. f \in Files /\ UnitOf[f] = u  BY UnitFacts
  <2>2. disk[f] = j.mine.hashes[f] /\ j.mine.hashes[f] # 0
    BY <1>1 DEF FormStale, Current
  <2>3. j.mine.hashes[f] >= j.mine.claims[u]  BY <2>1, <2>2 DEF Consistent
  <2>4. j.mine.hashes[f] \in Nat  BY <2>1, JobFields, ManifestFields
  <2>5. CASE u = Saft
    <3>1. feed[Saft] = 0  BY DEF ConvergeInv
    <3>2. QED  BY <2>1, <2>2, <2>4, <2>5, <3>1 DEF UpToDate
  <2>6. CASE u # Saft
    <3>1. j.mine.claims[u] = feed[u]  BY <1>1, <2>6 DEF FormStale
    <3>2. QED  BY <2>1, <2>2, <2>3, <3>1 DEF UpToDate
  <2>7. QED  BY <2>5, <2>6
<1>2. ~FormStale(j, u) => IF u = Saft THEN j.mine.claims[u] # 0 ELSE j.mine.claims[u] = feed[u]
  BY DEF FormStale
<1>3. ASSUME FilesOf(u) # {}, Fresh(disk, feed, j.mine, u) PROVE ~FormStale(j, u)
  BY <1>3 DEF Fresh, UpToDate, FormStale, Current
<1>4. QED  BY <1>1, <1>2, <1>3 DEF Fresh

LEMMA NextFormConverges ==
    ASSUME ConvergeInv, DukInv', NEW i \in Installs, NEW u \in Units, NextForm(i, u)
    PROVE  ConvergeInv'
<1> DEFINE j == job[i]
           unlisted == u # Saft /\ j.listed[u] = 0
           todo == IF ~unlisted /\ FormStale(j, u) THEN FilesOf(u) ELSE {}
           q == [j EXCEPT !.unit = u, !.units = j.units \ {u}, !.left = todo]
<1>1. /\ j \in Jobs /\ JobHolds(cdn, j) /\ j.phase = "checking" /\ j.left = {}
      /\ u \in j.units
      /\ cdn' = cdn /\ feed' = feed /\ disk' = disk /\ recorded' = recorded
      /\ settled' = settled
      /\ job' = IF unlisted /\ j.named # {} THEN [job EXCEPT ![i] = NoJob]
                ELSE [job EXCEPT ![i] = q]
  BY ConvergeFacts DEF NextForm, upstream
<1>2. /\ Consistent(cdn, j.mine) /\ j.units \subseteq Forms \cup {Saft} /\ u # Core
  BY <1>1 DEF JobHolds, CheckHolds
<1>3. \A v \in settled : PassesBy(disk, feed, j, v) /\ Fresh(disk, feed, recorded, v)
  BY <1>1, ConvergeFacts
<1>4. CASE unlisted /\ j.named # {}
  <2>1. job' = [job EXCEPT ![i] = NoJob] /\ UNCHANGED <<upstream, disk, recorded>>
    BY <1>1, <1>4 DEF upstream
  <2>2. QED  BY <1>1, <2>1, FailConverges
<1>5. CASE ~(unlisted /\ j.named # {})
  <2>1. job' = [job EXCEPT ![i] = q]  BY <1>1, <1>5
  <2>2. job' \in [Installs -> Jobs] /\ job'[i] = q
    BY <2>1, ConvergeFacts DEF DukInv, DukTypeOK
  <2> HIDE DEF todo
  <2>3. /\ q.phase = "checking" /\ q.listed = j.listed /\ q.mine = j.mine
        /\ q.unit = u /\ q.left = todo /\ q.units = j.units \ {u}
        /\ q.named = j.named /\ q.calm = j.calm
    BY <1>1 DEF Jobs
  <2>4. q \in Jobs  BY <2>2
  <2> HIDE DEF q
  <2>5. Covered(q) = Covered(j)  BY <2>3 DEF Covered
  <2>6. j.calm => Converging(disk, feed, q)
    <3> SUFFICES ASSUME j.calm PROVE Converging(disk, feed, q)
      OBVIOUS
    <3>1. Converging(disk, feed, j) /\ InHand(j) /\ j.listed = feed
      BY <1>1, ConvergeFacts DEF Converging, InHand
    <3>2. \A f \in FilesOf(Core) : UpToDate(disk, feed, q.mine, f)
      BY <1>1, <2>3, <3>1 DEF Converging
    <3>3. q.left # {} => FilesOf(q.unit) \ q.left = {} /\ (u # Saft => feed[u] # 0)
      BY <2>3, <3>1 DEF todo
    <3>4. ASSUME NEW v \in Covered(q) \ ({Core} \cup q.units), q.unit = v => q.left = {}
          PROVE  Fresh(disk, feed, q.mine, v)
      <4>1. CASE v # u
        BY <1>1, <2>3, <2>5, <3>1, <3>4, <4>1 DEF Converging
      <4>2. CASE v = u
        <5>1. todo = {}  BY <2>3, <3>4, <4>2
        <5>2. ~unlisted
          BY <1>5, <2>3, <3>4, <4>2 DEF Covered
        <5>3. FormStale(j, u) => FilesOf(u) = {}  BY <5>1, <5>2 DEF todo
        <5>4. CASE FilesOf(u) = {}  BY <4>2, <5>4 DEF Fresh
        <5>5. CASE ~FormStale(j, u)
          BY <1>1, <1>2, <2>3, <3>1, <4>2, <5>5, StaleOrFresh
        <5>6. QED  BY <5>3, <5>4, <5>5
      <4>3. QED  BY <4>1, <4>2
    <3>5. QED  BY <2>3, <3>1, <3>2, <3>3, <3>4 DEF Converging
  <2>7. ASSUME NEW v \in settled PROVE PassesBy(disk, feed, q, v)
    <3>1. PassesBy(disk, feed, j, v)  BY <1>3
    <3>2. Fresh(disk, feed, j.mine, v) /\ j.listed[v] = feed[v]
      BY <1>1, <3>1 DEF PassesBy, InHand
    <3>3. todo # {} => u # v
      BY <1>1, <1>2, <3>2, StaleOrFresh DEF todo
    <3>4. QED  BY <2>3, <3>2, <3>3 DEF PassesBy
  <2>8. QED  BY <1>1, <1>3, <2>1, <2>3, <2>4, <2>6, <2>7, GoingOnKeeps
<1>6. QED  BY <1>4, <1>5

\* Placing a file touches only its unit: what is fresh elsewhere stays so.
LEMMA PlaceConverges ==
    ASSUME ConvergeInv, DukInv', NEW i \in Installs, Place(i)
    PROVE  ConvergeInv'
<1> DEFINE j == job[i]
           q == job'[i]
           n == Recorded(j)
<1>1. /\ j \in Jobs /\ JobHolds(cdn, j) /\ j.phase = "writing"
      /\ cdn' = cdn /\ feed' = feed /\ recorded' = recorded /\ settled' = settled
      /\ job' = [job EXCEPT ![i].phase = "checking", ![i].left = @ \ {job[i].file},
                            ![i].mine = n, ![i].file = NoJob.file, ![i].data = 0]
  BY ConvergeFacts DEF Place, upstream
<1>2. PICK d \in Written(i) : disk' = [disk EXCEPT ![j.file] = d]
  BY DEF Place
<1>3. /\ q \in Jobs /\ job' = [job EXCEPT ![i] = q]
      /\ q.phase = "checking" /\ q.listed = j.listed /\ q.mine = n /\ q.unit = j.unit
      /\ q.left = j.left \ {j.file} /\ q.units = j.units /\ q.named = j.named
      /\ q.calm = j.calm
  <2> DEFINE r == [j EXCEPT !.phase = "checking", !.left = j.left \ {j.file},
                            !.mine = n, !.file = NoJob.file, !.data = 0]
  <2>1. job' = [job EXCEPT ![i] = r]  BY <1>1, ConvergeFacts
  <2>2. job' \in [Installs -> Jobs] /\ job'[i] = r
    BY <2>1, ConvergeFacts DEF DukInv, DukTypeOK
  <2>3. /\ r.phase = "checking" /\ r.listed = j.listed /\ r.mine = n /\ r.unit = j.unit
        /\ r.left = j.left \ {j.file} /\ r.units = j.units /\ r.named = j.named
        /\ r.calm = j.calm
    BY <1>1 DEF Jobs
  <2> HIDE DEF r
  <2>4. QED  BY <2>1, <2>2, <2>3
<1> HIDE DEF q
<1>4. /\ j.mine \in Manifest /\ j.file \in Files /\ j.file \in j.left
      /\ j.file \in FilesOf(j.unit) /\ UnitOf[j.file] = j.unit
      /\ j.data \in Nat /\ j.data >= Goal(cdn, j) /\ j.unit \in Units
      /\ j.unit = Saft => j.data = cdn[Saft]
      /\ disk \in [Files -> Versions]
  <2>1. /\ j.mine \in Manifest /\ j.file \in Files /\ j.data \in Nat /\ j.unit \in Units
        /\ disk \in [Files -> Versions]
    BY <1>1, JobFields, DukFacts DEF Versions, ConvergeInv
  <2>2. WriteHolds(cdn, j) /\ CheckHolds(cdn, j)  BY <1>1 DEF JobHolds
  <2>3. QED  BY <2>1, <2>2, UnitFacts DEF WriteHolds, CheckHolds
<1>5. /\ \A f \in Files : f # j.file => disk'[f] = disk[f] /\ n.hashes[f] = j.mine.hashes[f]
      /\ n.hashes[j.file] = j.data
      /\ \A u \in Units : u # j.unit => n.claims[u] = j.mine.claims[u]
      /\ j.unit # Core /\ j.left = {j.file} =>
            n.claims[j.unit] = IF j.unit = Saft THEN j.data ELSE j.listed[j.unit]
  BY <1>2, <1>4, ManifestFields DEF Recorded
<1> HIDE DEF n
<1>6. ASSUME NEW u \in Units, u # j.unit
      PROVE  /\ Fresh(disk, feed, j.mine, u) => Fresh(disk', feed, n, u)
             /\ Fresh(disk, feed, recorded, u) => Fresh(disk', feed, recorded, u)
  <2>1. \A f \in FilesOf(u) : f \in Files /\ f # j.file  BY <1>4, <1>6, UnitFacts
  <2>2. QED  BY <1>5, <1>6, <2>1, FreshAgain
<1>7. \A u \in settled : u \in Units /\ u # j.unit /\ PassesBy(disk, feed, j, u)
                        /\ Fresh(disk, feed, recorded, u)
  BY <1>1, ConvergeFacts, DukFacts DEF PassesBy
<1>8. \A u \in settled : PassesBy(disk', feed, q, u) /\ Fresh(disk', feed, recorded', u)
  BY <1>1, <1>3, <1>6, <1>7 DEF PassesBy, InHand
<1>9. ASSUME j.calm PROVE Converging(disk', feed, q)
  <2>1. /\ Converging(disk, feed, j) /\ InHand(j) /\ j.listed = feed
        /\ \A k \in Others(i) : job[k].phase = "idle"
    BY <1>1, <1>9, ConvergeFacts DEF Converging, InHand
  <2>2. d = j.data
    BY <1>2, <2>1 DEF Written, Others
  <2>3. j.left # {} /\ (j.unit \notin {Core, Saft} => feed[j.unit] # 0)
    BY <1>4, <2>1 DEF Converging
  <2>4. /\ feed[Core] # 0 /\ feed[Saft] = 0 /\ cdn[Saft] # 0
        /\ feed[Core] \in Nat /\ feed[j.unit] \in Nat
    BY <1>4, UnitFacts, ConvergeFacts, DukFacts
  <2>5. j.data # 0 /\ j.data >= feed[j.unit]
    <3>1. CASE j.unit = Saft  BY <1>4, <2>4, <3>1
    <3>2. CASE j.unit # Saft
      <4>1. j.data >= feed[j.unit] /\ feed[j.unit] # 0
        BY <1>4, <2>1, <2>3, <2>4, <3>2 DEF Goal
      <4>2. QED  BY <1>4, <2>4, <4>1
    <3>3. QED  BY <3>1, <3>2
  <2>6. UpToDate(disk', feed, n, j.file)
    <3>1. disk'[j.file] = j.data  BY <1>2, <1>4, <2>2
    <3>2. QED  BY <1>4, <1>5, <2>5, <3>1 DEF UpToDate
  <2>7. \A f \in Files : UpToDate(disk, feed, j.mine, f) => UpToDate(disk', feed, n, f)
    BY <1>5, <2>6 DEF UpToDate
  <2>8. ASSUME NEW f \in FilesOf(Core), q.unit = Core => f \notin q.left
        PROVE  UpToDate(disk', feed, q.mine, f)
    <3>1. f = j.file \/ (j.unit = Core => f \notin j.left)  BY <1>3, <2>8
    <3>2. f \in Files  BY UnitFacts
    <3>3. QED  BY <1>3, <2>1, <2>6, <2>7, <3>1, <3>2 DEF Converging
  <2>9. ASSUME NEW f \in FilesOf(j.unit) \ (j.left \ {j.file})
        PROVE  UpToDate(disk', feed, n, f)
    <3>1. f \in Files  BY UnitFacts
    <3>2. QED  BY <2>1, <2>3, <2>6, <2>7, <3>1 DEF Converging
  <2>10. ASSUME NEW u \in Covered(q) \ ({Core} \cup q.units), q.unit = u => q.left = {}
         PROVE  Fresh(disk', feed, n, u)
    <3>1. u \in Units /\ u # Core
      BY <1>3, UnitFacts, JobFields DEF Covered
    <3>2. CASE u = j.unit
      <4>1. j.left = {j.file}  BY <1>3, <1>4, <2>10, <3>2
      <4>2. \A f \in FilesOf(u) : UpToDate(disk', feed, n, f)
        BY <2>9, <3>2, <4>1
      <4>3. IF u = Saft THEN n.claims[u] # 0 ELSE n.claims[u] = feed[u]
        BY <1>5, <2>1, <2>5, <3>1, <3>2, <4>1
      <4>4. QED  BY <4>2, <4>3 DEF Fresh
    <3>3. CASE u # j.unit
      <4>1. n.claims[u] = j.mine.claims[u]  BY <1>5, <3>1, <3>3
      <4>2. u \in Covered(j) \ ({Core} \cup j.units)
        BY <1>3, <2>10, <3>1, <4>1 DEF Covered
      <4>3. Fresh(disk, feed, j.mine, u)  BY <2>1, <3>3, <4>2 DEF Converging
      <4>4. QED  BY <1>6, <3>1, <3>3, <4>3
    <3>4. QED  BY <3>2, <3>3
  <2>11. QED
    BY <1>3, <2>1, <2>3, <2>8, <2>9, <2>10 DEF Converging
<1>10. q.phase # "idle"  BY <1>3
<1>11. QED  BY <1>1, <1>3, <1>8, <1>9, <1>10, GoingOnKeeps

LEMMA TruncateManifestConverges ==
    ASSUME ConvergeInv, DukInv', NEW i \in Installs, TruncateManifest(i)
    PROVE  ConvergeInv'
<1> DEFINE j == job[i]
           n == [j.mine EXCEPT !.claims = [j.mine.claims EXCEPT ![Core] = j.listed[Core]]]
           q == [j EXCEPT !.phase = "saving", !.mine = n]
<1>1. /\ j \in Jobs /\ j.phase = "checking" /\ j.left = {} /\ j.units = {}
      /\ cdn' = cdn /\ feed' = feed /\ disk' = disk /\ settled' = settled
  BY ConvergeFacts DEF TruncateManifest, upstream
<1>2. j.mine \in Manifest /\ j.mine.claims \in [Units -> Versions]
  BY <1>1, JobFields, ManifestFields
<1>3. job' = [job EXCEPT ![i] = q]
  BY <1>1, <1>2, ConvergeFacts DEF TruncateManifest, Jobs, Manifest
<1>4. /\ n.hashes = j.mine.hashes /\ n.claims[Core] = j.listed[Core]
      /\ \A u \in Units \ {Core} : n.claims[u] = j.mine.claims[u]
  BY <1>2, UnitFacts DEF Manifest
<1> HIDE DEF n
<1>5. job' \in [Installs -> Jobs] /\ job'[i] = q
  BY <1>3, ConvergeFacts DEF DukInv, DukTypeOK
<1>6. /\ q.phase = "saving" /\ q.listed = j.listed /\ q.mine = n /\ q.unit = j.unit
      /\ q.left = {} /\ q.units = {} /\ q.named = j.named /\ q.calm = j.calm
  BY <1>1 DEF Jobs
<1>7. q \in Jobs  BY <1>5
<1> HIDE DEF q
<1>8. \A u \in Units \ {Core} : Fresh(disk, feed, j.mine, u) => Fresh(disk, feed, n, u)
  BY <1>4, FreshAgain
<1>9. ASSUME NEW u \in settled PROVE PassesBy(disk, feed, q, u)
  <2>1. /\ j.listed[u] = feed[u] /\ Fresh(disk, feed, j.mine, u)
    BY <1>1, ConvergeFacts DEF PassesBy, InHand
  <2>2. u \in Units  BY ConvergeFacts, DukFacts
  <2>3. Fresh(disk, feed, n, u)
    <3>1. CASE u = Core
      BY <1>4, <2>1, <3>1, DukUnits DEF Fresh, UpToDate
    <3>2. CASE u # Core  BY <1>8, <2>1, <2>2, <3>2
    <3>3. QED  BY <3>1, <3>2
  <2>4. QED  BY <1>6, <2>1, <2>3 DEF PassesBy
<1>10. ASSUME j.calm PROVE Converging(disk, feed, q)
  <2>1. /\ Converging(disk, feed, j) /\ InHand(j) /\ j.listed = feed
    BY <1>1, <1>10, ConvergeFacts DEF Converging, InHand
  <2>2. \A f \in FilesOf(Core) : UpToDate(disk, feed, n, f)
    BY <1>1, <1>4, <2>1 DEF Converging, UpToDate
  <2>3. Fresh(disk, feed, n, Core)  BY <1>4, <2>1, <2>2, DukUnits DEF Fresh
  <2>4. ASSUME NEW u \in Covered(q) \ {Core} PROVE Fresh(disk, feed, n, u)
    <3>1. u \in Units \ {Core}  BY <1>6, UnitFacts, JobFields, <1>7 DEF Covered
    <3>2. u \in Covered(j)  BY <1>4, <1>6, <3>1 DEF Covered
    <3>3. QED  BY <1>1, <1>8, <2>1, <3>1, <3>2 DEF Converging
  <2>5. QED  BY <1>6, <2>1, <2>2, <2>3, <2>4 DEF Converging
<1>11. j.phase # "idle" /\ q.phase # "idle"  BY <1>1, <1>6
<1>12. QED  BY <1>1, <1>3, <1>6, <1>7, <1>9, <1>10, <1>11, GoingOnKeeps

LEMMA FetchFeedConverges ==
    ASSUME ConvergeInv, DukInv', NEW i \in Installs, NEW names \in Namings[i],
           FetchFeed(i, names)
    PROVE  ConvergeInv'
<1> DEFINE alone == \A k \in Installs : job[k].phase = "idle"
           q == [NoJob EXCEPT !.phase = "loading", !.named = names, !.listed = feed,
                              !.calm = alone]
<1>1. /\ job[i].phase = "idle" /\ cdn' = cdn /\ feed' = feed /\ disk' = disk
      /\ recorded' = recorded /\ settled' = IF alone THEN settled ELSE {}
      /\ job' = [k \in Installs |->
                    IF k = i THEN q ELSE [job[k] EXCEPT !.calm = FALSE]]
  BY DEF FetchFeed, upstream
<1> HIDE DEF alone
<1>2. q.phase = "loading" /\ q.listed = feed /\ q.calm = alone
  BY DEF NoJob
<1> HIDE DEF q
<1>3. ASSUME NEW k \in Others(i)
      PROVE  job'[k].phase = job[k].phase /\ ~job'[k].calm
  <2>1. k \in Installs /\ k # i /\ job[k] \in Jobs  BY ConvergeFacts DEF Others
  <2>2. job'[k] = [job[k] EXCEPT !.calm = FALSE]  BY <1>1, <2>1
  <2>3. QED  BY <2>1, <2>2 DEF Jobs
<1>4. job'[i] = q /\ \A k \in Installs : k = i \/ k \in Others(i)
  BY <1>1 DEF Others
<1>5. alone => \A k \in Others(i) : job'[k].phase = "idle"
  BY <1>3 DEF alone, Others
<1>6. ASSUME NEW k \in Installs, job'[k].calm
      PROVE  /\ job'[k].phase # "idle" /\ \A l \in Others(k) : job'[l].phase = "idle"
             /\ Converging(disk', feed', job'[k])
  <2>1. k = i /\ alone  BY <1>2, <1>3, <1>4, <1>6
  <2>2. Converging(disk', feed', q)  BY <1>1, <1>2 DEF Converging, InHand
  <2>3. QED  BY <1>2, <1>4, <1>5, <2>1, <2>2
<1>7. ASSUME settled' # {}, NEW k \in Installs, NEW l \in Others(k)
      PROVE  job'[k].phase = "idle" \/ job'[l].phase = "idle"
  <2>1. alone  BY <1>1, <1>7
  <2>2. k \in Others(i) \/ l \in Others(i)  BY DEF Others
  <2>3. QED  BY <1>5, <2>1, <2>2
<1>8. ASSUME NEW u \in settled', NEW k \in Installs
      PROVE  PassesBy(disk', feed', job'[k], u)
  <2>1. alone  BY <1>1, <1>8
  <2>2. PassesBy(disk', feed', q, u)  BY <1>1, <1>2 DEF PassesBy, InHand
  <2>3. CASE k \in Others(i)  BY <1>5, <2>1, <2>3 DEF PassesBy, InHand
  <2>4. QED  BY <1>4, <2>2, <2>3
<1>9. ASSUME NEW u \in settled' PROVE Fresh(disk', feed', recorded', u)
  <2>1. alone /\ u \in settled  BY <1>1, <1>9
  <2>2. \A k \in Installs : job[k].phase # "saving"  BY <2>1 DEF alone
  <2>3. QED  BY <1>1, <2>1, <2>2 DEF ConvergeInv
<1>10. feed'[Core] # 0 /\ feed'[Saft] = 0 /\ cdn'[Saft] # 0
  BY <1>1, ConvergeFacts
<1>11. QED  BY <1>6, <1>7, <1>8, <1>9, <1>10 DEF ConvergeInv

LEMMA UploadConverges ==
    ASSUME ConvergeInv, DukInv', NEW u \in Units, Upload(u)
    PROVE  ConvergeInv'
<1>1. /\ u # Saft /\ cdn' = [cdn EXCEPT ![u] = cdn[u] + 1]
      /\ feed' = feed /\ disk' = disk /\ recorded' = recorded /\ job' = job
      /\ settled' = settled
  BY DEF Upload
<1>2. cdn'[Saft] = cdn[Saft]
  BY <1>1, DukFacts, UnitFacts DEF ConvergeInv
<1>3. QED  BY <1>1, <1>2 DEF ConvergeInv

LEMMA ListConverges ==
    ASSUME ConvergeInv, DukInv', NEW u \in Units, List(u)
    PROVE  ConvergeInv'
<1>1. /\ u # Saft /\ feed[u] < cdn[u] /\ feed' = [feed EXCEPT ![u] = cdn[u]]
      /\ cdn' = cdn /\ disk' = disk /\ recorded' = recorded
      /\ job' = [i \in Installs |-> [job[i] EXCEPT !.calm = FALSE]]
      /\ settled' = settled \ {u}
  BY DEF List, Disturb
<1>2. /\ feed \in [Units -> Versions] /\ settled \subseteq Units
      /\ \A w \in Units : cdn[w] \in Nat /\ feed[w] \in Nat
      /\ \A i \in Installs : job[i] \in Jobs
  BY DukFacts DEF ConvergeInv
<1>3. \A w \in Units \ {u} : feed'[w] = feed[w]  BY <1>1, <1>2
<1>4. ASSUME NEW i \in Installs
      PROVE  /\ job'[i].phase = job[i].phase /\ job'[i].listed = job[i].listed
             /\ job'[i].mine = job[i].mine /\ job'[i].unit = job[i].unit
             /\ job'[i].left = job[i].left /\ ~job'[i].calm
  <2>1. job'[i] = [job[i] EXCEPT !.calm = FALSE]  BY <1>1
  <2>2. QED  BY <1>2, <2>1 DEF Jobs
<1>5. ASSUME NEW w \in settled', NEW m
      PROVE  Fresh(disk, feed, m, w) => Fresh(disk', feed', m, w)
  <2>1. w \in settled /\ w \in Units \ {u}  BY <1>1, <1>2
  <2>2. \A f \in FilesOf(w) : UnitOf[f] = w  BY DEF FilesOf
  <2>3. QED  BY <1>1, <1>3, <2>1, <2>2 DEF Fresh, UpToDate
<1>6. ASSUME NEW w \in settled', NEW i \in Installs
      PROVE  PassesBy(disk', feed', job'[i], w)
  <2>1. w \in settled /\ w \in Units \ {u}  BY <1>1, <1>2
  <2>2. PassesBy(disk, feed, job[i], w)  BY <2>1 DEF ConvergeInv
  <2>3. QED  BY <1>3, <1>4, <1>5, <2>1, <2>2 DEF PassesBy, InHand
<1>7. ASSUME \A i \in Installs : job'[i].phase # "saving", NEW w \in settled'
      PROVE  Fresh(disk', feed', recorded', w)
  <2>1. w \in settled /\ \A i \in Installs : job[i].phase # "saving"
    BY <1>1, <1>4, <1>7
  <2>2. Fresh(disk, feed, recorded, w)  BY <2>1 DEF ConvergeInv
  <2>3. QED  BY <1>1, <1>5, <2>2
<1>8. feed'[Core] # 0 /\ feed'[Saft] = 0 /\ cdn'[Saft] # 0
  <2>1. feed[Core] # 0 /\ feed[Saft] = 0 /\ cdn[Saft] # 0  BY DEF ConvergeInv
  <2>2. feed'[Core] # 0
    BY <1>1, <1>2, <2>1, UnitFacts
  <2>3. feed'[Saft] = feed[Saft]  BY <1>1, <1>3, UnitFacts
  <2>4. QED  BY <1>1, <2>1, <2>2, <2>3
<1>9. ASSUME settled' # {}, NEW i \in Installs, NEW k \in Others(i)
      PROVE  job'[i].phase = "idle" \/ job'[k].phase = "idle"
  <2>1. settled # {} /\ k \in Installs  BY <1>1, <1>9 DEF Others
  <2>2. QED  BY <1>4, <2>1 DEF ConvergeInv
<1>10. QED  BY <1>4, <1>6, <1>7, <1>8, <1>9 DEF ConvergeInv

LEMMA InitConverges == DukInit => ConvergeInv
<1> SUFFICES ASSUME DukInit PROVE ConvergeInv
  OBVIOUS
<1>1. feed[Core] # 0 /\ feed[Saft] = 0 /\ cdn[Saft] # 0
  BY UnitFacts DEF DukInit
<1>2. \A i \in Installs : job[i] = NoJob  BY DEF DukInit
<1>3. NoJob.phase = "idle" /\ ~NoJob.calm  BY DEF NoJob
<1>4. settled = {}  BY DEF DukInit
<1>5. QED  BY <1>1, <1>2, <1>3, <1>4, InitDuk DEF ConvergeInv

\* ConvergeInv is inductive: what a calm install leaves behind it is fresh, and
\* what is settled stays so.
THEOREM InstallsSettle == DukSpec => []ConvergeInv
<1>1. ConvergeInv /\ [DukNext]_dukVars => ConvergeInv'
  <2> SUFFICES ASSUME ConvergeInv, [DukNext]_dukVars PROVE ConvergeInv'
    OBVIOUS
  <2>1. DukInv'  BY StepKeeps DEF ConvergeInv
  <2>2. CASE \E i \in Installs : Install(i)
    <3>1. ASSUME NEW i \in Installs, Fail(i) PROVE ConvergeInv'
      BY <2>1, <3>1, FailConverges DEF Fail
    <3>2. QED
      BY <2>1, <2>2, <3>1, FetchFeedConverges, LoadManifestConverges, NextFileConverges,
         NextFormConverges, PlaceConverges, TruncateManifestConverges, SaveManifestConverges
      DEF Install
  <2>3. CASE \E u \in Units : Upload(u) \/ List(u)
    BY <2>1, <2>3, UploadConverges, ListConverges
  <2>4. CASE UNCHANGED dukVars
    <3>1. /\ cdn' = cdn /\ feed' = feed /\ disk' = disk /\ recorded' = recorded
          /\ job' = job /\ settled' = settled
      BY <2>4 DEF dukVars
    <3>2. QED  BY <2>1, <3>1 DEF ConvergeInv
  <2>5. QED  BY <2>2, <2>3, <2>4 DEF DukNext
<1>2. QED  BY <1>1, InitConverges, PTL DEF DukSpec

\* What an install that ran alone to its end covers is on disk in the version listed,
\* or newer, whatever failed or raced before it.
THEOREM InstallsConverge == DukSpec => []InstallConverges
<1>1. ConvergeInv => InstallConverges
  <2> SUFFICES ASSUME ConvergeInv, NEW f \in Files, UnitOf[f] \in settled
               PROVE  disk[f] # 0 /\ disk[f] >= feed[UnitOf[f]]
    BY DEF InstallConverges
  <2>1. f \in FilesOf(UnitOf[f])  BY DEF FilesOf
  <2>2. CASE \E i \in Installs : job[i].phase = "saving"
    <3>1. PICK i \in Installs : job[i].phase = "saving"  BY <2>2
    <3>2. Fresh(disk, feed, job[i].mine, UnitOf[f])
      BY <3>1 DEF ConvergeInv, PassesBy, InHand
    <3>3. QED  BY <2>1, <3>2 DEF Fresh, UpToDate
  <2>3. CASE \A i \in Installs : job[i].phase # "saving"
    BY <2>1, <2>3 DEF ConvergeInv, Fresh, UpToDate
  <2>4. QED  BY <2>2, <2>3
<1>2. QED  BY <1>1, InstallsSettle, PTL

\* Running it again downloads nothing.
THEOREM SettledIsLeftAlone == DukSpec => []SettledStays
<1>1. ConvergeInv => SettledStays  BY DEF ConvergeInv, PassesBy, SettledStays
<1>2. QED  BY <1>1, InstallsSettle, PTL
=============================================================================
