----------------------------- MODULE DukInstall -----------------------------
(***************************************************************************)
(* DukInstaller.install (declaratii/install.py): converging a DUKIntegrator *)
(* dist directory to ANAF's update feed.                                   *)
(*                                                                         *)
(* Installs run in processes of their own (the CLI, a server) on one       *)
(* directory, without a lock.  Between two file operations of one install  *)
(* another may run, or the install ends: by a network error, an OSError, a *)
(* cancellation or the end of its process.  ANAF replaces a file on its    *)
(* download host before it lists the new version in the feed.              *)
(*                                                                         *)
(* A unit is what the manifest claims a version of: the core, or a form.   *)
(* The contents of a file are the version of its unit they belong to, 0    *)
(* when there is no file or its bytes belong to no version; a hash is the  *)
(* contents it was computed from.  The order of a unit's files and of the  *)
(* forms is left open.                                                     *)
(***************************************************************************)
EXTENDS Naturals

CONSTANTS
    Installs,       \* processes that run the installer, any number of times
    Core, Saft,     \* the integrator's own files; the form D406T
    Forms,          \* the other forms
    Preinstalled,   \* PREINSTALL_FORMS
    Namings,        \* what each is asked for: sets of forms, {} for the default
    Files, UnitOf,  \* files of the dist, and the unit of each
    MaxVersion      \* bound: versions ANAF publishes of a unit

Units == {Core, Saft} \cup Forms
FilesOf(u) == {f \in Files : UnitOf[f] = u}

ASSUME DukUnits ==
    /\ Files # {} /\ UnitOf \in [Files -> Units]
    /\ Preinstalled \subseteq Forms
    /\ Namings \in [Installs -> SUBSET SUBSET (Forms \cup {Saft})]
    /\ Core # Saft /\ Core \notin Forms /\ Saft \notin Forms
ASSUME DukBound == MaxVersion \in Nat \ {0}

Versions == 0..MaxVersion
Manifest == [claims : [Units -> Versions], hashes : [Files -> Versions]]
Blank == [claims |-> [u \in Units |-> 0], hashes |-> [f \in Files |-> 0]]

VARIABLES
    cdn,        \* the version of a unit's files on the download host
    feed,       \* the version versiuni.xml lists, 0: not listed
    disk,       \* the files of the dist
    recorded,   \* the manifest file; Blank when it does not parse
    job,        \* what each install is doing
    settled     \* units brought up to date by a calm install, untouched since

dukVars == <<cdn, feed, disk, recorded, job, settled>>
upstream == <<cdn, feed>>

Phases == {"idle", "loading", "checking", "writing", "saving"}

\* named: the forms asked for, none for the default targets; listed: the feed
\* as read; mine: its manifest, in memory; unit, left: the unit it is at and the
\* files of it still to do; units: the units after that; file, data: the file
\* it is at and what was downloaded for it; calm: nothing else happened since
\* it began.
Jobs == [phase : Phases, named : SUBSET (Forms \cup {Saft}),
         listed : [Units -> Versions], mine : Manifest, unit : Units,
         left : SUBSET Files, units : SUBSET Units, file : Files,
         data : Versions, calm : BOOLEAN]

NoJob == [phase |-> "idle", named |-> {}, listed |-> [u \in Units |-> 0],
          mine |-> Blank, unit |-> Core, left |-> {}, units |-> {},
          file |-> CHOOSE f \in Files : TRUE, data |-> 0, calm |-> FALSE]

DukInit ==
    /\ feed \in [Units -> 0..1] /\ feed[Core] = 1 /\ feed[Saft] = 0
    /\ cdn = [feed EXCEPT ![Saft] = 1]
    /\ disk = [f \in Files |-> 0]
    /\ recorded = Blank
    /\ job = [i \in Installs |-> NoJob]
    /\ settled = {}

-----------------------------------------------------------------------------
(* One install.                                                            *)

CurrentIfThere(m, f) == disk[f] # 0   \* mutant: the hash is not looked at

\* _is_current: the file matches its recorded hash.
Current(m, f) == m.hashes[f] # 0 /\ disk[f] = m.hashes[f]

BaseStaleByHash(j, f) == ~Current(j.mine, f)   \* mutant: core_changed dropped

BaseStale(j, f) == j.mine.claims[Core] # j.listed[Core] \/ ~Current(j.mine, f)

\* The SAF-T form's version is not in the feed: what is there stays.
FormStale(j, u) ==
    \/ u = Saft /\ j.mine.claims[u] = 0
    \/ u # Saft /\ j.mine.claims[u] # j.listed[u]
    \/ \E f \in FilesOf(u) : ~Current(j.mine, f)

\* _default_targets; without being named the SAF-T form is only noted.
Targets(m) == Preinstalled \cup
    {u \in Forms : m.claims[u] # 0 \/ \E f \in FilesOf(u) : disk[f] # 0}

\* The feed arrived: install() up to its first await.
FetchFeed(i, names) ==
    /\ job[i].phase = "idle"
    /\ LET alone == \A k \in Installs : job[k].phase = "idle" IN
       /\ job' = [k \in Installs |->
                     IF k = i THEN [NoJob EXCEPT !.phase = "loading", !.named = names,
                                                 !.listed = feed, !.calm = alone]
                     ELSE [job[k] EXCEPT !.calm = FALSE]]
       /\ settled' = IF alone THEN settled ELSE {}
    /\ UNCHANGED <<upstream, disk, recorded>>

LoadManifest(i) ==
    /\ job[i].phase = "loading"
    /\ job' = [job EXCEPT ![i].phase = "checking", ![i].mine = recorded,
                 ![i].unit = Core, ![i].left = FilesOf(Core),
                 ![i].units = IF job[i].named = {} THEN Targets(recorded)
                              ELSE job[i].named]
    /\ UNCHANGED <<upstream, disk, recorded, settled>>

\* The next base file, skipped when it is up to date, or the next file of a
\* form that is not; and its download.
NextFile(i, f) ==
    /\ job[i].phase = "checking" /\ f \in job[i].left
    /\ job' = IF job[i].unit # Core \/ BaseStale(job[i], f)
              THEN [job EXCEPT ![i].phase = "writing", ![i].file = f,
                               ![i].data = cdn[job[i].unit]]
              ELSE [job EXCEPT ![i].left = @ \ {f}]
    /\ UNCHANGED <<upstream, disk, recorded, settled>>

\* _install_form: a form the feed does not list raises when it was named.
NextForm(i, u) ==
    /\ job[i].phase = "checking" /\ job[i].left = {} /\ u \in job[i].units
    /\ LET unlisted == u # Saft /\ job[i].listed[u] = 0
           todo == IF ~unlisted /\ FormStale(job[i], u) THEN FilesOf(u) ELSE {} IN
       job' = IF unlisted /\ job[i].named # {} THEN [job EXCEPT ![i] = NoJob]
              ELSE [job EXCEPT ![i].unit = u, ![i].units = @ \ {u}, ![i].left = todo]
    /\ UNCHANGED <<upstream, disk, recorded, settled>>

RecordedUnhashed(j) == j.mine   \* mutant: _fetch_into records nothing

\* The hash is of what was downloaded; the form is claimed after its last file,
\* the SAF-T form in the version its own history file states.
Recorded(j) ==
    [claims |-> IF j.unit # Core /\ j.left = {j.file}
                THEN [j.mine.claims EXCEPT ![j.unit] =
                         IF j.unit = Saft THEN j.data ELSE j.listed[j.unit]]
                ELSE j.mine.claims,
     hashes |-> [j.mine.hashes EXCEPT ![j.file] = j.data]]

\* What _write leaves in the file: the download, or, when another install is
\* rewriting the same partial file, what that one downloaded or a torn file.
Written(i) ==
    LET others == {k \in Installs \ {i} :
                      job[k].phase = "writing" /\ job[k].file = job[i].file} IN
    {job[i].data} \cup {job[k].data : k \in others} \cup {x \in {0} : others # {}}

\* _fetch_into, after the download.
Place(i) ==
    /\ job[i].phase = "writing"
    /\ \E d \in Written(i) : disk' = [disk EXCEPT ![job[i].file] = d]
    /\ job' = [job EXCEPT ![i].phase = "checking", ![i].left = @ \ {job[i].file},
                          ![i].mine = Recorded(job[i]),
                          ![i].file = NoJob.file, ![i].data = 0]
    /\ UNCHANGED <<upstream, recorded, settled>>

\* Whatever ends an install before it saved: nothing of its manifest is kept.
\* One way is that another install moved its partial file away.
Fail(i) ==
    /\ job[i].phase # "idle"
    /\ job' = [job EXCEPT ![i] = NoJob]
    /\ settled' = IF job[i].phase = "saving" THEN {} ELSE settled
    /\ UNCHANGED <<upstream, disk, recorded>>

\* write_text truncates the manifest first.
TruncateManifest(i) ==
    /\ job[i].phase = "checking" /\ job[i].left = {} /\ job[i].units = {}
    /\ job' = [job EXCEPT ![i].phase = "saving",
                          ![i].mine.claims[Core] = job[i].listed[Core]]
    /\ recorded' = Blank
    /\ UNCHANGED <<upstream, disk, settled>>

\* The units an install that ends well is responsible for.
Covered(j) == {Core} \cup
    IF j.named # {} THEN j.named
    ELSE {u \in Forms : j.listed[u] # 0 /\ j.mine.claims[u] # 0}

SaveManifest(i) ==
    /\ job[i].phase = "saving"
    /\ recorded' = job[i].mine
    /\ job' = [job EXCEPT ![i] = NoJob]
    /\ settled' = IF job[i].calm THEN settled \cup Covered(job[i]) ELSE settled
    /\ UNCHANGED <<upstream, disk>>

-----------------------------------------------------------------------------
(* ANAF's publications, and damage to the directory.                       *)

Disturb(touched) ==
    /\ job' = [i \in Installs |-> [job[i] EXCEPT !.calm = FALSE]]
    /\ settled' = settled \ touched

Upload(u) ==
    /\ cdn[u] < MaxVersion /\ u # Saft /\ cdn[u] = feed[u]
    /\ \A w \in Units \ {u} : cdn[w] <= 1   \* bound: one unit is renewed
    /\ cdn' = [cdn EXCEPT ![u] = @ + 1]
    /\ UNCHANGED <<feed, disk, recorded, job, settled>>

List(u) ==
    /\ u # Saft /\ feed[u] < cdn[u]
    /\ feed' = [feed EXCEPT ![u] = cdn[u]]
    /\ Disturb({u})
    /\ UNCHANGED <<cdn, disk, recorded>>

Install(i) ==
    \/ \E names \in Namings[i] : FetchFeed(i, names)
    \/ LoadManifest(i)
    \/ \E f \in Files : NextFile(i, f)
    \/ \E u \in Units : NextForm(i, u)
    \/ Place(i)
    \/ Fail(i)
    \/ TruncateManifest(i)
    \/ SaveManifest(i)

DukNext ==
    \/ \E i \in Installs : Install(i)
    \/ \E u \in Units : Upload(u) \/ List(u)

DukSpec == DukInit /\ [][DukNext]_dukVars

-----------------------------------------------------------------------------
(* Properties.                                                             *)

DukTypeOK ==
    /\ cdn \in [Units -> Versions] /\ feed \in [Units -> Versions]
    /\ disk \in [Files -> Versions] /\ recorded \in Manifest
    /\ job \in [Installs -> Jobs]
    /\ settled \subseteq Units

\* However installs race, fail and crash: a file that passes for up to date is
\* not older than the version the manifest claims for its unit.  Otherwise
\* every later install would leave it (manifest_versions: "authoritative").
ClaimsAreTrue ==
    \A f \in Files :
        disk[f] # 0 /\ disk[f] = recorded.hashes[f]
            => disk[f] >= recorded.claims[UnitOf[f]]

\* An install that ran alone to its end has repaired whatever failed or raced
\* before it: what it covers is on disk in the version listed, or newer.
InstallConverges ==
    \A f \in Files : UnitOf[f] \in settled =>
        disk[f] # 0 /\ disk[f] >= feed[UnitOf[f]]

\* Running it again downloads nothing.
SettledStays ==
    \A i \in Installs : job[i].phase = "writing" => job[i].unit \notin settled
=============================================================================
