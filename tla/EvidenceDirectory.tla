-------------------------- MODULE EvidenceDirectory --------------------------
(***************************************************************************)
(* The directory performance-report keeps the evidence of a pair in:       *)
(* pair-live-endpoints writes it file by file and may be cut short at any  *)
(* of them, later runs write over it, other commands and people change     *)
(* single files, and verify-live-directory says at the end whether it can  *)
(* be relied on.                                                           *)
(*                                                                         *)
(* A directory is a function from file names to contents.  A checksum is   *)
(* modelled by the content it was computed from (BLAKE3 has no collisions  *)
(* here).  The kind of a content is what the file's format shows.          *)
(***************************************************************************)
EXTENDS LiveEvidence

CONSTANTS
    Endpoints,     \* exported endpoint files, valid or not
    MaxEdits,      \* how often somebody else changes the directory
    MaxRuns        \* how often endpoints are paired

VARIABLES
    dir,     \* the directory
    writer,  \* the running pair-live-endpoints: what it still has to write
    edits,   \* changes made by others so far
    runs,    \* pairings started so far
    paired   \* the endpoints of the last pairing, if it ended and the
             \* directory has not been changed since; Null otherwise

vars == <<dir, writer, edits, runs, paired>>

ASSUME DirectoryAssumption == \A e \in Endpoints : LiveEndpointObservationV1(e)

-----------------------------------------------------------------------------
\* required_live_artifact_spec(): the files in the order they are written.
RequiredFiles ==
    <<"peer-a.validated.json", "peer-b.validated.json", "peer-a.summary.json",
      "peer-b.summary.json", "pair-summary.json", "report.md">>

Manifest == "artifact-manifest.json"
Artifacts == {RequiredFiles[i] : i \in 1..6}
Files == Artifacts \cup {Manifest}

\* The kind of document that belongs under an artifact role; the role of a
\* required file is known by the file's name here.
KindOf(role) ==
    CASE role \in {"peer-a.validated.json", "peer-b.validated.json"} -> "endpoint"
      [] role \in {"peer-a.summary.json", "peer-b.summary.json"} -> "summary"
      [] role = "pair-summary.json" -> "pair"
      [] role = "report.md" -> "report"

\* No such file, and one that was created but not written in full.
Missing == [kind |-> "missing"]
Torn    == [kind |-> "torn"]

Present(d, f) == d[f] # Missing /\ d[f] # Torn

\* What pairing a and b writes into each artifact.
PairArtifacts(a, b) ==
    [f \in Artifacts |->
        CASE f = "peer-a.validated.json" -> a
          [] f = "peer-b.validated.json" -> b
          [] f = "peer-a.summary.json" -> compute_live_endpoint_derived(a)
          [] f = "peer-b.summary.json" -> compute_live_endpoint_derived(b)
          [] f = "pair-summary.json" -> build_pair(a, b)
          [] f = "report.md" -> build_pair_report(a, b)]

\* Mutant: report.md is not listed.
build_manifest_entriesShort(d, session, commit) ==
    [kind      |-> "manifest",
     session   |-> session,
     commit    |-> commit,
     artifacts |-> [i \in 1..5 |-> [file |-> RequiredFiles[i],
                                    role |-> RequiredFiles[i],
                                    sum  |-> d[RequiredFiles[i]]]]]

\* build_manifest_entries(): the files are read back from the directory.
build_manifest_entries(d, session, commit) ==
    [kind      |-> "manifest",
     session   |-> session,
     commit    |-> commit,
     artifacts |-> [i \in 1..6 |-> [file |-> RequiredFiles[i],
                                    role |-> RequiredFiles[i],
                                    sum  |-> d[RequiredFiles[i]]]]]

-----------------------------------------------------------------------------
(* verify-live-directory: first the checksums, then everything that can be *)
(* computed again from the two endpoints.                                  *)

\* What is asked of a file under the role its entry names.  A summary only
\* has to be JSON.
ContentFits(content, role) ==
    CASE role \in {"peer-a.validated.json", "peer-b.validated.json"} ->
            content.kind = "endpoint" /\ validate_live_endpoint(Reread(content), TRUE)
      [] role = "pair-summary.json" -> content.kind = "pair"
      [] role = "report.md" -> content.kind = "report"
      [] OTHER -> content.kind # "report"

\* Mutant: the checksum is not compared.
EntryFitsAnySum(d, entry) ==
    /\ entry.file \in Artifacts /\ entry.role \in Artifacts
    /\ Present(d, entry.file)
    /\ ContentFits(d[entry.file], entry.role)

EntryFits(d, entry) ==
    /\ entry.file \in Artifacts
    /\ entry.role \in Artifacts
    /\ d[entry.file] = entry.sum
    /\ Present(d, entry.file)
    /\ ContentFits(d[entry.file], entry.role)

verify_live_artifact_manifest(d) ==
    /\ Present(d, Manifest)
    /\ d[Manifest].kind = "manifest"
    /\ LET entries == d[Manifest].artifacts IN
        /\ \A i \in DOMAIN entries : EntryFits(d, entries[i])
        /\ \A i, j \in DOMAIN entries : i # j =>
              /\ entries[i].file # entries[j].file
              /\ entries[i].role # entries[j].role
        /\ \A f \in Artifacts : \E i \in DOMAIN entries :
              entries[i].file = f /\ entries[i].role = f

verify_live_directory_semantics(d) ==
    LET a == Reread(d["peer-a.validated.json"])
        b == Reread(d["peer-b.validated.json"])
    IN  /\ Pairable(a, b)
        /\ \A f \in Artifacts :
              KindOf(f) # "endpoint" => Reread(d[f]) = PairArtifacts(a, b)[f]
        /\ d[Manifest].session = a.session
        /\ d[Manifest].commit = a.commit

validate_live_directory(d) ==
    /\ verify_live_artifact_manifest(d)
    /\ verify_live_directory_semantics(d)

-----------------------------------------------------------------------------
(* pair-live-endpoints.  A file is created before it is written, and the   *)
(* process may end in between.  Its steps are numbered: 2k-1 creates and   *)
(* 2k writes the k-th required file, 13 and 14 the manifest.  alone tells  *)
(* that nobody else has changed the directory since the start.             *)

Idle == [step |-> 0, a |-> Null, b |-> Null, alone |-> TRUE, manifest |-> Null]

Init ==
    /\ dir = [f \in Files |-> Missing]
    /\ writer = Idle
    /\ edits = 0
    /\ runs = 0
    /\ paired = Null

\* An input is an exported file or a validated copy from the directory.
Inputs(d) ==
    Endpoints \cup {Reread(d[f]) : f \in {g \in Artifacts :
                        Present(d, g) /\ d[g].kind = "endpoint"}}

\* Both inputs are read and paired before anything is written.
StartPairing ==
    /\ writer = Idle
    /\ runs < MaxRuns
    /\ \E a, b \in Inputs(dir) :
        /\ Pairable(a, b)
        /\ writer' = [Idle EXCEPT !.step = 1, !.a = a, !.b = b]
    /\ runs' = runs + 1
    /\ UNCHANGED <<dir, edits, paired>>

Create(f) == dir' = [dir EXCEPT ![f] = Torn] /\ paired' = Null

CreateFile ==
    /\ writer.step \in {1, 3, 5, 7, 9, 11}
    /\ Create(RequiredFiles[(writer.step + 1) \div 2])
    /\ writer' = [writer EXCEPT !.step = @ + 1]
    /\ UNCHANGED <<edits, runs>>

WriteFile ==
    /\ writer.step \in {2, 4, 6, 8, 10, 12}
    /\ LET f == RequiredFiles[writer.step \div 2] IN
        dir' = [dir EXCEPT ![f] = PairArtifacts(writer.a, writer.b)[f]]
    /\ writer' = [writer EXCEPT !.step = @ + 1]
    /\ UNCHANGED <<edits, runs, paired>>

\* The manifest is computed from the files as they are now.
CreateManifest ==
    /\ writer.step = 13
    /\ \A f \in Artifacts : dir[f] # Missing
    /\ Create(Manifest)
    /\ writer' = [writer EXCEPT !.step = 14,
          !.manifest = build_manifest_entries(dir, writer.a.session, writer.a.commit)]
    /\ UNCHANGED <<edits, runs>>

WriteManifest ==
    /\ writer.step = 14
    /\ dir' = [dir EXCEPT ![Manifest] = writer.manifest]
    /\ paired' = IF writer.alone THEN <<writer.a, writer.b>> ELSE Null
    /\ writer' = Idle
    /\ UNCHANGED <<edits, runs>>

\* The process is killed, a write fails (the unwrap() panics), or a file the
\* manifest needs is missing.
Stop ==
    /\ writer # Idle
    /\ writer' = Idle
    /\ UNCHANGED <<dir, edits, runs, paired>>

-----------------------------------------------------------------------------
(* Changes made by others, at any time.                                    *)

Others(d) ==
    /\ edits < MaxEdits
    /\ edits' = edits + 1
    /\ d # dir
    /\ dir' = d
    /\ writer' = [writer EXCEPT !.alone = (writer = Idle)]
    /\ paired' = Null
    /\ UNCHANGED runs

\* What a file may be replaced by: an endpoint, or what a pairing writes
\* into a file of its kind.
PossibleContents(f) ==
    IF KindOf(f) = "endpoint" THEN Endpoints
    ELSE {PairArtifacts(p[1], p[2])[f] :
             p \in {q \in Endpoints \X Endpoints : Pairable(q[1], q[2])}}

EditFile ==
    \E f \in Artifacts : \E c \in PossibleContents(f) \cup {Missing} :
        Others([dir EXCEPT ![f] = c])

\* The summarize command writes its report.md beside its input.
SummarizeRun == Others([dir EXCEPT !["report.md"] = [kind |-> "run report"]])

\* The checksums in the manifest are brought up to date with the files.
Rehash ==
    /\ Present(dir, Manifest)
    /\ Others([dir EXCEPT ![Manifest] =
                  build_manifest_entries(dir, @.session, @.commit)])

Next ==
    \/ StartPairing \/ CreateFile \/ WriteFile \/ CreateManifest
    \/ WriteManifest \/ Stop
    \/ EditFile \/ SummarizeRun \/ Rehash

Spec == Init /\ [][Next]_vars

-----------------------------------------------------------------------------
(* Properties.  They say what a verified directory is worth without using  *)
(* the functions that verified it.                                         *)

\* The instants at which both endpoints were observing.
Common(a, b) == (a.start..(a.end - 1)) \cap (b.start..(b.end - 1))

\* Audio packets were counted later that had not been counted earlier.
Flowed(e, d) ==
    \E i, j \in DOMAIN e.stats :
        /\ i < j
        /\ e.stats[i][d].source = "rtp_audio" /\ e.stats[j][d].source = "rtp_audio"
        /\ e.stats[i][d].packets \in Nat /\ e.stats[j][d].packets \in Nat
        /\ e.stats[i][d].packets < e.stats[j][d].packets

\* A probe of the endpoint that reports what its four times say.
Truthful(p) ==
    /\ p.t[1] <= p.t[4] /\ p.t[2] <= p.t[3]
    /\ p.rtt + (p.t[3] - p.t[2]) \in
          (p.t[4] - p.t[1] - ClockEpsilon)..(p.t[4] - p.t[1] + ClockEpsilon)

\* An observation that ended in time, with samples in the order they were
\* taken, audio both ways, and clocks that were really compared.
Sound(e) ==
    /\ e.flaws = {}
    /\ e.end \in (e.start + 1)..(e.start + MaxDuration)
    /\ \A i, j \in DOMAIN e.stats : i < j => e.stats[i].at < e.stats[j].at
    /\ \A i \in DOMAIN e.stats : e.start + e.stats[i].at \in e.start..e.end
    /\ \A d \in Directions : Flowed(e, d)
    /\ Cardinality({i \in DOMAIN e.probes : e.probes[i].from = e.role
                        /\ e.probes[i].to # e.role
                        /\ e.probes[i].answered /\ Truthful(e.probes[i])}) >= MinProbes

\* A directory that verifies holds two sound observations of the two ends of
\* one session, made with the same software at overlapping times, and its
\* summary and report are about them: they name that session, and the summary
\* has the length of the overlap; whatever runs were cut short and whatever
\* files were exchanged.  (The endpoint files,
\* report.md and the checks of live_pair.rs:284 and live_validate.rs:583.)
ValidMeansPaired ==
    validate_live_directory(dir) =>
        LET a == dir["peer-a.validated.json"]
            b == dir["peer-b.validated.json"]
            pair == dir["pair-summary.json"]
        IN  /\ Sound(a) /\ Sound(b)
            /\ a.role # b.role
            /\ a.session = b.session /\ a.commit = b.commit
            /\ pair.session = a.session /\ dir["report.md"].session = a.session
            /\ pair.runs = <<a.run, b.run>> /\ a.run # b.run
            /\ Common(a, b) # {}
            /\ pair.overlap = Cardinality(Common(a, b))

\* The statistics of a number do not survive being written to a file.
Drifts(e) == ReadBack[Derive[e.numbers]] # Derive[ReadBack[e.numbers]]

\* What pairing wrote, left alone, verifies, unless a number was changed by
\* printing and parsing it: live_pair.rs:281 compares exactly.
PairedVerifies ==
    paired # Null =>
        (validate_live_directory(dir) <=> ~ Drifts(paired[1]) /\ ~ Drifts(paired[2]))

\* Under one manifest only one set of files verifies: no step leads from a
\* verified directory to another one without replacing the manifest.
ManifestFixesFiles ==
    [][validate_live_directory(dir) /\ validate_live_directory(dir)'
         /\ dir'[Manifest] = dir[Manifest] => dir' = dir]_vars
=============================================================================
