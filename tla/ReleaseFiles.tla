---------------------------- MODULE ReleaseFiles ----------------------------
(***************************************************************************)
(* Files other programs act on: the release manifest, the bundle built     *)
(* from it and its materialisation on the host (infra/deploy/              *)
(* release_manifest.py), the runtime environment file of a consumer        *)
(* (runtime-secrets/load_runtime_secrets.py) and the instrument cache of   *)
(* the API (services/instrument_cache.py).                                 *)
(*                                                                         *)
(* Every system call that changes what another program can see is a step;  *)
(* a process may be killed between two of them and the host may lose       *)
(* power, which keeps only what was synchronised.  The source tree may be  *)
(* edited while it is read.                                                *)
(***************************************************************************)
EXTENDS Integers, Sequences, FiniteSets, SequencesExt

CONSTANTS Paths,         \* the allowlisted source files of a unit, in order
          MaxEdits,      \* bound: edits of the source tree
          MaxKills       \* bound: kills, power losses and failing calls

Files == ToSet(Paths)
Outputs == {"manifest", "bundle", "cache"}
NoSnapshot == [p \in {} |-> 0]
Nothing == [is |-> "nothing", manifest |-> NoSnapshot, files |-> NoSnapshot]
Torn == [Nothing EXCEPT !.is = "torn"]
Whole(manifest, files) == [is |-> "whole", manifest |-> manifest, files |-> files]
Quiet == [pc |-> "idle", data |-> Nothing, synced |-> FALSE]

VARIABLES scene,       \* which of the independent programs this behaviour is about
          tree,        \* tree[p]: the version of a source file
          shown,       \* shown[o]: what a reader of output o finds
          kept,        \* kept[o]: what would be left of it after a power loss
          tool,        \* the release tool: its command and the files it has read
          writer,      \* writer[o]: the atomic replacement under way
          host,        \* the materialised bundle: root, files written, verdict
          loaders,     \* loaders[l]: a runtime secret loader
          env,         \* the runtime environment file
          edits, kills, outage

releaseVars == <<scene, tree, shown, kept, tool, writer, host, loaders, env, edits, kills, outage>>

Host0 == [root |-> "none", bundle |-> Nothing, files |-> NoSnapshot, verdict |-> "none"]
ReleaseInit ==
    /\ scene \in {"release", "env", "cache"} /\ tree = [p \in Files |-> 0]
    /\ shown = [o \in Outputs |-> Nothing] /\ kept = [o \in Outputs |-> Nothing]
    /\ tool = [pc |-> "idle", snap |-> NoSnapshot] /\ writer = [o \in Outputs |-> Quiet] /\ host = Host0
    /\ loaders = [l \in 1 .. 2 |-> [pc |-> "idle", check |-> FALSE, made |-> FALSE]]
    /\ env = [state |-> "absent", by |-> 0]
    /\ edits = 0 /\ kills = 0 /\ outage = FALSE

Fault == kills < MaxKills /\ kills' = kills + 1

---------------------------------------------------------------------------
(* Replacing a file atomically. *)

BeginWrite(o, data) == writer' = [writer EXCEPT ![o] = [pc |-> "temporary", data |-> data, synced |-> FALSE]]

\* Faulty variant of Syncs: the rename is not preceded by a sync.
SyncsManifestsLate(o) == FALSE

\* The manifest tool synchronises the temporary file before it renames it; the cache does not.
Syncs(o) == o # "cache"

\* fsync(descriptor), or nothing.
WriteTemporary(o) ==
    /\ writer[o].pc = "temporary"
    /\ writer' = [writer EXCEPT ![o].pc = "written", ![o].synced = Syncs(o)]
    /\ UNCHANGED <<scene, tree, shown, kept, tool, host, loaders, env, edits, kills, outage>>

\* os.replace(): a reader sees the old file or the new one.
Replace(o) ==
    /\ writer[o].pc = "written"
    /\ shown' = [shown EXCEPT ![o] = writer[o].data] /\ writer' = [writer EXCEPT ![o].pc = "replaced"]
    /\ UNCHANGED <<scene, tree, kept, tool, host, loaders, env, edits, kills, outage>>

\* fsync of the directory, or the system's own write back.
Settle(o) ==
    /\ writer[o].pc = "replaced" /\ kept' = [kept EXCEPT ![o] = shown[o]] /\ writer' = [writer EXCEPT ![o] = Quiet]
    /\ UNCHANGED <<scene, tree, shown, tool, host, loaders, env, edits, kills, outage>>

\* A failing call or a killed process: the temporary name is removed or left unread.
AbandonWrite(o) ==
    /\ writer[o].pc \in {"temporary", "written"} /\ Fault /\ writer' = [writer EXCEPT ![o] = Quiet]
    /\ UNCHANGED <<scene, tree, shown, kept, tool, host, loaders, env, edits, outage>>

\* The rename may have reached the disk before the data of a file that was never synchronised.
PowerLoss ==
    /\ Fault /\ outage' = TRUE
    /\ \E after \in [Outputs -> BOOLEAN] :
          LET left(o) == IF writer[o].pc = "replaced" /\ after[o]
                         THEN IF writer[o].synced THEN shown[o] ELSE Torn ELSE kept[o]
          IN  shown' = [o \in Outputs |-> left(o)] /\ kept' = [o \in Outputs |-> left(o)]
    /\ writer' = [o \in Outputs |-> Quiet] /\ tool' = [pc |-> "idle", snap |-> NoSnapshot]
    /\ host' = IF host.root = "open" THEN [host EXCEPT !.root = "left"] ELSE host
    /\ loaders' = [l \in 1 .. 2 |-> [loaders[l] EXCEPT !.pc = "idle", !.made = FALSE]]
    /\ env' = [state |-> "absent", by |-> 0]                               \* the runtime root is a tmpfs
    /\ UNCHANGED <<scene, tree, edits>>

---------------------------------------------------------------------------
(* The manifest and the bundle. *)

EditSource(p) ==
    /\ scene = "release" /\ edits < MaxEdits /\ edits' = edits + 1 /\ tree' = [tree EXCEPT ![p] = @ + 1]
    /\ UNCHANGED <<scene, shown, kept, tool, writer, host, loaders, env, kills, outage>>

StartTool(command) ==
    /\ scene = "release" /\ tool.pc = "idle"
    /\ writer["manifest"].pc = "idle" /\ writer["bundle"].pc = "idle"
    /\ command = "bundle" => shown["manifest"].is = "whole"
    /\ tool' = [pc |-> command, snap |-> NoSnapshot]
    /\ UNCHANGED <<scene, tree, shown, kept, writer, host, loaders, env, edits, kills, outage>>

\* SourceBundleReader.read(): each file once; a file that changes while it is read is refused.
ReadSource ==
    /\ tool.pc \in {"manifest", "bundle"}
    /\ LET k == Cardinality(DOMAIN tool.snap) + 1
       IN  /\ k <= Len(Paths)
           /\ tool' = [tool EXCEPT !.snap = [p \in DOMAIN tool.snap \cup {Paths[k]} |->
                                               IF p = Paths[k] THEN tree[p] ELSE tool.snap[p]]]
    /\ UNCHANGED <<scene, tree, shown, kept, writer, host, loaders, env, edits, kills, outage>>
ReadAll == DOMAIN tool.snap = Files

\* generate(): the manifest names the digest of what was read.
Generate ==
    /\ tool.pc = "manifest" /\ ReadAll
    /\ BeginWrite("manifest", Whole(tool.snap, NoSnapshot)) /\ tool' = [pc |-> "idle", snap |-> NoSnapshot]
    /\ UNCHANGED <<scene, tree, shown, kept, host, loaders, env, edits, kills, outage>>

\* validate_manifest(): the digest of the manifest against the files of the archive.
ValidManifest(manifest, snap) == manifest = snap
BuildBundle ==
    /\ tool.pc = "bundle" /\ ReadAll
    /\ IF ValidManifest(shown["manifest"].manifest, tool.snap)
       THEN BeginWrite("bundle", Whole(shown["manifest"].manifest, tool.snap)) ELSE UNCHANGED writer
    /\ tool' = [pc |-> "idle", snap |-> NoSnapshot]
    /\ UNCHANGED <<scene, tree, shown, kept, host, loaders, env, edits, kills, outage>>

\* validate_bundle_bytes(): the externally expected checksum, the allowlist and the manifest again.
ValidBundle(b, whole) == whole /\ b.is = "whole" /\ DOMAIN b.files = Files /\ ValidManifest(b.manifest, b.files)

\* _create_materialization_root(): only a directory this call has made is written to.
FreshRoot == host.root = "none"
OpenRoot(whole) ==
    /\ scene = "release" /\ host.root # "open" /\ FreshRoot /\ ValidBundle(shown["bundle"], whole)
    /\ host' = [host EXCEPT !.root = "open", !.bundle = shown["bundle"], !.verdict = "none"]
    /\ UNCHANGED <<scene, tree, shown, kept, tool, writer, loaders, env, edits, kills, outage>>
MaterialiseFile ==
    /\ host.root = "open" /\ \E p \in Files \ DOMAIN host.files :
          host' = [host EXCEPT !.files = [q \in DOMAIN @ \cup {p} |-> IF q = p THEN host.bundle.files[p] ELSE @[q]]]
    /\ UNCHANGED <<scene, tree, shown, kept, tool, writer, loaders, env, edits, kills, outage>>
Materialised ==
    /\ host.root = "open" /\ DOMAIN host.files = Files /\ host' = [host EXCEPT !.root = "closed", !.verdict = "ok"]
    /\ UNCHANGED <<scene, tree, shown, kept, tool, writer, loaders, env, edits, kills, outage>>
MaterialisationDies ==
    /\ host.root = "open" /\ Fault /\ host' = [host EXCEPT !.root = "left"]
    /\ UNCHANGED <<scene, tree, shown, kept, tool, writer, loaders, env, edits, outage>>

---------------------------------------------------------------------------
(* The runtime environment file. *)

Loader(l, pc) == loaders' = [loaders EXCEPT ![l].pc = pc]

\* load_consumer(): every required key, no collision, distinct values; else nothing is written.
LoadSecrets(l, check) ==
    /\ scene = "env" /\ loaders[l].pc = "idle"
    /\ \E valid \in BOOLEAN :
          loaders' = [loaders EXCEPT ![l] = [pc |-> IF valid THEN "loaded" ELSE "failed", check |-> check, made |-> FALSE]]
    /\ UNCHANGED <<scene, tree, shown, kept, tool, writer, host, env, edits, kills, outage>>

\* O_CREAT | O_EXCL: an existing file is left alone.
CreateEnv(l) ==
    /\ loaders[l].pc = "loaded"
    /\ IF env.state = "absent"
       THEN env' = [state |-> "partial", by |-> l] /\ loaders' = [loaders EXCEPT ![l].pc = "writing", ![l].made = TRUE]
       ELSE UNCHANGED env /\ Loader(l, "cleanup")
    /\ UNCHANGED <<scene, tree, shown, kept, tool, writer, host, edits, kills, outage>>
WriteEnv(l) ==
    /\ loaders[l].pc = "writing" /\ env' = [env EXCEPT !.state = "whole"]
    /\ Loader(l, IF loaders[l].check THEN "checked" ELSE "ready")
    /\ UNCHANGED <<scene, tree, shown, kept, tool, writer, host, edits, kills, outage>>
RemoveChecked(l) ==
    /\ loaders[l].pc = "checked" /\ env' = [state |-> "absent", by |-> 0] /\ Loader(l, "failed")
    /\ UNCHANGED <<scene, tree, shown, kept, tool, writer, host, edits, kills, outage>>
WriteFails(l) ==
    /\ loaders[l].pc = "writing" /\ Fault /\ Loader(l, "cleanup")
    /\ UNCHANGED <<scene, tree, shown, kept, tool, writer, host, env, edits, outage>>

\* The failing call unlinks only what it has created itself.
Removes(l) == loaders[l].made
Cleanup(l) ==
    /\ loaders[l].pc = "cleanup" /\ Loader(l, "failed")
    /\ env' = IF Removes(l) THEN [state |-> "absent", by |-> 0] ELSE env
    /\ UNCHANGED <<scene, tree, shown, kept, tool, writer, host, edits, kills, outage>>
KillLoader(l) ==
    /\ loaders[l].pc \in {"writing", "checked"} /\ Fault /\ Loader(l, "killed")
    /\ UNCHANGED <<scene, tree, shown, kept, tool, writer, host, env, edits, outage>>

\* The deployment removes the file of a stopped consumer before the next start.
RemoveEnv ==
    /\ env.state # "absent" /\ \A l \in 1 .. 2 : loaders[l].pc \in {"ready", "killed", "failed", "idle"}
    /\ env' = [state |-> "absent", by |-> 0]
    /\ loaders' = [l \in 1 .. 2 |-> [loaders[l] EXCEPT !.pc = "idle"]]
    /\ UNCHANGED <<scene, tree, shown, kept, tool, writer, host, edits, kills, outage>>

---------------------------------------------------------------------------
(* The instrument cache. *)

\* Replace the whole cache, or read it, patch one item and write it back.
WriteCache ==
    /\ scene = "cache" /\ writer["cache"].pc = "idle" /\ edits < MaxEdits /\ edits' = edits + 1
    /\ BeginWrite("cache", Whole(NoSnapshot, NoSnapshot)) /\ UNCHANGED <<scene, tree, shown, kept, tool, host, loaders, env, kills, outage>>

LoaderStep(l) == CreateEnv(l) \/ WriteEnv(l) \/ RemoveChecked(l) \/ WriteFails(l) \/ Cleanup(l) \/ KillLoader(l)
ReleaseNext ==
    \/ \E o \in Outputs : WriteTemporary(o) \/ Replace(o) \/ Settle(o) \/ AbandonWrite(o)
    \/ PowerLoss \/ WriteCache \/ RemoveEnv
    \/ \E p \in Files : EditSource(p)
    \/ \E c \in {"manifest", "bundle"} : StartTool(c)
    \/ ReadSource \/ Generate \/ BuildBundle
    \/ \E whole \in BOOLEAN : OpenRoot(whole)
    \/ MaterialiseFile \/ Materialised \/ MaterialisationDies
    \/ \E l \in 1 .. 2 : LoaderStep(l) \/ \E check \in BOOLEAN : LoadSecrets(l, check)

ReleaseSpec == ReleaseInit /\ [][ReleaseNext]_releaseVars

---------------------------------------------------------------------------
(* Properties. *)

ReleaseTypeOK ==
    /\ DOMAIN host.files \subseteq Files /\ host.root \in {"none", "open", "closed", "left"}
    /\ \A l \in 1 .. 2 : loaders[l].pc \in {"idle", "loaded", "writing", "ready", "checked", "cleanup", "failed", "killed"}
    /\ env.state \in {"absent", "partial", "whole"}
    /\ \A o \in Outputs : writer[o].pc \in {"idle", "temporary", "written", "replaced"}

\* A materialisation that reports success holds every file of the bundle in
\* exactly the version the manifest was generated from, whatever was edited
\* or killed in between (generate, build_bundle, materialize_validated_bundle).
ReleaseCoherent ==
    host.verdict = "ok" => host.files = host.bundle.manifest /\ DOMAIN host.files = Files

\* A reader of the manifest or the bundle never finds a torn file, not even
\* after a power loss; the instrument cache can only be torn by one.  A
\* loader that reported ready keeps its whole file until it is removed.
OutputsWhole ==
    /\ \A o \in {"manifest", "bundle"} : shown[o] # Torn
    /\ shown["cache"] = Torn => outage
    /\ \A l \in 1 .. 2 : loaders[l].pc = "ready" => env = [state |-> "whole", by |-> l]
=============================================================================
