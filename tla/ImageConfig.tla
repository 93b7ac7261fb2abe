----------------------------- MODULE ImageConfig -----------------------------
(***************************************************************************)
(* What create_container makes of an image and of the caller's options:    *)
(* from the manifest to the config of this architecture, the chain id of   *)
(* its layers, and the process a container of it runs.                     *)
(*                                                                         *)
(* A blob of the content store is a manifest, which names a config, an     *)
(* index of manifests per architecture, a config, or something else.       *)
(***************************************************************************)
EXTENDS Naturals, Sequences

CONSTANTS
    Digests,  \* of the blobs
    Content,  \* the blob of each digest: content is named by its hash
    Arch,     \* oci_arch()
    None

ASSUME ContentAssumption ==
    /\ None \notin Digests
    /\ \A d \in Digests :
        /\ Content[d].kind \in {"manifest", "index", "config", "other"}
        /\ Content[d].kind = "manifest" => Content[d].config \in Digests
        /\ Content[d].kind = "index" =>
              Content[d].manifests \in Seq([architecture : STRING, digest : Digests])
        /\ Content[d].kind = "config" =>
              Content[d].env \in Seq([eq : BOOLEAN, key : STRING, value : STRING])

Is(d, kind) == Content[d].kind = kind

------------------------------------------------------------------------------
(* From the image's digest to its config *)

(* The sub-manifest of an index: the first for this architecture, or None. *)
SubManifest(d) ==
    LET ms == Content[d].manifests
        ours == {i \in DOMAIN ms : ms[i].architecture = Arch}
    IN  IF ours = {} THEN None
        ELSE ms[CHOOSE i \in ours : \A j \in ours : i <= j].digest

(* compute_chain_id; the hash of two ids is the pair of them. *)
ComputeChainId(diff) ==
    LET chain[i \in 1..Len(diff)] ==
            IF i = 1 THEN <<diff[1]>> ELSE <<chain[i - 1], diff[i]>>
    IN  IF diff = <<>> THEN <<>> ELSE chain[Len(diff)]

(* ImageMetadata; the config is named by its digest. *)
Metadata(d) == [config |-> d, chain_id |-> ComputeChainId(Content[d].diff_ids)]

------------------------------------------------------------------------------
(* The OCI spec: what opts says and what the image says *)

BuildArgs(cfg, opts) ==
    LET args == cfg.entrypoint \o cfg.cmd
    IN  IF opts.cmd # None THEN opts.cmd
        ELSE IF args = <<>> THEN <<"/bin/sh">> ELSE args

BuildCwd(cfg) == IF cfg.working_dir = "" THEN "/" ELSE cfg.working_dir

(* HashMap: insert, and extend by the entries of another. *)
Insert(map, k, v) == [j \in DOMAIN map \cup {k} |-> IF j = k THEN v ELSE map[j]]

Extend(map, other) ==
    [j \in DOMAIN map \cup DOMAIN other |-> IF j \in DOMAIN other THEN other[j] ELSE map[j]]

(* An entry of the image's env without "=" is dropped. *)
InsertEntry(map, entry) == IF entry.eq THEN Insert(map, entry.key, entry.value) ELSE map

ImageEnv(env) ==
    LET after[i \in 0..Len(env)] ==
            IF i = 0 THEN [k \in {} |-> ""] ELSE InsertEntry(after[i - 1], env[i])
    IN  after[Len(env)]

(* Mutant: the image's variables override the caller's. *)
ImageEnvWins(cfg, opts) == Extend(opts.env, ImageEnv(cfg.env))

BuildMergedEnv(cfg, opts) == Extend(ImageEnv(cfg.env), opts.env)

BuildLabels(cfg, opts) == Extend(cfg.labels, opts.labels)

(* Host mode has no network namespace of its own. *)
BuildNamespaces(mode) == [network |-> mode # "host"]

BuildOciSpec(cfg, opts) ==
    [args |-> BuildArgs(cfg, opts),
     cwd |-> BuildCwd(cfg),
     env |-> BuildMergedEnv(cfg, opts),
     labels |-> BuildLabels(cfg, opts),
     namespaces |-> BuildNamespaces(opts.mode)]

------------------------------------------------------------------------------
(* What they should be, said without the steps to get there *)

(* The config an image's digest stands for: by its manifest, or by that of   *)
(* the first entry for this architecture; None if there is none to run.      *)
ManifestOf(d) ==
    IF Is(d, "index") /\ SubManifest(d) # None THEN SubManifest(d) ELSE d

ConfigOf(d) ==
    LET m == ManifestOf(d) IN
    IF Is(m, "manifest") /\ Is(Content[m].config, "config")
          /\ Content[Content[m].config].diff_ids # <<>>
    THEN Content[m].config ELSE None

LastWith(env, k) ==
    CHOOSE i \in DOMAIN env : /\ env[i].eq /\ env[i].key = k
                              /\ \A j \in DOMAIN env : env[j].eq /\ env[j].key = k => j <= i

(* The last of several definitions of a variable counts, and the caller's    *)
(* before the image's.                                                       *)
AsAsked(spec, cfg, opts) ==
    LET imageKeys == {cfg.env[i].key : i \in {i \in DOMAIN cfg.env : cfg.env[i].eq}} IN
    /\ DOMAIN spec.env = DOMAIN opts.env \cup imageKeys
    /\ \A k \in DOMAIN spec.env :
          spec.env[k] = IF k \in DOMAIN opts.env THEN opts.env[k]
                        ELSE cfg.env[LastWith(cfg.env, k)].value
    /\ \A k \in DOMAIN opts.labels : spec.labels[k] = opts.labels[k]
    /\ \A k \in DOMAIN cfg.labels \ DOMAIN opts.labels : spec.labels[k] = cfg.labels[k]
    /\ spec.args # <<>> \/ opts.cmd = <<>>

=============================================================================
