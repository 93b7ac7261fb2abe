------------------------------- MODULE Images -------------------------------
(***************************************************************************)
(* pull_image, the image-metadata cache, and how create_container, a clone *)
(* and image_healthcheck come by the image they work with, called by       *)
(* several callers of one Client beside other users of containerd, who     *)
(* tag, untag and fetch images, and its garbage collector.                 *)
(*                                                                         *)
(* containerd's image store maps names to digests; its content store holds *)
(* blobs; its snapshotter has the unpacked layers, by chain id.  The rest  *)
(* of create_container is in ContainerCreate and is one step here.         *)
(***************************************************************************)
EXTENDS ImageConfig

CONSTANTS
    Callers,     \* concurrent users of the Client
    Names,       \* image names
    Options,     \* the opts of create_container
    Settings,    \* what may happen, see Setting
    MaxCalls,    \* bound: calls made in all
    MaxChanges   \* bound: what other users do

Setting ==
    [published : SUBSET Digests,  \* the images there are
     fails : BOOLEAN,             \* may an RPC fail?
     foreign : BOOLEAN]           \* do others tag and untag, and is there a collector?

ASSUME ImagesBounds ==
    /\ Settings \subseteq Setting
    /\ MaxCalls \in Nat /\ MaxChanges \in Nat
    /\ None \notin Names
    /\ Options # {}
    /\ \A d \in Digests : Is(d, "config") => Metadata(d) # None

VARIABLES
    setting,   \* one of Settings, throughout
    registry,  \* the registry: the digest of each name
    store,     \* images service: the digest of each name, or None
    blobs,     \* content service: the blobs it has
    unpacked,  \* snapshots service: the chain ids it has
    cache,     \* image_metadata_cache
    calls,     \* calls begun so far
    changes,   \* what others did so far
    pc,        \* where each caller is
    op,        \* the operation it is in, or was last in
    name,      \* the image name it was given
    opts,      \* the options it was given
    digest,    \* manifest_digest
    reading,   \* the digest it reads next
    meta,      \* image_metadata
    tags,      \* history: the digests the name had during the call
    ret,       \* the result of its last call
    made       \* the container that call made, and what it was asked for

containerd == <<store, blobs, unpacked>>
world == <<setting, registry, containerd, cache, calls, changes>>
locals == <<name, opts, digest, reading, meta, tags>>
results == <<ret, made>>
imagesVars == <<world, pc, op, locals, results>>

Label == {"idle", "exists", "transfer", "get_image", "read_manifest", "read_sub",
          "read_config", "prepare", "commit"}

DigestOrNone == Digests \cup {None}
MetaOrNone == {Metadata(d) : d \in {d \in Digests : Is(d, "config")}} \cup {None}

WorldTypes ==
    /\ setting \in Settings
    /\ registry \in [Names -> Digests]
    /\ store \in [Names -> DigestOrNone]
    /\ blobs \subseteq Digests
    /\ cache \in [Digests -> MetaOrNone]
    /\ calls \in 0..MaxCalls /\ changes \in 0..MaxChanges

CallTypes ==
    /\ pc \in [Callers -> Label]
    /\ op \in [Callers -> {"none", "pull", "create", "clone", "healthcheck"}]
    /\ name \in [Callers -> Names \cup {None}]
    /\ opts \in [Callers -> Options \cup {None}]
    /\ digest \in [Callers -> DigestOrNone]
    /\ reading \in [Callers -> DigestOrNone]
    /\ meta \in [Callers -> MetaOrNone]
    /\ tags \in [Callers -> SUBSET Digests]
    /\ ret \in [Callers -> {"none", "ok", "not_found", "err"}]
    /\ DOMAIN made = Callers
    /\ \A c \in Callers :
        /\ made[c] # None => made[c].tags \subseteq Digests
        /\ pc[c] # "idle" => name[c] \in Names /\ opts[c] \in Options
        /\ pc[c] \in {"read_manifest", "read_sub", "read_config"} =>
              digest[c] \in Digests /\ reading[c] \in Digests
        /\ pc[c] \in {"prepare", "commit"} => digest[c] \in Digests /\ meta[c] # None

ImagesTypeOK == WorldTypes /\ CallTypes

------------------------------------------------------------------------------
(* containerd: what a pull brings for this architecture *)

Reach(d) ==
    {d} \cup (IF ConfigOf(d) = None THEN {} ELSE {ManifestOf(d), ConfigOf(d)})

ChainOf(d) == Metadata(ConfigOf(d)).chain_id

ImagesInit ==
    /\ setting \in Settings
    /\ registry \in [Names -> setting.published]
    /\ store = [n \in Names |-> None]
    /\ blobs = {} /\ unpacked = {}
    /\ cache = [d \in Digests |-> None]
    /\ calls = 0 /\ changes = 0
    /\ pc = [c \in Callers |-> "idle"]
    /\ op = [c \in Callers |-> "none"]
    /\ name = [c \in Callers |-> None]
    /\ opts = [c \in Callers |-> None]
    /\ digest = [c \in Callers |-> None]
    /\ reading = [c \in Callers |-> None]
    /\ meta = [c \in Callers |-> None]
    /\ tags = [c \in Callers |-> {}]
    /\ ret = [c \in Callers |-> "none"]
    /\ made = [c \in Callers |-> None]

------------------------------------------------------------------------------
(* Helpers *)

At(c, l) == pc[c] = l

Goto(c, to) ==
    /\ pc' = [pc EXCEPT ![c] = to]
    /\ UNCHANGED <<op, results>>

(* The name n has the digest d from now on: a call that names it may see     *)
(* either.                                                                   *)
Seen(n, d) ==
    [c \in Callers |-> IF pc[c] # "idle" /\ name[c] = n /\ d # None
                       THEN tags[c] \cup {d} ELSE tags[c]]

ReturnWith(c, result, container) ==
    /\ pc' = [pc EXCEPT ![c] = "idle"]
    /\ ret' = [ret EXCEPT ![c] = result]
    /\ made' = [made EXCEPT ![c] = container]
    /\ name' = [name EXCEPT ![c] = None]
    /\ opts' = [opts EXCEPT ![c] = None]
    /\ digest' = [digest EXCEPT ![c] = None]
    /\ reading' = [reading EXCEPT ![c] = None]
    /\ meta' = [meta EXCEPT ![c] = None]
    /\ UNCHANGED op

Return(c, result) ==
    /\ ReturnWith(c, result, None)
    /\ tags' = [tags EXCEPT ![c] = {}]

Begin(c, o) ==
    /\ At(c, "idle")
    /\ calls < MaxCalls
    /\ calls' = calls + 1
    /\ pc' = [pc EXCEPT ![c] = IF o = "pull" THEN "exists" ELSE "get_image"]
    /\ op' = [op EXCEPT ![c] = o]
    /\ \E n \in Names, p \in IF o \in {"create", "clone"} THEN Options
                             ELSE {CHOOSE p \in Options : TRUE} :
          /\ name' = [name EXCEPT ![c] = n]
          /\ opts' = [opts EXCEPT ![c] = p]
          /\ tags' = [tags EXCEPT ![c] = {store[n]} \ {None}]
    /\ ret' = [ret EXCEPT ![c] = "none"]
    /\ made' = [made EXCEPT ![c] = None]
    /\ UNCHANGED <<setting, registry, containerd, cache, changes, digest, reading, meta>>

(* An RPC fails. *)
Fails(c) ==
    /\ setting.fails
    /\ pc[c] # "idle"
    /\ Return(c, "err")
    /\ UNCHANGED world

------------------------------------------------------------------------------
(* pull_image *)

ImageExists(c) ==
    /\ At(c, "exists")
    /\ \/ store[name[c]] # None /\ Return(c, "ok")
       \/ store[name[c]] = None /\ Goto(c, "transfer") /\ UNCHANGED locals
    /\ UNCHANGED world

(* Mutant: the destination asks for no unpacking. *)
TransferWithoutUnpack(c) ==
    LET d == registry[name[c]] IN
    /\ At(c, "transfer")
    /\ blobs' = blobs \cup Reach(d)
    /\ store' = [store EXCEPT ![name[c]] = d]
    /\ tags' = [Seen(name[c], d) EXCEPT ![c] = {}]
    /\ ReturnWith(c, "ok", None)
    /\ UNCHANGED <<setting, registry, unpacked, cache, calls, changes>>

(* transfer: fetches and unpacks for this architecture, then names it. *)
Transfer(c) ==
    LET d == registry[name[c]] IN
    /\ At(c, "transfer")
    /\ \/ /\ ConfigOf(d) # None
          /\ blobs' = blobs \cup Reach(d)
          /\ unpacked' = unpacked \cup {ChainOf(d)}
          /\ store' = [store EXCEPT ![name[c]] = d]
          /\ tags' = [Seen(name[c], d) EXCEPT ![c] = {}]
          /\ ReturnWith(c, "ok", None)
       \/ ConfigOf(d) = None /\ Return(c, "err") /\ UNCHANGED containerd
    /\ UNCHANGED <<setting, registry, cache, calls, changes>>

------------------------------------------------------------------------------
(* get_image_metadata *)

(* create_container goes on with the metadata, on layers of its own or those *)
(* a clone has prepared; image_healthcheck reads the raw config.             *)
WithMetadata(c, d, m) ==
    \/ /\ op[c] \in {"create", "clone"}
       /\ Goto(c, IF op[c] = "create" THEN "prepare" ELSE "commit")
       /\ digest' = [digest EXCEPT ![c] = d]
       /\ meta' = [meta EXCEPT ![c] = m]
       /\ reading' = [reading EXCEPT ![c] = None]
       /\ UNCHANGED <<name, opts, tags>>
    \/ op[c] = "healthcheck" /\ Return(c, "ok")

Reads(c, l, d) ==
    /\ Goto(c, l)
    /\ reading' = [reading EXCEPT ![c] = d]
    /\ UNCHANGED <<name, opts, meta, tags>>

(* Mutant: the cache is asked by name: any entry made for it does. *)
GetImageCachedByName(c) ==
    LET d == store[name[c]]
        known == {e \in Digests : cache[e] # None}
    IN  /\ At(c, "get_image")
        /\ d # None
        /\ \/ \E e \in known : WithMetadata(c, d, cache[e])
           \/ known = {} /\ digest' = [digest EXCEPT ![c] = d] /\ Reads(c, "read_manifest", d)
        /\ UNCHANGED world

(* images.get, and lookup_image_metadata by the digest it gave. *)
GetImage(c) ==
    LET d == store[name[c]] IN
    /\ At(c, "get_image")
    /\ \/ d = None /\ Return(c, "not_found")
       \/ d # None /\ cache[d] # None /\ WithMetadata(c, d, cache[d])
       \/ /\ d # None /\ cache[d] = None
          /\ digest' = [digest EXCEPT ![c] = d]
          /\ Reads(c, "read_manifest", d)
    /\ UNCHANGED world

(* fetch_image_metadata: each read_content wants the blob to be there. *)
HasBlob(d, kind) == d \in blobs /\ Is(d, kind)

ReadManifest(c) ==
    LET d == reading[c] IN
    /\ At(c, "read_manifest")
    /\ \/ /\ HasBlob(d, "manifest")
          /\ Reads(c, "read_config", Content[d].config)
          /\ UNCHANGED digest
       \/ /\ HasBlob(d, "index") /\ SubManifest(d) # None
          /\ Reads(c, "read_sub", SubManifest(d))
          /\ UNCHANGED digest
       \/ /\ ~HasBlob(d, "manifest")
          /\ ~(HasBlob(d, "index") /\ SubManifest(d) # None)
          /\ Return(c, "err")
    /\ UNCHANGED world

ReadSub(c) ==
    LET d == reading[c] IN
    /\ At(c, "read_sub")
    /\ \/ /\ HasBlob(d, "manifest")
          /\ Reads(c, "read_config", Content[d].config)
          /\ UNCHANGED digest
       \/ ~HasBlob(d, "manifest") /\ Return(c, "err")
    /\ UNCHANGED world

(* The config, and store_image_metadata under the image's digest. *)
ReadConfig(c) ==
    LET d == reading[c]
        good == HasBlob(d, "config") /\ Content[d].diff_ids # <<>>
    IN  /\ At(c, "read_config")
        /\ \/ /\ good
              /\ cache' = [cache EXCEPT ![digest[c]] = Metadata(d)]
              /\ WithMetadata(c, digest[c], Metadata(d))
           \/ ~good /\ Return(c, "err") /\ UNCHANGED cache
        /\ UNCHANGED <<setting, registry, containerd, calls, changes>>

------------------------------------------------------------------------------
(* create_container_with_id, from the metadata on *)

(* snapshots.prepare on the image's layers. *)
Prepare(c) ==
    /\ At(c, "prepare")
    /\ \/ meta[c].chain_id \in unpacked /\ Goto(c, "commit") /\ UNCHANGED locals
       \/ meta[c].chain_id \notin unpacked /\ Return(c, "err")
    /\ UNCHANGED world

(* The OCI spec is built and containers.create writes the record. *)
Commit(c) ==
    /\ At(c, "commit")
    /\ ReturnWith(c, "ok",
           [own |-> op[c] = "create",
            parent |-> meta[c].chain_id,
            spec |-> BuildOciSpec(Content[meta[c].config], opts[c]),
            opts |-> opts[c],
            tags |-> tags[c]])
    /\ tags' = [tags EXCEPT ![c] = {}]
    /\ UNCHANGED world

calling == <<pc, op, locals, results>>

(* clear_image_cache *)
ClearCache ==
    /\ changes < MaxChanges
    /\ changes' = changes + 1
    /\ cache' = [d \in Digests |-> None]
    /\ UNCHANGED <<setting, registry, containerd, calls, calling>>

------------------------------------------------------------------------------
(* The others *)

(* A new image is pushed under a name. *)
Push(n) ==
    /\ changes < MaxChanges
    /\ changes' = changes + 1
    /\ \E d \in setting.published : registry' = [registry EXCEPT ![n] = d]
    /\ UNCHANGED <<setting, containerd, cache, calls, calling>>

(* Another tool fetches an image and names it, without unpacking it, or      *)
(* removes a name.                                                           *)
ForeignTag(n) ==
    /\ setting.foreign
    /\ changes < MaxChanges
    /\ changes' = changes + 1
    /\ \E d \in setting.published \cup {None} :
          /\ store' = [store EXCEPT ![n] = d]
          /\ tags' = Seen(n, d)
          /\ blobs' = blobs \cup (IF d = None THEN {} ELSE Reach(d))
    /\ UNCHANGED <<setting, registry, unpacked, cache, calls, pc, op, name, opts, digest,
                   reading, meta, results>>

(* containerd's garbage collector: what no name reaches goes. *)
Collect ==
    LET kept == {store[n] : n \in Names} \ {None} IN
    /\ setting.foreign
    /\ blobs' = blobs \cap UNION {Reach(d) : d \in kept}
    /\ unpacked' = unpacked \cap {ChainOf(d) : d \in {d \in kept : ConfigOf(d) # None}}
    /\ UNCHANGED <<setting, registry, store, cache, calls, changes, calling>>

------------------------------------------------------------------------------
Step(c) ==
    \/ ImageExists(c) \/ Transfer(c) \/ GetImage(c) \/ ReadManifest(c) \/ ReadSub(c)
    \/ ReadConfig(c) \/ Prepare(c) \/ Commit(c)

ImagesNext ==
    \/ \E c \in Callers : \/ \E o \in {"pull", "create", "clone", "healthcheck"} : Begin(c, o)
                          \/ Step(c)
                          \/ Fails(c)
    \/ \E n \in Names : Push(n) \/ ForeignTag(n)
    \/ ClearCache
    \/ Collect

ImagesSpec == ImagesInit /\ [][ImagesNext]_imagesVars

------------------------------------------------------------------------------
(* Properties *)

(* OneImage: a container is made of one image, one its name stood for        *)
(* during the call: what create_container builds its process from is that    *)
(* image's config, and the layers it prepares on are that image's layers,    *)
(* whatever the metadata cache holds by then and however often the name      *)
(* moves.  (A clone brings layers of its own.)                               *)
OneImage ==
    \A c \in Callers : made[c] # None =>
        \E d \in made[c].tags :
            /\ ConfigOf(d) # None
            /\ made[c].spec = BuildOciSpec(Content[ConfigOf(d)], made[c].opts)
            /\ made[c].own => made[c].parent = ChainOf(d)

(* SpecAsAsked: the process of a container gets every variable of the        *)
(* caller, and every other one of an image its name stood for, with the      *)
(* value of its last entry there; its labels alike; and it has something to  *)
(* run unless the caller asked for an empty command.                         *)
SpecAsAsked ==
    \A c \in Callers : made[c] # None =>
        \E d \in made[c].tags :
            ConfigOf(d) # None /\ AsAsked(made[c].spec, Content[ConfigOf(d)], made[c].opts)

(* PullMakesCreatable: where images come from pull_image alone and every RPC *)
(* is answered, a create_container fails only if its name had no image: what *)
(* pull_image makes known has its content and its layers, while other pulls  *)
(* move the name too.                                                        *)
PullMakesCreatable ==
    ~setting.fails /\ ~setting.foreign => \A c \in Callers :
        op[c] = "create" => ret[c] # "err"

------------------------------------------------------------------------------
(* Inductive invariant *)

(* An entry of the cache is what its digest stands for. *)
CacheInv ==
    \A d \in Digests : cache[d] # None =>
        ConfigOf(d) # None /\ cache[d] = Metadata(ConfigOf(d))

(* A call that is on its way from a digest its name has had is on the way to *)
(* that digest's config.                                                     *)
CallInv(c) ==
    LET d == digest[c] IN
    /\ pc[c] \in {"read_manifest", "read_sub", "read_config", "prepare", "commit"} =>
          d \in tags[c]
    /\ pc[c] = "read_manifest" => reading[c] = d
    /\ pc[c] = "read_sub" => Is(d, "index") /\ SubManifest(d) # None /\ reading[c] = SubManifest(d)
    /\ pc[c] = "read_config" =>
          Is(ManifestOf(d), "manifest") /\ reading[c] = Content[ManifestOf(d)].config
    /\ pc[c] \in {"prepare", "commit"} =>
          ConfigOf(d) # None /\ meta[c] = Metadata(ConfigOf(d))

(* The tag the store has for the name of a call that has yet to read it is   *)
(* one of the call's tags.                                                   *)
TagInv(c) ==
    pc[c] # "idle" /\ store[name[c]] # None => store[name[c]] \in tags[c]

MadeInv(c) ==
    made[c] # None =>
        \E d \in made[c].tags :
            /\ ConfigOf(d) # None
            /\ made[c].spec = BuildOciSpec(Content[ConfigOf(d)], made[c].opts)
            /\ made[c].own => made[c].parent = ChainOf(d)

(* ImageInv: what makes OneImage inductive. *)
ImageInv == CacheInv /\ \A c \in Callers : CallInv(c) /\ TagInv(c) /\ MadeInv(c)

(* A container can be made of the image d: its content and layers are here. *)
Ready(d) == ConfigOf(d) # None /\ Reach(d) \subseteq blobs /\ ChainOf(d) \in unpacked

(* A call that may still fail is a pull, or works with an image that is      *)
(* ready.                                                                    *)
ReadyInv(c) ==
    /\ pc[c] \in {"exists", "transfer"} => op[c] = "pull"
    /\ pc[c] \in {"read_manifest", "read_sub", "read_config", "prepare", "commit"} =>
          Ready(digest[c])
    /\ op[c] = "create" => ret[c] # "err"

(* PullInv: what makes PullMakesCreatable inductive, beside ImageInv. *)
PullInv ==
    ~setting.fails /\ ~setting.foreign =>
        /\ \A n \in Names : store[n] # None => Ready(store[n])
        /\ \A c \in Callers : ReadyInv(c)

=============================================================================
