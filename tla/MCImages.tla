------------------------------ MODULE MCImages ------------------------------
(* Instances of Images for TLC. *)
EXTENDS Images, TLC

CONSTANTS a1, a2

CallerSymmetry == Permutations(Callers)

Entry(k, v) == [eq |-> TRUE, key |-> k, value |-> v]

(* A plain image; one per architecture, of which the second is ours; one for *)
(* another architecture only; one whose config has no layers.                *)
Blobs ==
    [m1 |-> [kind |-> "manifest", config |-> "c1"],
     m2 |-> [kind |-> "manifest", config |-> "c2"],
     m3 |-> [kind |-> "manifest", config |-> "c3"],
     i2 |-> [kind |-> "index",
             manifests |-> <<[architecture |-> "s390x", digest |-> "m1"],
                             [architecture |-> "amd64", digest |-> "m2"]>>],
     i4 |-> [kind |-> "index",
             manifests |-> <<[architecture |-> "s390x", digest |-> "m1"]>>],
     c1 |-> [kind |-> "config", diff_ids |-> <<"l1">>, entrypoint |-> <<"e">>,
             cmd |-> <<"x">>,
             env |-> <<Entry("A", "1"), Entry("B", "1"), Entry("A", "2"),
                       [eq |-> FALSE, key |-> "C", value |-> ""]>>,
             labels |-> [L |-> "1"], working_dir |-> ""],
     c2 |-> [kind |-> "config", diff_ids |-> <<"l1", "l2">>, entrypoint |-> <<>>,
             cmd |-> <<>>, env |-> <<Entry("B", "2")>>, labels |-> [L |-> "2"],
             working_dir |-> "/w"],
     c3 |-> [kind |-> "config", diff_ids |-> <<>>, entrypoint |-> <<>>, cmd |-> <<>>,
             env |-> <<>>, labels |-> <<>>, working_dir |-> ""]]

SomeOptions ==
    {[cmd |-> None, env |-> [B |-> "u"], labels |-> [L |-> "u"], mode |-> "bridge"],
     [cmd |-> <<"y">>, env |-> <<>>, labels |-> <<>>, mode |-> "host"]}

AllSettings ==
    {[published |-> {"m1", "i2", "i4"}, fails |-> FALSE, foreign |-> FALSE],
     [published |-> {"m1", "i2", "m3"}, fails |-> TRUE, foreign |-> TRUE]}
=============================================================================
