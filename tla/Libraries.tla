----------------------------- MODULE Libraries ------------------------------
(* The libraries that share no state, checked side by side: the ring of a    *)
(* workspace, the analyses of a series of frames, the object storage behind  *)
(* its cache, the context tree and the sketches.  A behaviour exercises one. *)
EXTENDS BoolRing, Sidecar, CacheStorage, ContextTree, Sketch

VARIABLE part

vars == <<part, ring_vars, sidecar_vars, storage_vars, tree_vars, sketch_vars>>

Init ==
    /\ part \in {"ring", "sidecar", "storage", "tree", "sketch"}
    /\ RingInit /\ (part = "ring" \/ ring.evict)
    /\ SidecarInit /\ (part = "sidecar" \/ freeze = {})
    /\ StorageInit /\ (part = "storage" \/ collects)
    /\ TreeInit
    /\ SketchInit

\* The others stay as they are.
Alone(p) ==
    /\ part = p
    /\ p # "ring" => UNCHANGED ring_vars
    /\ p # "sidecar" => UNCHANGED sidecar_vars
    /\ p # "storage" => UNCHANGED storage_vars
    /\ p # "tree" => UNCHANGED tree_vars
    /\ p # "sketch" => UNCHANGED sketch_vars

Next ==
    /\ UNCHANGED part
    /\ \/ Alone("ring") /\ RingNext
       \/ Alone("sidecar") /\ SidecarNext
       \/ Alone("storage") /\ StorageNext
       \/ Alone("tree") /\ TreeNext
       \/ Alone("sketch") /\ SketchNext

Spec == Init /\ [][Next]_vars
=============================================================================
