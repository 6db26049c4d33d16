---------------------------- MODULE MCLifecycle -----------------------------
(***************************************************************************)
(* Instances of Lifecycle for TLC.                                         *)
(***************************************************************************)
EXTENDS LifecycleLedger, TLC

(* All definitions in one project, or k1 in p and k2 in q.                 *)
OneProject == [k \in Keys |-> CHOOSE p \in Projects : TRUE]
OwnProjects == CHOOSE f \in [Keys -> Projects] : \A p \in Projects : \E k \in Keys : f[k] = p

Plain == [child |-> "none", hearing |-> "hears"]
Shape(child, hearing) == [child |-> child, hearing |-> hearing]

DeafTrees == {Plain, Shape("none", "deaf")}
PipedTrees == {Shape("piped", h) : h \in Hearings}
DetachedTrees == {Plain, Shape("detached", "hears")}

EscapedTrees == {Plain, Shape("escaped", "hears")}

ClientSymmetry == Permutations(Clients)
=============================================================================
