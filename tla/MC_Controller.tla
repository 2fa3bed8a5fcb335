--------------------------- MODULE MC_Controller ---------------------------
(* Instantiates Controller for TLC: two volume names, a small index space. *)
EXTENDS Controller

MCNames == {"pvc1", "pvc2"}
MCIndices == 1..3
MCSmallIndices == 1..2
MCOneName == {"pvc1"}
MCFaults == {"reject", "lost"}
MCAllCalls == {"Login", "ListTargets", "CreateTarget", "CreateInitiator",
               "CreateLUN", "GetLUN", "AttachLUN", "DeleteTarget",
               "DeleteLUN"}
HandlerSymmetry == Permutations(Handlers)
=============================================================================
