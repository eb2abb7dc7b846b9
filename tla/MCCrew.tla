-------------------------------- MODULE MCCrew --------------------------------
(***************************************************************************)
(* Model-checking instance of Crew: a directory with a link, a special     *)
(* file and a directory with a file in it.  One caller searches it all,    *)
(* the others the inner directory; there are more callers than workers.    *)
(***************************************************************************)
EXTENDS Crew

CONSTANTS a  \* the caller that searches the whole tree

Tree == {"top", "inner", "file", "link", "fifo"}
TreeKind == [p \in Tree |-> CASE p \in {"top", "inner"} -> "dir" [] p = "fifo" -> "other"
                              [] OTHER -> p]
TreeEntries == [p \in Tree |-> CASE p = "top" -> {"inner", "link", "fifo"}
                                 [] p = "inner" -> {"file"}
                                 [] OTHER -> {}]
TreeRoot == [c \in Callers |-> IF c = a THEN "top" ELSE "inner"]
=============================================================================
