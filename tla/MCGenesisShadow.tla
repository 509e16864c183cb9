--------------------------- MODULE MCGenesisShadow ---------------------------
(***************************************************************************)
(* A small instance: two spaces, three candidates of space 0.  Candidates  *)
(* 1 (a cluster) and 2 (a wikilink) are concepts whose scopes share root   *)
(* 2; candidate 3 is a witness-only overview.  Edges 1 and 2 are of space  *)
(* 0 and have the root of that number; edge 3 is of space 1 and has root   *)
(* 1, a byte-identical document that comes later.  The wikilink looks at   *)
(* roots, so it sees edge 3 too; so does the overview, whose community in  *)
(* space 0 has the edge's other entity (such an edge is legacy lineage and *)
(* moves no generation).                                                   *)
(***************************************************************************)
EXTENDS GenesisShadow

MCSpaceOf   == [c \in Candidates |-> 0]
MCEdgeSpace == [e \in Edges |-> IF e = 3 THEN 1 ELSE 0]
MCEdgeRoot  == [e \in Edges |-> IF e = 3 THEN 1 ELSE e]
MCGroup     == [r \in Roots |-> r]
MCScope     == [c \in Candidates |->
                  CASE c = 1 -> {2} [] c = 2 -> {1, 2, 3} [] OTHER -> {3}]
==============================================================================
