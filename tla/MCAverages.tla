----------------------------- MODULE MCAverages -----------------------------
(* Two students of one name in two classes, two closes at a time and two   *)
(* directors, who may look at one average together.                        *)
EXTENDS Averages
MCStudents == {"s1", "s2"}
MCRank == [s \in MCStudents |-> 1]
=============================================================================
