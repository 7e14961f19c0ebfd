-------------------------- MODULE MCCurriculumImport --------------------------
(***************************************************************************)
(* Instances of CurriculumImport for TLC.                                  *)
(***************************************************************************)
EXTENDS CurriculumImport

\* A curriculum matches one with the same content.
SameContent == {<<content, content>> : content \in Contents}
===============================================================================
