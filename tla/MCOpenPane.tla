------------------------------ MODULE MCOpenPane ------------------------------
(***************************************************************************)
(* The Project workspace with two projects, where nothing fails.           *)
(***************************************************************************)
EXTENDS ProjectWorkspace

\* Whose session each is.
MCOrigin == <<1, 1, 2>>
===============================================================================
