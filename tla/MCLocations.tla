---------------------------- MODULE MCLocations ----------------------------
(***************************************************************************)
(* Four locations of the dataset, in its order, and three queries: "ist"   *)
(* is the code of Istanbul and occurs in "Uzbekistan"; "is" starts that    *)
(* code; "mad" is the code of Madrid and occurs in "Hamad".                *)
(***************************************************************************)
EXTENDS Locations

CONSTANTS r1, r2, r3, TAS, DOH, IST, MAD

Dataset   == <<TAS, DOH, IST, MAD>>
Strings   == {"ist", "is", "mad"}
Code      == [w \in Strings |-> CASE w = "ist" -> IST [] w = "mad" -> MAD [] OTHER -> None]
StartsAs  == [w \in Strings |-> IF w = "mad" THEN {MAD} ELSE {IST}]
Contains  == [w \in Strings |-> IF w = "mad" THEN {DOH, MAD} ELSE {TAS, IST}]

\* Every query, in upper and in lower case.
AnyCase == Queries
=============================================================================
