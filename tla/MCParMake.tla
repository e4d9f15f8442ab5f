----------------------------- MODULE MCParMake -----------------------------
(* Makefiles for TLC. *)
EXTENDS ParMake, TLC

CONSTANTS a, b, c, d

(* a needs b and d, which both need c. *)
DiamondDeps == (a :> <<b, d>>) @@ (b :> <<c>>) @@ (c :> <<>>) @@ (d :> <<c>>)

(* There is no file, or only the source c, or b is newer than c and d older. *)
DiamondFiles == {(a :> 0) @@ (b :> 0) @@ (c :> 0) @@ (d :> 0),
                 (a :> 0) @@ (b :> 0) @@ (c :> 1) @@ (d :> 0),
                 (a :> 0) @@ (b :> 3) @@ (c :> 2) @@ (d :> 1)}

(* a needs b and d, and no file exists. *)
ForkDeps == (a :> <<b, d>>) @@ (b :> <<>>) @@ (d :> <<>>)
ForkFiles == {(a :> 0) @@ (b :> 0) @@ (d :> 0)}
=============================================================================
