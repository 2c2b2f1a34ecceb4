--------------------------- MODULE MCVectorIndex ---------------------------
(* Instances of VectorIndex for TLC: vectors are points of the plane with  *)
(* their squared Euclidean distance, chosen so that no two are equal.      *)
EXTENDS VectorIndex

Coordinates == << <<0, 0>>, <<5, -6>>, <<4, 6>>, <<-5, -4>>, <<6, 3>>, <<-6, -2>> >>
Squared(x) == x * x
Plane == [p \in Vectors \X Vectors |->
             Squared(Coordinates[p[1]][1] - Coordinates[p[2]][1])
               + Squared(Coordinates[p[1]][2] - Coordinates[p[2]][2])]
KeySymmetry == Permutations(Keys)
=============================================================================
