-------------------------------- MODULE MCNfs --------------------------------
(* Model checking of Nfs: the mountpoints a, /mnt/data, and b, /srv/mnt/data, *)
(* whose export files have one name while both are mounted, and two while one *)
(* is not.  The first path is found in the second.                           *)
EXTENDS Nfs, TLC
CONSTANTS m1, m2, a, b, fs, host
MCBelow == a :> m1 @@ b :> m2
MCBase == a :> "data" @@ b :> "data"
MCInodeIn == fs :> (a :> 1 @@ b :> 1) @@ host :> (a :> 3 @@ b :> 4)
MCWithin == {<<a, b>>}
=============================================================================
