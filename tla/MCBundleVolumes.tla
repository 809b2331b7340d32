--------------------------- MODULE MCBundleVolumes ---------------------------
(* Three files of any sizes up to MaxSize, all of them new or two of them in the
   base already. *)
EXTENDS BundleVolumes

CONSTANTS a, b, c, old, new, MaxSize

MCOrder == <<a, b, c>>
MCSizes == [Paths -> 0..MaxSize]
MCBases == {Nothing, [Nothing EXCEPT ![b] = old, ![c] = old]}
=============================================================================
