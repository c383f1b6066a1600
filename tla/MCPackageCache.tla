--------------------------- MODULE MCPackageCache ---------------------------
(* Instances of PackageCache.                                              *)
EXTENDS PackageCache
=============================================================================
