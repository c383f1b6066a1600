------------------------- MODULE MCPackageInfoCache -------------------------
(* Instances of PackageInfoCache: more versions than the cache can hold.   *)
EXTENDS PackageInfoCache
=============================================================================
