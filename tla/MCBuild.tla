-------------------------------- MODULE MCBuild --------------------------------
(* Edits of the configuration, the registry and a shared header.              *)
EXTENDS Build

\* A target with AVX2; WIDTH= is not given, or asks for a width it has or has not.
Avx2 == {"avx2"}
SmallEdited == {"config.py", "address_mapping.py", "hugepage_alloc.h"}
=============================================================================
