--------------------------- MODULE MCHugepageAddr ---------------------------
(* A pool of four pages, and every call may fail.                            *)
EXTENDS HugepageAddr

Pages4 == 64 .. 67
AllFaults == {"sysfs", "mmap", "open", "pread"}
=============================================================================
