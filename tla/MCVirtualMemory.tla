-------------------------- MODULE MCVirtualMemory ---------------------------
(* Ten frames instead of a hundred, and pages of 32 instead of 256 bytes.  *)
EXTENDS VirtualMemory

\* None, one, some, as many as there may and may not be room for, narrowed.
SomePages == {0, 1, 4, 6, 9, 34, -29}

\* Five of ten frames, for the default of 49 of 100.
DefaultPages == {5}

\* Offsets at both ends of the pages 0, 1, 3, 4, 5, 9 and 31, and two numbers
\* that are narrowed.
SomeAddresses == {0, 31, 32, 63, 100, 128, 159, 160, 300, 1023, 1024 + 37, -7}

\* 31 is read as -1, the sign of a refusal.
SomeJunk == {0, 7, 20, 31}
=============================================================================
