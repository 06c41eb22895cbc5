----------------------------- MODULE MCBootAlloc -----------------------------
(***************************************************************************)
(* Small instances of BootAlloc for TLC.                                   *)
(***************************************************************************)
EXTENDS BootAlloc

Entry(physical_address, size, type) == MR(physical_address, size, type)

\* One free region between the kernel and reserved memory; two adjacent free
\* regions; adjacent allocated regions; a hole between two free regions;
\* enough entries for the buffer to grow while boot_alloc_init still runs.
SmallMaps ==
    { << Entry(1, 1, "KERNEL_BINARY"), Entry(2, 5, "FREE"), Entry(7, 1, "RESERVED") >>,
      << Entry(1, 2, "FREE"), Entry(3, 3, "FREE"), Entry(6, 1, "LOADER_RECLAIMABLE") >>,
      << Entry(1, 1, "KERNEL_BINARY"), Entry(2, 1, "RECLAIMABLE"), Entry(3, 4, "FREE") >>,
      << Entry(1, 2, "FREE"), Entry(4, 3, "FREE") >>,
      << Entry(1, 2, "FREE"), Entry(3, 1, "KERNEL_BINARY"), Entry(4, 1, "FREE"),
         Entry(5, 1, "RECLAIMABLE"), Entry(6, 2, "FREE") >> }

\* Page 0 is free memory, as any other page.
PageZeroMaps == { << Entry(0, 6, "FREE"), Entry(6, 1, "KERNEL_BINARY") >> }
=============================================================================
