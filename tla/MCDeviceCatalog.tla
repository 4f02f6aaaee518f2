--------------------------- MODULE MCDeviceCatalog ---------------------------
(***************************************************************************)
(* DeviceCatalog for TLC.  boot_trailer_sz is C code outside the           *)
(* simulator: the bootloader's trailer is 128 status entries of 3 states,  *)
(* each one write of min_write_sz, then swap_size, copy_done and image_ok  *)
(* of boot_max_align() each and the 16-byte magic; the 16 + 24 that        *)
(* Images::status_sz subtracts are those last fields.                      *)
(***************************************************************************)
EXTENDS DeviceCatalog

MCBootTrailerSz(align) == 128 * 3 * align + 3 * MaxAlign + MagicSz
=============================================================================
