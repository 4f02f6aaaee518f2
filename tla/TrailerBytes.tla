---------------------------- MODULE TrailerBytes ----------------------------
(***************************************************************************)
(* An image trailer byte by byte, on the SimFlash device: the sector that  *)
(* ends a slot, whose last boot_magic_sz() + 2 * boot_max_align() bytes    *)
(* form the trailer (SlotInfo.trailer_off, Run::new).  The harness writes  *)
(* it with mark_upgrade and mark_permanent_upgrade, the bootloader writes  *)
(* copy_done (and the same magic and image_ok bytes) and erases the        *)
(* sector, and verify_trailer reads the fields back.  Every write is a     *)
(* SimFlash write at the run's alignment, so misaligned or repeated writes *)
(* panic as they do in the simulator.                                      *)
(***************************************************************************)
EXTENDS Naturals, Sequences

CONSTANTS
    MagicSz,    \* c::boot_magic_sz()
    MaxAlign,   \* c::boot_max_align()
    Pad,        \* bytes of the sector before the trailer
    Aligns      \* the write alignments runall tries

VARIABLES data, write_safe, bad_region, verify_writes, ret, last, fault,
          align,    \* this run's alignment
          call      \* the trailer operation last called (a history variable)

flashVars == <<data, write_safe, bad_region, verify_writes, ret, last, fault>>
vars == <<flashVars, align, call>>

\* offset_from_end of Run::new: the trailer ends the slot.
TrailerSz == MagicSz + 2 * MaxAlign
SectorSize == Pad + TrailerSz
TrailerOff == SectorSize - TrailerSz

MagicValid == <<119, 194, 149, 243, 96, 210, 239, 127,
                53, 82, 80, 15, 44, 182, 121, 128>>
MagicUnset == [i \in 1 .. 16 |-> 255]

Flash(a) == INSTANCE SimFlash WITH
    Sectors <- <<SectorSize>>, Align <- a,
    PayloadBytes <- {1, 255} \cup {MagicValid[i] : i \in 1 .. 16},
    MaxWriteLen <- 16, RegionOffsets <- {}, RegionLens <- {}, Rates <- {},
    MaxBadRegions <- 0

\* The flag write of mark_permanent_upgrade: ok[..align] of [1, 0xff x 7].
Flag(a) == [i \in 1 .. a |-> IF i = 1 THEN 1 ELSE 255]

\* The run's alignment as a constant, for the instance of SimFlash.
AtAlign(Op(_), name) ==
    \E a \in Aligns : a = align /\ Op(a) /\ call' = name /\ UNCHANGED align

Init ==
    /\ align \in Aligns
    /\ call = "none"
    /\ \E a \in Aligns : a = align /\ Flash(a)!Init

\* mark_upgrade: MAGIC_VALID at trailer_off + 2 * max_align.
MarkUpgradeAt(a) == Flash(a)!Write(TrailerOff + 2 * MaxAlign, MagicValid)
MarkUpgrade == AtAlign(MarkUpgradeAt, "mark_upgrade")

\* mark_permanent_upgrade: the flag at trailer_off + max_align.
\* A plausible fault: the flag put at trailer_off, where copy_done lives.
MarkPermanentAtCopyDone(a) == Flash(a)!Write(TrailerOff, Flag(a))
MarkPermanentAt(a) == Flash(a)!Write(TrailerOff + MaxAlign, Flag(a))
MarkPermanent == AtAlign(MarkPermanentAt, "mark_permanent_upgrade")

\* The bootloader's copy_done write: the flag at trailer_off.
WriteCopyDoneAt(a) == Flash(a)!Write(TrailerOff, Flag(a))
WriteCopyDone == AtAlign(WriteCopyDoneAt, "copy_done")

\* The bootloader's erase of the trailer's sector.
EraseTrailerAt(a) == Flash(a)!Erase(0, SectorSize)
EraseTrailer == AtAlign(EraseTrailerAt, "erase")

Next == MarkUpgrade \/ MarkPermanent \/ WriteCopyDone \/ EraseTrailer

Spec == Init /\ [][Next]_vars

(***************************************************************************)
(* verify_trailer: read boot_magic_sz() + 2 * boot_max_align() bytes at    *)
(* trailer_off and compare copy[16..] with the magic, copy[8] with         *)
(* image_ok and copy[0] with copy_done.  A field reads as "Set" when it    *)
(* equals what mark_upgrade or the flag write leaves, "E" when it equals   *)
(* the unset value, and as neither otherwise.                              *)
(***************************************************************************)
Copy == [i \in 0 .. TrailerSz - 1 |-> data[TrailerOff + i]]
CopyFrom(k) == [i \in 1 .. TrailerSz - k |-> Copy[k + i - 1]]

FieldValue(bytes, valid, unset) ==
    CASE bytes = valid -> "Set" [] bytes = unset -> "E" [] OTHER -> "other"

VerifyFields ==
    [magic     |-> FieldValue(CopyFrom(16), MagicValid, MagicUnset),
     image_ok  |-> FieldValue(Copy[8], 1, 255),
     copy_done |-> FieldValue(Copy[0], 1, 255)]

\* The field each operation is meant to set.
Intent == [none |-> "none", mark_upgrade |-> "magic",
           mark_permanent_upgrade |-> "image_ok", copy_done |-> "copy_done",
           erase |-> "erase"]

Fields == INSTANCE TrailerFields
    WITH fields <- VerifyFields, fault <- fault, step <- Intent[call]

\* What verify_trailer reads back is always the field-level trailer that
\* mark_upgrade, mark_permanent_upgrade, the bootloader's copy_done write
\* and its erase produce, at every alignment runall uses: the byte offsets
\* the writers compute from boot_max_align() agree with the literal
\* offsets 16, 8 and 0 of verify_trailer, and no write panics except a
\* repeated one.
RefinesTrailerFields == Fields!Spec
=============================================================================
