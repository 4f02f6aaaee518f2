---------------------------- MODULE DeviceCatalog ----------------------------
(***************************************************************************)
(* The device catalogue and the runall loop: main (runall) and             *)
(* Run::each_device go through ALL_DEVICES times the alignments 1, 2, 4,   *)
(* 8; for each, Run::new calls make_device, which builds a SimFlash with   *)
(* the device's sector map and registers Image0, Image1 and ImageScratch   *)
(* in an AreaDesc, then checks that the three areas are consecutive and    *)
(* places each slot's trailer at the end of its slot.  run_single then     *)
(* runs the scenarios (Harness) on that geometry.                          *)
(*                                                                         *)
(* AreaDesc lives outside the simulator's sources; add_image and           *)
(* add_simple_image are modelled from the spec: add_image's area must      *)
(* coincide with whole sectors of the flash, add_simple_image makes the    *)
(* area one logical sector.                                                *)
(***************************************************************************)
EXTENDS Naturals, Sequences, FiniteSets, Bitwise

CONSTANTS
    MagicSz, MaxAlign,  \* c::boot_magic_sz(), c::boot_max_align()
    TlvSizes,           \* the sizes the build's TLV generator may append
    AlignFlags,         \* the u8 values --align may be given
    BootTrailerSz(_)    \* c::boot_trailer_sz(align), the C bootloader's

ASSUME \A a \in {1, 2, 4, 8} : BootTrailerSz(a) \in Nat

VARIABLES
    args,       \* the command line, as docopt deserializes it into Args
    parsed,     \* whether main has dispatched on it
    queue,      \* the (device, align) pairs runall has still to run
    run,        \* the Run being exercised by run_single, or NoRun
    fault,      \* "none", or the panic that stopped the process
    passes, failures,   \* RunStatus
    exit_code,  \* "running", or the code main exits with
    tlv_sz      \* the size of the TLV of this build (make_tlv)

vars == <<args, parsed, queue, run, fault, passes, failures, exit_code, tlv_sz>>

NoRun == [dev |-> "none"]

ALL_DEVICES == <<"stm32f4", "k64f", "k64fbig", "nrf52840">>
RunAligns == <<1, 2, 4, 8>>

\* The order of main's runall loop (and of each_device).
Runall == [i \in 1 .. 16 |-> <<ALL_DEVICES[(i - 1) \div 4 + 1],
                              RunAligns[((i - 1) % 4) + 1]>>]

\* The command lines of USAGE: sizes, runall, and run --device TYPE with an
\* optional --align SIZE (<<>> when absent, <<n>> when given).  A device name is one of
\* DeviceName's variants; any other is refused by docopt, as is a missing
\* --device, so main's "Missing mandatory device argument" is unreachable.
Args == {[cmd |-> "sizes"], [cmd |-> "runall"]}
        \cup {[cmd |-> "run", device |-> d, align |-> a] :
                d \in {ALL_DEVICES[i] : i \in 1 .. 4},
                a \in {<<>>} \cup {<<n>> : n \in AlignFlags}}

\* A plausible fault: visit_u8 taking any u8 as an alignment.
VisitU8AnyAlign(n) == <<n>>
\* AlignArgVisitor::visit_u8: 1, 2, 4 and 8 become Ok(AlignArg(n)), <<n>>;
\* any other value is an Err, <<>>, that makes main's unwrap_or_else call
\* e.exit().
VisitU8(n) == IF n \in {1, 2, 4, 8} THEN <<n>> ELSE <<>>

\* make_device: the sector map of each device, as runs of equal sectors
\* (vec![4096; 128] is one run), and its three areas.
K == 1024
SectorsOf(dev) ==
    IF dev = "stm32f4"
    THEN <<[count |-> 4, size |-> 16 * K], [count |-> 1, size |-> 64 * K],
           [count |-> 3, size |-> 128 * K]>>
    ELSE <<[count |-> 128, size |-> 4096]>>

Area(base, size, simple) == [base |-> base, size |-> size, simple |-> simple]

\* A plausible fault: k64fbig's slot1 registered with add_image.
K64fBigAreasMixed ==
    [Image0 |-> Area(\h20000, \h20000, TRUE),
     Image1 |-> Area(\h40000, \h20000, FALSE),
     ImageScratch |-> Area(\h60000, \h20000, TRUE)]

\* k64fbig: the STM layout on small sectors, every area add_simple_image.
K64fBigAreas ==
    [Image0 |-> Area(\h20000, \h20000, TRUE),
     Image1 |-> Area(\h40000, \h20000, TRUE),
     ImageScratch |-> Area(\h60000, \h20000, TRUE)]

AreasOf(dev) ==
    CASE dev = "stm32f4" ->
           [Image0 |-> Area(\h20000, \h20000, FALSE),
            Image1 |-> Area(\h40000, \h20000, FALSE),
            ImageScratch |-> Area(\h60000, \h20000, FALSE)]
      [] dev = "k64f" ->
           [Image0 |-> Area(\h20000, \h20000, FALSE),
            Image1 |-> Area(\h40000, \h20000, FALSE),
            ImageScratch |-> Area(\h60000, \h1000, FALSE)]
      [] dev = "k64fbig" -> K64fBigAreas
      [] dev = "nrf52840" ->
           [Image0 |-> Area(\h8000, \h34000, FALSE),
            Image1 |-> Area(\h3c000, \h34000, FALSE),
            ImageScratch |-> Area(\h70000, \hd000, FALSE)]

\* The offset where run r of the map starts, and the flash's sectors as
\* SectorIter yields them (num left out).
RECURSIVE RunBase(_, _)
RunBase(runs, r) ==
    IF r = 1 THEN 0 ELSE RunBase(runs, r - 1) + runs[r - 1].count * runs[r - 1].size
SectorsIn(runs) ==
    UNION {{[base |-> RunBase(runs, r) + k * runs[r].size, size |-> runs[r].size] :
              k \in 0 .. runs[r].count - 1} : r \in 1 .. Len(runs)}

\* The logical sectors of an area, each by its offset in the area: the
\* flash sectors inside it for add_image, the whole area for
\* add_simple_image.
LogicalSectors(runs, a) ==
    IF a.simple THEN {[base |-> 0, size |-> a.size]}
    ELSE {[base |-> s.base - a.base, size |-> s.size] :
            s \in {t \in SectorsIn(runs) : a.base <= t.base /\ t.base + t.size <= a.base + a.size}}

\* add_image's requirement: the area starts at a sector's base and ends at
\* a sector's end.
OnSectorBounds(runs, a) ==
    \/ a.simple
    \/ /\ \E s \in SectorsIn(runs) : s.base = a.base
       /\ \E s \in SectorsIn(runs) : s.base + s.size = a.base + a.size

\* Run::new: offset_from_end, and SlotInfo.trailer_off of each slot.
OffsetFromEnd == MagicSz + 2 * MaxAlign
\* A plausible fault: both trailers placed before slot1's base.
TrailerOffsBothFromSlot1(areas) ==
    <<areas.Image1.base - OffsetFromEnd, areas.Image1.base - OffsetFromEnd>>
TrailerOffs(areas) ==
    <<areas.Image1.base - OffsetFromEnd, areas.ImageScratch.base - OffsetFromEnd>>

\* The panic Run::new(dev, align) stops with, or "none".
RunNewPanic(dev, align) ==
    LET secs == SectorsOf(dev)
        areas == AreasOf(dev)
    IN CASE ~(align > 0 /\ (align & (align - 1)) = 0) -> "SimFlash::new: align"
         [] \E id \in {"Image0", "Image1", "ImageScratch"} :
              ~OnSectorBounds(secs, areas[id]) -> "add_image: not on sector bounds"
         [] areas.Image1.base # areas.Image0.base + areas.Image0.size
              \/ areas.ImageScratch.base # areas.Image1.base + areas.Image1.size
              -> "assertion failed: slots consecutive"
         [] OTHER -> "none"

Init ==
    /\ args \in Args
    /\ parsed = FALSE
    /\ queue = <<>>
    /\ run = NoRun
    /\ fault = "none"
    /\ passes = 0 /\ failures = 0
    /\ exit_code = "running"
    /\ tlv_sz \in TlvSizes

\* A run command line whose --align visit_u8 refuses.
Refused(a) == a.cmd = "run" /\ a.align # <<>> /\ VisitU8(a.align[1]) = <<>>

\* The run_single calls main makes for a command line: one for run, with
\* align 1 when --align is absent, the sixteen of runall, none for sizes
\* or for a refused alignment.
Dispatch(a) ==
    CASE Refused(a)       -> <<>>
      [] a.cmd = "runall" -> Runall
      [] a.cmd = "run"    -> <<<<a.device, IF a.align = <<>> THEN 1 ELSE a.align[1]>>>>
      [] OTHER            -> <<>>

\* main: deserialize the arguments (a refused alignment ends the process
\* through e.exit(), with code 1), then show_sizes and return, or queue
\* the configurations to run.
Main ==
    /\ ~parsed
    /\ parsed' = TRUE
    /\ queue' = Dispatch(args)
    /\ exit_code' = CASE Refused(args)     -> "exit(1)"
                      [] args.cmd = "sizes" -> "return"
                      [] OTHER              -> "running"
    /\ UNCHANGED <<args, run, fault, passes, failures, tlv_sz>>

\* run_single(dev, align) begins: Run::new.
RunNew ==
    /\ fault = "none" /\ run = NoRun /\ queue # <<>>
    /\ LET dev == Head(queue)[1]
           align == Head(queue)[2]
       IN IF RunNewPanic(dev, align) # "none"
          THEN /\ fault' = RunNewPanic(dev, align)
               /\ UNCHANGED <<args, parsed, queue, run, passes, failures, exit_code, tlv_sz>>
          ELSE /\ run' = [dev |-> dev, align |-> align,
                          sectors |-> SectorsOf(dev), areas |-> AreasOf(dev),
                          trailer_off |-> TrailerOffs(AreasOf(dev)),
                          writes |-> <<>>, perm |-> <<>>, bad |-> <<>>]
               /\ UNCHANGED <<args, parsed, queue, fault, passes, failures, exit_code, tlv_sz>>

\* install_image: the 32-byte header at offset, then the body and its TLV,
\* padded with 0xff to a multiple of 8, right after it; each one
\* flash.write.
\* A plausible fault: the padding loop left out.
Pad8Missing(n) == n
Pad8(n) == IF n % 8 = 0 THEN n ELSE n + (8 - (n % 8))
Write(off, len) == [off |-> off, len |-> len]
InstallImage(offset, len) ==
    <<Write(offset, 32), Write(offset + 32, Pad8(len + tlv_sz))>>

\* The SimFlash writes of make_image, on a clone of the Run's fresh flash:
\* make_no_upgrade_image's two install_image calls (make_bad_slot1_image's
\* have the same layout) and mark_upgrade on slot1.
FixtureWrites(r) ==
    InstallImage(r.areas.Image0.base, 32784)
    \o InstallImage(r.areas.Image1.base, 41928)
    \o <<Write(r.trailer_off[2] + 2 * MaxAlign, MagicSz)>>

\* run_single builds its fixtures.
MakeImages ==
    /\ fault = "none" /\ run # NoRun /\ run.writes = <<>>
    /\ run' = [run EXCEPT !.writes = FixtureWrites(run)]
    /\ UNCHANGED <<args, parsed, queue, fault, passes, failures, exit_code, tlv_sz>>

\* Images::trailer_sz and status_sz: the status area is taken to be the
\* trailer less its last 16 + 24 bytes; a trailer shorter than that is a
\* usize subtraction overflow, a panic in the simulator's debug build.
StatusSz(align) == BootTrailerSz(align) - (16 + 24)
\* A plausible fault: status_off taken back from slot1 by status_sz.
StatusOffFromStatusSz(r) == r.areas.Image1.base - StatusSz(r.align)
StatusOff(r) == r.areas.Image1.base - BootTrailerSz(r.align)

\* run_with_status_fails_with_reset (the default build: neither
\* validate-slot0 nor overwrite-only), up to its boot_go: on a clone of
\* the fixture flash, mark_permanent_upgrade writes image_ok into slot1's
\* trailer, then add_bad_region makes every write to the status area fail
\* (rate 1.0, in percent; the rate is in range, so its result is Ok).
\* What boot_go does about the failed writes is the C bootloader's.
StatusFails ==
    /\ fault = "none" /\ run # NoRun /\ run.writes # <<>> /\ run.bad = <<>>
    /\ IF BootTrailerSz(run.align) < 16 + 24
       THEN /\ fault' = "attempt to subtract with overflow"
            /\ UNCHANGED run
       ELSE /\ run' = [run EXCEPT
                 !.perm = <<Write(run.trailer_off[2] + MaxAlign, run.align)>>,
                 !.bad = <<[off |-> StatusOff(run), len |-> StatusSz(run.align),
                            rate |-> 100]>>]
            /\ UNCHANGED fault
    /\ UNCHANGED <<args, parsed, queue, passes, failures, exit_code, tlv_sz>>

\* run_single's scenarios are over (Harness decides whether one of them
\* failed); the configuration counts as a pass or a failure, and runall
\* takes the next pair.
RunSingleDone ==
    /\ fault = "none" /\ run # NoRun /\ run.bad # <<>>
    /\ \/ passes' = passes + 1 /\ UNCHANGED failures
       \/ failures' = failures + 1 /\ UNCHANGED passes
    /\ run' = NoRun
    /\ queue' = Tail(queue)
    /\ UNCHANGED <<args, parsed, fault, exit_code, tlv_sz>>

\* main, after the loop: exit 1 if any configuration failed.
Exit ==
    /\ parsed /\ fault = "none" /\ run = NoRun /\ queue = <<>> /\ exit_code = "running"
    /\ exit_code' = IF failures > 0 THEN "exit(1)" ELSE "exit(0)"
    /\ UNCHANGED <<args, parsed, queue, run, fault, passes, failures, tlv_sz>>

Next == Main \/ RunNew \/ MakeImages \/ StatusFails \/ RunSingleDone \/ Exit

Spec == Init /\ [][Next]_vars /\ WF_vars(Next)

(***************************************************************************)
(* Properties.                                                             *)
(***************************************************************************)
SlotAreas(r) == <<r.areas.Image0, r.areas.Image1>>

\* The trailer Run::new places for each slot (trailer_off computed from the
\* base of the area that follows it) lies wholly inside the slot's last
\* logical sector, the one the bootloader erases to clear it, and starts
\* on a boot_max_align() boundary, so the flag writes at trailer_off,
\* + max_align and + 2 * max_align are aligned at every alignment.
TrailerInLastSector ==
    run # NoRun =>
      \A i \in 1 .. 2 :
        LET a == SlotAreas(run)[i]
            off == run.trailer_off[i] - a.base
        IN /\ run.trailer_off[i] % MaxAlign = 0
           /\ \E ls \in LogicalSectors(run.sectors, a) :
                /\ ls.base + ls.size = a.size
                /\ ls.base <= off /\ off + OffsetFromEnd <= a.size

\* The geometry the swap (BootGo) relies on: both slots have the same
\* logical sectors, sector k of one swapping with sector k of the other,
\* and each of them fits in the scratch area it passes through; the
\* nrf52840's scratch, which does not divide the slot, included.
SlotsSwappable ==
    run # NoRun =>
      /\ LogicalSectors(run.sectors, run.areas.Image0)
           = LogicalSectors(run.sectors, run.areas.Image1)
      /\ \A ls \in LogicalSectors(run.sectors, run.areas.Image0) :
           ls.size <= run.areas.ImageScratch.size

\* Every flash write that builds run_single's fixtures is one SimFlash
\* accepts: aligned in offset and length at the run's alignment, inside
\* the device, on bytes no earlier write of the fixture touched, and, for
\* the images, ending before their slot's trailer; so no fixture panics
\* and no image overlaps the trailer mark_upgrade writes.
FixtureWritesFit ==
    run # NoRun =>
      LET ws == run.writes
          slot(w) == IF w.off < run.areas.Image1.base THEN 1 ELSE 2
      IN /\ \A i \in DOMAIN ws :
              /\ ws[i].off % run.align = 0 /\ ws[i].len % run.align = 0
              /\ ws[i].off + ws[i].len <= run.areas.ImageScratch.base
                                          + run.areas.ImageScratch.size
         /\ \A i, j \in DOMAIN ws :
              i < j => \/ ws[i].off + ws[i].len <= ws[j].off
                       \/ ws[j].off + ws[j].len <= ws[i].off
         /\ \A i \in 1 .. Len(ws) - 1 :
              ws[i].off + ws[i].len <= run.trailer_off[slot(ws[i])]

\* The bad region run_with_status_fails_with_reset places, from
\* slot1.base_off - trailer_sz for status_sz bytes, lies in slot0's last
\* logical sector and touches none of the bytes that make the scenario's
\* expected outcome: no write of the fixture images or of mark_upgrade,
\* not slot1's image_ok that mark_permanent_upgrade writes, and nothing
\* from slot0's trailer_off on (magic, image_ok, copy_done, which
\* verify_trailer reads); so only the bootloader's status writes fail.
StatusRegionSparesFixture ==
    run # NoRun /\ run.bad # <<>> =>
      LET b == run.bad[1]
          a == run.areas.Image0
          apart(w) == w.off + w.len <= b.off \/ b.off + b.len <= w.off
      IN /\ \E ls \in LogicalSectors(run.sectors, a) :
              /\ ls.base + ls.size = a.size
              /\ a.base + ls.base <= b.off
         /\ b.off + b.len <= run.trailer_off[1]
         /\ \A i \in DOMAIN run.writes : apart(run.writes[i])
         /\ apart(run.perm[1])

\* spec.md (scenario 9) says the bad region covers the full status area of
\* slot1; the region the code adds lies in slot1, from its base on.
StatusRegionInSlot1 ==
    run # NoRun /\ run.bad # <<>> =>
      LET b == run.bad[1]
      IN /\ run.areas.Image1.base <= b.off
         /\ b.off + b.len <= run.areas.Image1.base + run.areas.Image1.size

\* Whatever the command line, main ends with an exit code or a return,
\* never a panic, after running every configuration it was asked for:
\* the sixteen of runall, or the one of run, Run::new accepting each.
MainCompletes ==
    <>(exit_code # "running" /\ passes + failures = Len(Dispatch(args)))
=============================================================================
