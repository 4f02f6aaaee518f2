# TLA+ models of the mcuboot simulator

This directory models the Rust simulator that tests the mcuboot bootloader
(`src/radios/ble/mcuboot/sim/`). The simulator has two source files:

* `simflash/src/lib.rs` is `SimFlash`, an emulated NOR flash device. It holds
  bytes, a sector map and a per-byte `write_safe` flag. Erases must fall on
  sector boundaries. A byte may only be written after an erase. Writes may be
  misaligned (a panic) or outside the device (a panic). Writes inside a "bad
  region" fail at random with a given rate.
* `src/lib.rs` is the test harness. `Run::new` builds a device with
  `make_device`. `make_image` and its siblings install a primary and an
  upgrade image (`install_image`) and mark trailers (`mark_upgrade`,
  `mark_permanent_upgrade`). The `Images::run_*` scenarios then call the C
  bootloader, `c::boot_go`, with an interrupt counter. They interrupt it, resume
  it, and check images (`verify_image`) and trailers (`verify_trailer`).
  `RunStatus::run_single` runs the scenarios in a fixed order. `main` parses the
  command line and loops over devices and alignments.

The bootloader itself (mcuboot's bootutil, built through `c::boot_go`) is C code
outside the simulator's sources. The harness can only be checked against a
bootloader, so `BootGo` is a *reference* swap bootloader. It is built from the
contract the spec states and the harness relies on, and every definition in it
is marked `spec_modelled` in `PROJECT.json`.

## Modules

| module | models | state | actions |
|---|---|---|---|
| `SimFlash` | `SimFlash` in `simflash/src/lib.rs` | `data`, `write_safe`, `bad_region`, `verify_writes` as in the struct; `ret` is the returned `Result`; `fault` is a panic; `last` records the last call | `Erase`, `Write`, `Read`, `AddBadRegion`, `ResetBadRegions`, `SetVerifyWrites`, each the whole trait method |
| `BootGo` | `boot_go` (reference, spec-modelled) | `fl`: the flash by erase unit (N sectors per slot, scratch, two trailers, a status area); `plan`, `booting`, `counter`, `result`, `fault` | `BootStart(c)`, `BootOp` (one erase/copy/write, or the interruption), `BootReturn` |
| `Harness` | the scenarios of `src/lib.rs` | `script` (statements still to run), `fails`, `base` (the `Images` fixture's flash), `total` (`total_count`), `interrupted`/`count` (`try_upgrade`), `remaining`/`reset` (`try_random_fails`) | `Exec` runs one harness statement; `RunTrial` picks one trial of a `for` loop; boot steps come from `BootGo` |
| `TrailerFields` | a trailer as three fields (abstract) | `fields`, `fault`, `step` | `SetField(f)` (panics when already set), `EraseAll` |
| `TrailerBytes` | the trailer's bytes on `SimFlash` | `SimFlash`'s variables, `align`, `call` | `MarkUpgrade`, `MarkPermanent`, `WriteCopyDone`, `EraseTrailer`, each a `SimFlash` call |
| `DeviceCatalog` | `main`, `make_device`, `Run::new`, `RunStatus` | `args` (the command line), `parsed`, `queue` (pairs still to run), `run` (the `Run`'s geometry), `passes`, `failures`, `exit_code`, `fault` | `Main`, `RunNew`, `MakeImages`, `StatusFails`, `RunSingleDone`, `Exit` |

MC modules: `MCSimFlash` gives `SimFlash` a sector map and adds the history
variable `programmed`. `MCHarness` lists the
scenarios. `MCDeviceCatalog` gives `DeviceCatalog` the C bootloader's
`boot_trailer_sz`. `TrailerBytes` is checked directly with
`MCTrailerBytes.cfg`.

### SimFlash

Bytes are abstracted to the payload set `{0, 255}`, where 255 is the erased
value. The sector map is a sequence of sizes. `get_sector` is the recursive
`Scan`. `sector_iter` is `SectorIter`, the set of `(num, base, size)` records.

The bad-region rate is a percentage. The random draw `between < rate` can fire
when the rate is above 0, and can miss when it is below 100. Both outcomes are
explored wherever they are possible.

`Erase` includes the underflow of `offset + len - 1` at `erase(0, 0)`: a panic
in a debug build (`Fatal`) or a wrapped end that `get_sector` rejects. Both
outcomes are explored. An empty erase at a later sector base passes both
boundary tests and erases nothing.

`Write` keeps the code's order:

1. the bad-region loop, which fails before any mutation;
2. the bounds panic;
3. the two alignment panics;
4. the unerased panic under `verify_writes`;
5. the copy.

`write`'s loop clears `write_safe` for every write, checked or not. Only
`erase` sets it again. `MCSimFlash`'s history variable `programmed` is
computed from the operations and their results alone: an `Ok` write sets a
byte, and an `Ok` erase clears it. It is never read by `SimFlash`, so the
checked behaviours are the same. `ErasedBeforeProgrammed` compares the
device's bookkeeping with that history.

### BootGo (reference bootloader)

Each erase or write first decrements `counter`. When the counter reaches 0 the
operation is not done and `boot_go` returns `-0x13579`. A counter of 0 (`None`)
counts down forever, so a completed boot leaves `counter = -ops`. That is how
`try_upgrade` measures `total_count`.

The boot chooses its work from the flash:

* **A swap in progress** (the status area is in use) is resumed. The first
  unwritten group is redone from its erase.
* **An upgrade** is started when slot1's magic is set and its signature checks.
  It is permanent if slot1's `image_ok` is set, and a test otherwise.
* **A revert** is started when slot0 has magic and `copy_done` but no
  `image_ok`.

The swap runs one sector at a time, from the last sector, in three groups:

* slot1 is copied to scratch;
* slot0 is copied to slot1;
* scratch is copied to slot0.

Each group is an erase, a copy and a status write. The swap ends by erasing
slot1's trailer, then writing slot0's magic, `image_ok` (not for a test) and
`copy_done`, skipping fields already written, and finally erasing the status
area. With N = 2 a permanent upgrade takes 25 operations and a test upgrade
takes 24.

`BootGo` is checked only as the environment of `Harness`. Its swap, status
area, resume rule and closing-write order are this reference's design, beyond
the spec's counter contract. A property of `BootGo` alone would check that
design and not the repository's code, so none is stated.

### Harness

Each scenario is a script of statements, one per line of the Rust code that
acts or checks. `ScenarioScript` follows `run_single`'s fixtures:

* `make_bad_slot1_image` feeds `run_signfail_upgrade`;
* `make_no_upgrade_image` feeds `run_norevert_newimage`;
* `make_image` feeds the other five scenarios.

A `for` loop over independent trials on clones of the fixture becomes one trial
chosen by `\E`. These loops are `run_perm_with_fails`,
`run_revert_with_fails` and `run_basic_revert`. All trials are explored, and
the loop fails exactly when one of its trials does. `try_random_fails`'s random
`reset_counter` is a choice over `Range::new(1, remaining_ops / 2)`, which
panics when that range is empty.

A panic stops the process:

* a harness mark on an unerased byte;
* "Unknown return";
* "Shouldn't stop again";
* an empty `Range`;
* a failed basic upgrade.

### TrailerBytes

The trailer's last `boot_magic_sz() + 2 * boot_max_align()` bytes lie at the
end of a sector of a `SimFlash` device. The module instantiates it as
`Flash(a) == INSTANCE SimFlash WITH Align <- a, ...`. The alignment `a` is
chosen in `Init` from runall's 1, 2, 4 and 8. It is bound by `\E a \in Aligns`
so that it stays constant-level for the instance. `mark_upgrade`,
`mark_permanent_upgrade`, the bootloader's `copy_done` write and the sector
erase are real `SimFlash` writes and erases: misaligned or repeated writes
panic as they do in the simulator. `VerifyFields` decodes the bytes exactly as
`verify_trailer` does, with its literal offsets `copy[16..]`, `copy[8]` and
`copy[0]`. `RefinesTrailerFields` maps the bytes through that decode onto
`TrailerFields`, the three-field trailer `Harness` and `BootGo` use. A history
variable `call` names the operation, so each write must set the field it
means to set.

### DeviceCatalog

`Main` is `main`'s dispatch. `args` ranges over the command lines of
`USAGE`:

* `sizes`, which returns after `show_sizes`;
* `runall`, which queues the sixteen configurations;
* `run --device TYPE` with `--align` absent (align 1), or given as one of
  `AlignFlags`.

`AlignArgVisitor::visit_u8` accepts only 1, 2, 4 and 8. Any other value is an
`Err`, and `unwrap_or_else(|e| e.exit())` ends the process with code 1.
Docopt refuses a missing `--device`, so `main`'s "Missing mandatory device
argument" panic is unreachable and is left out.

The four sector maps are runs of equal sectors, as the source writes them
(`vec![4096; 128]`). The areas follow `make_device`. `AreaDesc` is outside the
sources, so its two registration modes are spec-modelled:

* `add_image` needs whole sectors;
* `add_simple_image` makes the area one logical sector.

`RunNewPanic` follows `Run::new`'s order: the alignment asserts of
`SimFlash::new`, the area registration, then the consecutive-area asserts.
`MakeImages` records the flash writes that build `run_single`'s fixtures:

* `install_image`'s 32-byte header;
* its body and TLV, padded to 8;
* `make_image`'s `mark_upgrade`.

`StatusFails` is `run_with_status_fails_with_reset` as the default build
compiles it (neither `validate-slot0` nor `overwrite-only`), up to its
`boot_go`:

* `mark_permanent_upgrade` writes slot1's `image_ok`;
* `add_bad_region` adds a region at `slot1.base_off - trailer_sz` of
  `status_sz` bytes, with rate 1.0 (100 in percent).

`status_sz` is `trailer_sz - (16 + 24)`. A trailer shorter than 40 bytes
would be a usize underflow, a panic in a debug build. `boot_trailer_sz` is
C code outside the sources, so it is the constant operator `BootTrailerSz`.
`MCDeviceCatalog` defines it as mcuboot's layout: 128 status entries of 3
writes of `align` bytes each, then `swap_size`, `copy_done` and `image_ok`
of `max_align` bytes each, then the 16-byte magic. How `boot_go` reacts to
the failed writes is the bootloader's, so it is not modelled.

`run_single`'s outcome is a choice of pass or fail, because `Harness` checks
the scenarios themselves.

## Runs

| run | cfg | checks | shows |
|---|---|---|---|
| `simflash` | `MCSimFlash.cfg` | `TypeOK`, `WriteSafeIsErased`, `EraseAcceptsExactlyWholeSectors`, `ErasesWholeSectors`, `ErasedBeforeProgrammed` | any sequence of calls keeps `write_safe` in step with the data; erase accepts exactly the ranges that start at a sector base and end at a boundary (get_sector agrees with sector_iter), including the empty erase at a later sector base, and changes only whole sectors; while `verify_writes` is on, no write succeeds on a byte that an earlier successful write programmed after its last erase, writes made with `verify_writes` off included |
| `harness` | `MCHarness.cfg` | `TypeOK`, `ScenarioPasses`, `ScenarioCompletes` | against a resumable swap bootloader, every trial of the seven scenarios finishes without a panic and with `fails = 0` |
| `trailer` | `MCTrailerBytes.cfg` | `RefinesTrailerFields` | at every runall alignment, the bytes the harness and the bootloader write read back through `verify_trailer` as the intended fields, and only a repeated mark panics |
| `catalog` | `MCDeviceCatalog.cfg` | `TrailerInLastSector`, `SlotsSwappable`, `FixtureWritesFit`, `StatusRegionSparesFixture`, `MainCompletes` | for every command line and all 16 device and alignment pairs, `Run::new` does not panic; each trailer lies in its slot's last logical sector on a `max_align` boundary; the slots have the same logical sectors and each fits in scratch (the nrf52840's odd scratch included); the fixtures' `install_image` and `mark_upgrade` writes are aligned, disjoint and stop before the trailers, so building them never panics; the status-fail bad region lies in slot0's last logical sector, clear of every fixture write, of slot1's `image_ok` and of slot0's trailer fields; `main` exits or returns after running every configuration it queued |
| `status_region` (violation) | `MCDeviceCatalogStatus.cfg` | `StatusRegionInSlot1` | spec.md's scenario 9 says the bad region covers slot1's status area; TLC finds the region the code adds in slot0, ending 40 bytes before slot1's base (see Findings) |

Every property has a mutant in `PROJECT.json`: a plausible bug in a mapped
definition that TLC then finds. Some examples:

* a rate check dropped from `add_bad_region`;
* `<=` in place of `<` in `get_sector`'s scan;
* `write`'s loop clearing `write_safe` only when `verify_writes` is on, which
  lets a write made with checking off be written over once checking is back;
* `run_revert_with_fails` looping to `total_count - 1`, which breaks
  `ScenarioPasses` because the interruption then lands after `copy_done` is
  written;
* a resume that keeps the spent counter;
* `mark_permanent_upgrade` writing at `trailer_off`;
* both trailers computed from slot1's base;
* k64fbig's slot1 registered with `add_image`;
* `visit_u8` taking any `u8` as an alignment, which `Run::new` then panics on;
* the status-fail region's offset taken back from slot1 by `status_sz`, so it
  reaches slot0's trailer fields;
* `install_image`'s padding to 8 left out.

### Bounds

* **`simflash`:** sectors `<<2, 1, 1>>` (unequal sizes, so off-by-ones in the
  boundary arithmetic show), alignment 2, writes of up to 2 bytes, bad regions
  of length 2 and 4 at offset 0 (one contained in a sector and one spanning
  the device), rates 0, 50, 100 and the invalid 150, and at most two regions.
  This gives about 169k states.
* **`harness`:** N = 4 sectors per slot, so the swap has a first, two middle
  and a last sector and twelve groups, and resumes land in every group. Two
  middle sectors show that nothing depends on a sector having the first or
  the last as a neighbour. There are five random fails, as in `run_single`.
  This gives about 75k states, in about 20 seconds.

* **`trailer`:** `MagicSz = 16` and `MaxAlign = 8`, mcuboot's values, an
  8-byte pad before the trailer, and all four alignments. Every interleaving
  of the four operations is explored up to the first panic. This gives 104
  states. With `MaxAlign = 4`, `verify_trailer(MAGIC_UNSET)` already fails on
  a blank trailer: `copy[16..]` is then 8 bytes long. The literal offsets hold
  only for mcuboot's `BOOT_MAX_ALIGN` of 8.
* **`catalog`:** the real catalogue, all 16 configurations, with every
  pass/fail outcome of each run. There are two TLV sizes: 36 bytes (the
  hash-only generator's SHA-256 entry) and 300 bytes (a signed TLV). The TLV
  generator is outside the sources, so the sizes are a bound, not a
  translation. `AlignFlags` is 1, 2, 4, 8 and 3, an alignment `visit_u8` refuses.
  This gives 1,538 states. The region lies in slot0 for any
  positive `boot_trailer_sz`, so the violation run does not depend on the
  layout that `MCBootTrailerSz` assumes.

### Fairness

`Harness` assumes weak fairness on `Next`. `run_single` is a single thread
that runs one statement after another, and nothing it waits on can block it.
`DeviceCatalog` assumes weak fairness on `Next` for the same reason: the
`runall` loop is sequential.
`SimFlash` and `TrailerBytes` check only safety and refinement. `MCSimFlash.cfg` and
`MCHarness.cfg`, `MCTrailerBytes.cfg` and `MCDeviceCatalog.cfg` disable
deadlock checking because a panic, or the end of the scenario or of `main`,
stops the process.

## Findings

* **`status_region`**: `run_with_status_fails_with_reset` and
  `run_with_status_fails_complete` (`src/lib.rs:696`, `:800`) add the bad
  region at `slot1.base_off - trailer_sz`, for `status_sz` bytes. That region
  is the end of slot0's last sector and stops 40 bytes before slot1.
  spec.md's scenario 9 says it covers "the full status area of slot1". The
  code fails writes to the status area in slot0's trailer; the spec names
  the wrong slot.

## Not modelled

* **What `boot_go` does with failed status writes**: the default build's
  `run_with_status_fails_with_reset` expects at least one `assert()`.
  `run_with_status_fails_complete` is compiled only with `validate-slot0`,
  and otherwise returns `false`; its validate-slot0 version expects none.
  Both outcomes are the C bootloader's, which the sources do not define.
  `DeviceCatalog` models these scenarios' fixture and bad region.
* **A byte-level composition of `SimFlash` and `BootGo`**: `BootGo` already
  applies the simulator's erase-before-write rule to each unit it writes
  (`Writable`, which panics as `SimFlash` does). `TrailerBytes` composes the
  trailer with `SimFlash` byte by byte, and `DeviceCatalog` checks the
  fixtures' writes. Image sectors as bytes would add data and no control.
* **Image bytes**: headers, TLVs, hashes and signatures (`make_tlv`, `splat`,
  `ImageHeader`). They are data. A badly signed image is just one the
  bootloader refuses.
* **`dump` and `write_file`**: file I/O.
* **Docopt's parser, its `--help` and `--version` exits, and `show_sizes`'s
  printing**: a library and I/O. `main`'s dispatch on the parsed arguments is
  modelled.
* **Overwrite-only and validate-slot0 builds**: the features select other code
  paths. The model is of the swap build.

## Plan for later work

1. The status-fail scenarios' `boot_go` outcome, if the bootloader's
   behaviour on failed status writes gets a specification.
