------------------------------ MODULE SimFlash ------------------------------
(***************************************************************************)
(* The simulated NOR flash of simflash/src/lib.rs (struct SimFlash and its *)
(* impl of trait Flash).  The device is a byte store with a per-byte       *)
(* write_safe flag ("not written since the last erase"), a sector map, a   *)
(* list of bad regions in which writes fail by chance, a write alignment   *)
(* and a verify_writes switch.                                             *)
(*                                                                         *)
(* Each operation is one atomic action: the simulator is single-threaded   *)
(* and every method runs to completion.  A panic!() of the code (a fatal   *)
(* programmer error) sets fault and ends the behaviour: no operation is    *)
(* enabled afterwards, as the process has stopped.                         *)
(*                                                                         *)
(* Data is abstracted to a few byte values; Erased (0xff) is kept because  *)
(* erase writes it and a payload may itself contain it.  Failure rates are *)
(* integers in percent: a draw u in [0,1) fails when u < rate, so rate 0   *)
(* never fails, 100 always fails and anything in between may go either way.*)
(***************************************************************************)
EXTENDS Naturals, Sequences, SequencesExt, Functions

CONSTANTS
    Sectors,        \* the sector map passed to SimFlash::new: a sequence of sizes
    Align,          \* the write alignment passed to SimFlash::new
    PayloadBytes,   \* byte values a payload may carry (255 is the erased value)
    MaxWriteLen,    \* bound: longest payload a client writes
    RegionOffsets,  \* offsets a client passes to add_bad_region
    RegionLens,     \* lengths a client passes to add_bad_region
    Rates,          \* failure rates (percent) a client passes to add_bad_region
    MaxBadRegions   \* bound: regions pushed before the client resets them

VARIABLES
    data,           \* data: Vec<u8>
    write_safe,     \* write_safe: Vec<bool>
    bad_region,     \* bad_region: Vec<(usize, usize, f32)>, as records
    verify_writes,  \* verify_writes: bool
    ret,            \* the Result the last operation returned, or "Fatal"
    last,           \* the last operation and, for an erase or a write, its
                    \* range (the other operations leave their arguments out)
    fault           \* the panic message once the process has panicked

vars == <<data, write_safe, bad_region, verify_writes, ret, last, fault>>

Erased == 255

ASSUME /\ Sectors \in Seq(Nat \ {0}) /\ Len(Sectors) > 0
       /\ Align \in {1, 2, 4, 8}
       /\ Erased \in PayloadBytes

Total == SumFunction(Sectors)

Addr == 0 .. Total - 1

NoSector == <<0, 0>>

(***************************************************************************)
(* get_sector: scan the sector map and return the sector holding byte      *)
(* offset and the offset within it, or None past the end of the device.   *)
(* Sectors are numbered from 1 here (from 0 in the code).                  *)
(***************************************************************************)
RECURSIVE Scan(_, _)

\* A plausible fault: an off-by-one at the end of each sector.
ScanInclusive(offset, k) ==
    IF k > Len(Sectors) THEN NoSector
    ELSE IF offset <= Sectors[k] THEN <<k, offset>>
    ELSE Scan(offset - Sectors[k], k + 1)

Scan(offset, k) ==
    IF k > Len(Sectors) THEN NoSector
    ELSE IF offset < Sectors[k] THEN <<k, offset>>
    ELSE Scan(offset - Sectors[k], k + 1)

GetSector(offset) == Scan(offset, 1)

(***************************************************************************)
(* sector_iter: Sector{num, base, size} for each entry of the map, base    *)
(* being the running sum of the sizes before it.                           *)
(***************************************************************************)
SectorIter ==
    [n \in 1 .. Len(Sectors) |->
        [num  |-> n - 1,
         base |-> SumFunctionOnSet(Sectors, 1 .. n - 1),
         size |-> Sectors[n]]]

(***************************************************************************)
(* The bad-region test of write: the region contains the whole write.     *)
(***************************************************************************)
RegionContains(r, offset, len) ==
    offset >= r.off /\ offset + len <= r.off + r.len

\* The draw u in [0,1) can be below rate, and can be at or above it.
CanFire(rate) == rate > 0
CanMiss(rate) == rate < 100

Init ==
    /\ data = [i \in Addr |-> Erased]
    /\ write_safe = [i \in Addr |-> TRUE]
    /\ bad_region = <<>>
    /\ verify_writes = TRUE
    /\ ret = "Ok"
    /\ last = [op |-> "new", off |-> 0, len |-> 0]
    /\ fault = "none"

Alive == fault = "none"

Record(op, off, len) == last' = [op |-> op, off |-> off, len |-> len]

(***************************************************************************)
(* erase: both ends are looked up with get_sector; the start must be the   *)
(* first byte of a sector and the end the last byte of one.  offset+len-1  *)
(* underflows for erase(0, 0): a debug build panics, a release build wraps *)
(* and get_sector finds no sector.                                         *)
(***************************************************************************)
\* A plausible fault: the start-of-sector test (slen != 0) dropped.
EraseBoundsEndOnly(offset, len) ==
    LET e == GetSector(offset + len - 1)
    IN GetSector(offset) # NoSector /\ e # NoSector /\ e[2] = Sectors[e[1]] - 1

EraseBounds(offset, len) ==
    LET s == GetSector(offset)
        e == GetSector(offset + len - 1)
    IN /\ s # NoSector
       /\ e # NoSector
       /\ s[2] = 0
       /\ e[2] = Sectors[e[1]] - 1

Erase(offset, len) ==
    /\ Alive
    /\ Record("erase", offset, len)
    /\ UNCHANGED <<bad_region, verify_writes>>
    /\ IF offset + len = 0
       THEN \/ /\ fault' = "attempt to subtract with overflow"
               /\ ret' = "Fatal"
               /\ UNCHANGED <<data, write_safe>>
            \/ /\ ret' = "OutOfBounds"
               /\ UNCHANGED <<data, write_safe, fault>>
       ELSE IF ~EraseBounds(offset, len)
       THEN /\ ret' = "OutOfBounds"
            /\ UNCHANGED <<data, write_safe, fault>>
       ELSE LET range == offset .. offset + len - 1
            IN /\ data' = [i \in Addr |-> IF i \in range THEN Erased ELSE data[i]]
               /\ write_safe' = [i \in Addr |-> i \in range \/ write_safe[i]]
               /\ ret' = "Ok"
               /\ UNCHANGED fault

(***************************************************************************)
(* write: first every bad region containing the whole write draws, and one *)
(* firing fails the write with SimulatedFail before anything is touched.   *)
(* Then the bounds, the alignment of address and length, and (under        *)
(* verify_writes) that no byte was written since its erase are checked,    *)
(* each by a panic; only then are write_safe and data updated.  The panic  *)
(* on an unerased byte comes after the earlier bytes' flags were cleared;  *)
(* the process is gone by then, so that partial update is not kept.        *)
(***************************************************************************)
Faults ==
    {"none", "attempt to subtract with overflow", "Write outside of device",
     "Misaligned write address", "Write length not multiple of alignment",
     "Write to unerased location"}

Panic(msg) ==
    /\ fault' = msg
    /\ ret' = "Fatal"
    /\ UNCHANGED <<data, write_safe>>

\* The bail!(esimulatedwrite(..)): nothing of the device is touched.
SimulatedFail(offset, payload) ==
    /\ ret' = "SimulatedFail"
    /\ UNCHANGED <<data, write_safe, fault>>

\* The loop's test: verify_writes is on and some byte is not write-safe.
Unerased(range) == verify_writes /\ \E i \in range : ~write_safe[i]

\* A plausible fault: data copied but the write_safe flags left set.
ProgramKeepsFlags(offset, payload) ==
    /\ data' = [i \in Addr |->
                  IF i \in offset .. offset + Len(payload) - 1
                  THEN payload[i - offset + 1] ELSE data[i]]
    /\ UNCHANGED write_safe

\* A plausible fault: the flags cleared only when verify_writes is on.
ProgramClearsOnlyVerified(offset, payload) ==
    LET range == offset .. offset + Len(payload) - 1
    IN /\ write_safe' = [i \in Addr |-> write_safe[i] /\ ~(verify_writes /\ i \in range)]
       /\ data' = [i \in Addr |-> IF i \in range THEN payload[i - offset + 1] ELSE data[i]]

\* The loop clearing write_safe over the range, then copy_from_slice.
Program(offset, payload) ==
    LET range == offset .. offset + Len(payload) - 1
    IN /\ write_safe' = [i \in Addr |-> write_safe[i] /\ i \notin range]
       /\ data' = [i \in Addr |-> IF i \in range THEN payload[i - offset + 1] ELSE data[i]]

Write(offset, payload) ==
    LET n == Len(payload)
        hit == {k \in 1 .. Len(bad_region) : RegionContains(bad_region[k], offset, n)}
    IN
    /\ Alive
    /\ Record("write", offset, n)
    /\ UNCHANGED <<bad_region, verify_writes>>
    /\ \/ /\ \E k \in hit : CanFire(bad_region[k].rate)
          /\ SimulatedFail(offset, payload)
       \/ /\ \A k \in hit : CanMiss(bad_region[k].rate)
          /\ CASE offset + n > Total ->
                    Panic("Write outside of device")
               [] offset % Align # 0 ->
                    Panic("Misaligned write address")
               [] n % Align # 0 ->
                    Panic("Write length not multiple of alignment")
               [] Unerased(offset .. offset + n - 1) ->
                    Panic("Write to unerased location")
               [] OTHER ->
                    /\ Program(offset, payload)
                    /\ ret' = "Ok"
                    /\ UNCHANGED fault

\* read: rejects a range that leaves the device; it changes nothing else.
Read(offset, len) ==
    /\ Alive
    /\ Record("read", 0, 0)
    /\ ret' = IF offset + len > Total THEN "OutOfBounds" ELSE "Ok"
    /\ UNCHANGED <<data, write_safe, bad_region, verify_writes, fault>>

\* add_bad_region without its rate check.
AddBadRegionUnchecked(offset, len, rate) ==
    /\ Alive
    /\ Len(bad_region) < MaxBadRegions
    /\ Record("add_bad_region", 0, 0)
    /\ bad_region' = Append(bad_region, [off |-> offset, len |-> len, rate |-> rate])
    /\ ret' = "Ok"
    /\ UNCHANGED <<data, write_safe, verify_writes, fault>>

\* add_bad_region: a rate outside [0,1] is refused, any range is accepted.
AddBadRegion(offset, len, rate) ==
    /\ Alive
    /\ Len(bad_region) < MaxBadRegions
    /\ Record("add_bad_region", 0, 0)
    /\ IF rate < 0 \/ rate > 100
       THEN /\ ret' = "OutOfBounds"
            /\ UNCHANGED bad_region
       ELSE /\ bad_region' = Append(bad_region, [off |-> offset, len |-> len, rate |-> rate])
            /\ ret' = "Ok"
    /\ UNCHANGED <<data, write_safe, verify_writes, fault>>

ResetBadRegions ==
    /\ Alive
    /\ Record("reset_bad_regions", 0, 0)
    /\ bad_region' = <<>>
    /\ ret' = "Ok"
    /\ UNCHANGED <<data, write_safe, verify_writes, fault>>

SetVerifyWrites(enable) ==
    /\ Alive
    /\ Record("set_verify_writes", 0, 0)
    /\ verify_writes' = enable
    /\ ret' = "Ok"
    /\ UNCHANGED <<data, write_safe, bad_region, fault>>

Next ==
    \/ \E off \in 0 .. Total, len \in 0 .. Total : Erase(off, len)
    \/ \E off \in 0 .. Total, p \in BoundedSeq(PayloadBytes, MaxWriteLen) : Write(off, p)
    \/ \E off \in 0 .. Total, len \in 0 .. Total : Read(off, len)
    \/ \E off \in RegionOffsets, len \in RegionLens, r \in Rates : AddBadRegion(off, len, r)
    \/ ResetBadRegions
    \/ \E b \in BOOLEAN : SetVerifyWrites(b)

Spec == Init /\ [][Next]_vars

-----------------------------------------------------------------------------
(***************************************************************************)
(* Properties.                                                             *)
(***************************************************************************)

TypeOK ==
    /\ data \in [Addr -> PayloadBytes]
    /\ write_safe \in [Addr -> BOOLEAN]
    /\ bad_region \in Seq([off : RegionOffsets, len : RegionLens, rate : 0 .. 100])
    /\ verify_writes \in BOOLEAN
    /\ ret \in {"Ok", "OutOfBounds", "SimulatedFail", "Fatal"}
    /\ last.op \in {"new", "erase", "write", "read", "add_bad_region",
                    "reset_bad_regions", "set_verify_writes"}
    /\ fault \in Faults

(***************************************************************************)
(* A byte not written since its erase reads as erased: write_safe never    *)
(* claims a byte is safe to program while it holds data.  Broken by an     *)
(* erase that resets the flags over a different range than the bytes, or a *)
(* write that stores data without clearing the flags.                      *)
(***************************************************************************)
WriteSafeIsErased ==
    \A i \in Addr : write_safe[i] => data[i] = Erased

(***************************************************************************)
(* erase works on whole sectors: after an erase step every sector is       *)
(* either untouched or entirely erased and write-safe, never half erased.  *)
(***************************************************************************)
ErasesWholeSectors ==
    [][last'.op = "erase" =>
         \A s \in 1 .. Len(Sectors) :
            LET bytes == SectorIter[s].base .. SectorIter[s].base + Sectors[s] - 1
            IN \/ \A i \in bytes : data'[i] = data[i] /\ write_safe'[i] = write_safe[i]
               \/ \A i \in bytes : data'[i] = Erased /\ write_safe'[i]]_vars

(***************************************************************************)
(* erase accepts a range exactly when it starts at a sector's base and     *)
(* ends at a sector boundary, as sector_iter reports them, and does not    *)
(* end at 0 (where offset + len - 1 underflows).  An empty range at the    *)
(* base of any sector but the first is accepted and erases nothing.  erase *)
(* decides this with get_sector's scan over the sector map; sector_iter    *)
(* walks the same map on its own, so an off-by-one in either makes them    *)
(* disagree.                                                               *)
(***************************************************************************)
SectorBases == {SectorIter[n].base : n \in 1 .. Len(Sectors)}

WholeSectors(offset, len) ==
    /\ offset \in SectorBases
    /\ offset + len \in SectorBases \cup {Total}
    /\ offset + len > 0

EraseAcceptsExactlyWholeSectors ==
    [][last'.op = "erase" => (ret' = "Ok" <=> WholeSectors(last'.off, last'.len))]_vars
=============================================================================
