------------------------------- MODULE BootGo -------------------------------
(***************************************************************************)
(* The bootloader the simulator tests, boot_go(flash, areadesc, counter,   *)
(* align, catch_asserts) of spec section 4.F.  Its code (mcuboot) is not   *)
(* part of the simulator's sources: this module is a reference swap        *)
(* bootloader that honours the contract the harness relies on, so that the *)
(* harness's scenarios can be run against it.                              *)
(*                                                                         *)
(*  - Every erase or write the bootloader issues first decrements counter; *)
(*    when it reaches zero the operation is not done and boot_go returns   *)
(*    Interrupted (-0x13579).  counter = 0 never reaches zero (None).      *)
(*  - The flash is seen at the granularity of its erase units: the N       *)
(*    sectors of each slot, the scratch sector, the two trailers and the    *)
(*    swap-status area.  A unit is written only after its erase (the       *)
(*    simulator's verify_writes), else the process panics.                 *)
(*  - Swap type: a status area in use means a swap to resume; else slot1's *)
(*    magic asks for an upgrade (perm if slot1's image_ok is set, test     *)
(*    otherwise) of a slot1 image whose signature checks; else slot0 with  *)
(*    magic, copy_done and no image_ok asks for a revert.                  *)
(*  - The swap runs sector by sector from the last, through scratch, in    *)
(*    three groups of (erase, copy, status write), and ends by erasing     *)
(*    slot1's trailer, writing slot0's (magic, image_ok unless a test,     *)
(*    copy_done) and erasing the status area.                              *)
(*  - A boot plans its operations from the flash when it starts and then   *)
(*    issues them: an interrupted group is redone from its erase.          *)
(***************************************************************************)
EXTENDS Naturals, Sequences, SequencesExt, FiniteSets

CONSTANT N          \* sectors per image slot

ASSUME N \in Nat \ {0}

VARIABLES
    fl,         \* the flash, by erase unit
    plan,       \* the operations boot_go has still to issue
    booting,    \* a boot_go call is in progress
    counter,    \* the interrupt counter (flash_counter)
    result,     \* what the last boot_go returned
    fault       \* the simulator's panic, once the process has stopped

bootVars == <<fl, plan, booting, counter, result, fault>>

E == "E"                    \* an erased trailer field (0xff)
Blank == <<"E", 0>>         \* an erased sector
Set == "Set"                \* MAGIC_VALID, or 0x01 in image_ok / copy_done
Interrupted == -79225       \* -0x13579

\* Image contents, per sector: the primary, the upgrade, a badly signed one.
Primary == [k \in 1 .. N |-> <<"P", k>>]
Upgrade == [k \in 1 .. N |-> <<"U", k>>]
BadSig  == [k \in 1 .. N |-> <<"X", k>>]
Content == {Blank} \cup {img[k] : img \in {Primary, Upgrade, BadSig}, k \in 1 .. N}

ErasedTrailer == [magic |-> E, image_ok |-> E, copy_done |-> E]
Trailer == [magic : {E, Set}, image_ok : {E, Set}, copy_done : {E, Set}]

\* Status entries: group g of the swap, 1 .. 3N in the order they run.
Groups == 1 .. 3 * N
GroupSector(g) == N - (g - 1) \div 3
GroupStep(g) == ((g - 1) % 3) + 1

Kinds == {"perm", "test", "revert"}
ErasedStatus == [kind |-> E, done |-> {}]

Flash == [slot0 : [1 .. N -> Content], slot1 : [1 .. N -> Content],
          scratch : Content, tr0 : Trailer, tr1 : Trailer,
          st : [kind : {E} \cup Kinds, done : SUBSET Groups]]

(***************************************************************************)
(* Flash operations.  A location is a slot sector or the scratch sector.  *)
(***************************************************************************)
Loc(a, k) == [area |-> a, k |-> k]
Scratch == Loc("scratch", 0)

EraseOp(u) == [op |-> "erase", unit |-> u, src |-> Scratch, field |-> ""]
CopyOp(from, to) == [op |-> "copy", unit |-> to, src |-> from, field |-> ""]
WriteOp(u, f) == [op |-> "write", unit |-> u, src |-> Scratch, field |-> f]
StatusOp(g) == [op |-> "status", unit |-> Loc("st", g), src |-> Scratch, field |-> ""]
KindOp(kind) == [op |-> "kind", unit |-> Loc("st", 0), src |-> Scratch, field |-> kind]

Get(f, l) == IF l.area = "scratch" THEN f.scratch ELSE f[l.area][l.k]

Put(f, l, v) ==
    IF l.area = "scratch" THEN [f EXCEPT !.scratch = v]
    ELSE [f EXCEPT ![l.area][l.k] = v]

\* Whether the target of an operation is still erased (write_safe).
Writable(f, o) ==
    CASE o.op = "copy"   -> Get(f, o.unit) = Blank
      [] o.op = "write"  -> f[o.unit.area][o.field] = E
      [] o.op = "status" -> o.unit.k \notin f.st.done
      [] o.op = "kind"   -> f.st.kind = E
      [] OTHER           -> TRUE

Apply(f, o) ==
    CASE o.op = "erase" ->
            IF o.unit.area \in {"tr0", "tr1"} THEN [f EXCEPT ![o.unit.area] = ErasedTrailer]
            ELSE IF o.unit.area = "st" THEN [f EXCEPT !.st = ErasedStatus]
            ELSE Put(f, o.unit, Blank)
      [] o.op = "copy"   -> Put(f, o.unit, Get(f, o.src))
      [] o.op = "write"  -> [f EXCEPT ![o.unit.area][o.field] = Set]
      [] o.op = "status" -> [f EXCEPT !.st.done = @ \cup {o.unit.k}]
      [] o.op = "kind"   -> [f EXCEPT !.st.kind = o.field]

(***************************************************************************)
(* The plan of a boot.                                                     *)
(***************************************************************************)
GroupOps(g) ==
    LET k == GroupSector(g) IN
    CASE GroupStep(g) = 1 ->
            <<EraseOp(Scratch), CopyOp(Loc("slot1", k), Scratch), StatusOp(g)>>
      [] GroupStep(g) = 2 ->
            <<EraseOp(Loc("slot1", k)), CopyOp(Loc("slot0", k), Loc("slot1", k)), StatusOp(g)>>
      [] GroupStep(g) = 3 ->
            <<EraseOp(Loc("slot0", k)), CopyOp(Scratch, Loc("slot0", k)), StatusOp(g)>>

\* The groups from g to the last.
SwapFrom(g) == FlattenSeq([i \in 1 .. 3 * N - g + 1 |-> GroupOps(g + i - 1)])

\* The closing writes, skipping trailer fields already written (t).
EndOps(kind, t) ==
    <<EraseOp(Loc("tr1", 0))>>
    \o (IF t.magic = E THEN <<WriteOp(Loc("tr0", 0), "magic")>> ELSE <<>>)
    \o (IF kind # "test" /\ t.image_ok = E
           THEN <<WriteOp(Loc("tr0", 0), "image_ok")>> ELSE <<>>)
    \o (IF t.copy_done = E THEN <<WriteOp(Loc("tr0", 0), "copy_done")>> ELSE <<>>)
    \o <<EraseOp(Loc("st", 0))>>

StartOps(kind) ==
    <<KindOp(kind), EraseOp(Loc("tr0", 0))>> \o SwapFrom(1) \o EndOps(kind, ErasedTrailer)

\* The signature check of the slot1 image (TLV): no badly signed sector.
ValidSlot1(f) == \A k \in 1 .. N : f.slot1[k] # BadSig[k]

\* First status entry not yet written, 3N + 1 when all are.
NextGroup(f) == IF f.st.done = Groups THEN 3 * N + 1
                ELSE CHOOSE g \in Groups \ f.st.done : \A h \in 1 .. g - 1 : h \in f.st.done

ResumeOps(f) ==
    LET kind == f.st.kind
        g == NextGroup(f)
    IN CASE f.st.done = {} -> <<EraseOp(Loc("tr0", 0))>> \o SwapFrom(1)
                                  \o EndOps(kind, ErasedTrailer)
         [] g <= 3 * N     -> SwapFrom(g) \o EndOps(kind, ErasedTrailer)
         [] OTHER          -> EndOps(kind, f.tr0)

Plan(f) ==
    CASE f.st.kind # E -> ResumeOps(f)
      [] f.tr1.magic = Set ->
            IF ValidSlot1(f)
            THEN StartOps(IF f.tr1.image_ok = Set THEN "perm" ELSE "test")
            ELSE <<>>
      [] f.tr0.magic = Set /\ f.tr0.image_ok = E /\ f.tr0.copy_done = Set ->
            StartOps("revert")
      [] OTHER -> <<>>

(***************************************************************************)
(* boot_go as steps: start, one step per flash operation, return.         *)
(***************************************************************************)
BootStart(c) ==
    /\ fault = "none"
    /\ ~booting
    /\ booting' = TRUE
    /\ plan' = Plan(fl)
    /\ counter' = c
    /\ UNCHANGED <<fl, result, fault>>

BootOp ==
    /\ fault = "none"
    /\ booting
    /\ plan # <<>>
    /\ counter' = counter - 1
    /\ IF counter - 1 = 0
       THEN /\ booting' = FALSE
            /\ result' = Interrupted
            /\ UNCHANGED <<fl, plan, fault>>
       ELSE IF ~Writable(fl, Head(plan))
       THEN /\ fault' = "Write to unerased location"
            /\ UNCHANGED <<fl, plan, booting, result>>
       ELSE /\ fl' = Apply(fl, Head(plan))
            /\ plan' = Tail(plan)
            /\ UNCHANGED <<booting, result, fault>>

BootReturn ==
    /\ fault = "none"
    /\ booting
    /\ plan = <<>>
    /\ booting' = FALSE
    /\ result' = 0
    /\ UNCHANGED <<fl, plan, counter, fault>>

BootNext == BootOp \/ BootReturn

\* The bootloader's part of a type invariant.
BootTypeOK ==
    /\ fl \in Flash
    /\ booting \in BOOLEAN
    /\ counter \in Int
    /\ result \in {0, Interrupted}
=============================================================================
