------------------------------ MODULE Harness ------------------------------
(***************************************************************************)
(* The upgrade test harness of sim/src/lib.rs: the Images fixture and the  *)
(* run_* scenarios of RunStatus::run_single, run against the bootloader of *)
(* BootGo.  A scenario is a script of instructions, each one a statement   *)
(* of the Rust code (install_image, mark_upgrade, a boot_go call, a        *)
(* verify_image or verify_trailer and what the caller does with it), run   *)
(* one per step; a boot_go call then runs its flash operations as BootGo   *)
(* steps.  A loop over independent trials on fresh clones of the fixture   *)
(* (for i in 1 .. total_flash_ops) is one trial chosen by \E: every trial  *)
(* is explored, and the loop fails exactly when one of its trials does.    *)
(* The bootloader is built with swap upgrades (Caps::SwapUpgrade present,  *)
(* not overwrite-only) and without validate-slot0.                         *)
(***************************************************************************)
EXTENDS BootGo

CONSTANTS
    Scenarios,      \* the run_* scenarios explored
    RandomFails     \* total_fails of run_perm_with_random_fails (5 in run_single)

VARIABLES
    scn,            \* the scenario being run
    script,         \* the harness statements still to run
    fails,          \* the scenario's `fails` count
    base,           \* Images.flash, the fixture each trial clones
    total,          \* Images.total_count
    interrupted,    \* try_upgrade's first_interrupted
    count,          \* try_upgrade's count
    remaining,      \* try_random_fails's remaining_ops
    reset           \* try_random_fails's reset_counter

vars == <<bootVars, scn, script, fails, base, total, interrupted, count,
          remaining, reset>>

Unchecked == "any"        \* None in a verify_trailer argument

\* A slot holding no image.
NoImage == [k \in 1 .. N |-> Blank]

(***************************************************************************)
(* Harness statements.                                                     *)
(***************************************************************************)
Ins(d) == [do |-> d, slot |-> 0, img |-> Primary, c |-> 0,
           ok |-> {}, msg |-> "", tr |-> <<Unchecked, Unchecked, Unchecked>>]
Install(img)        == [Ins("install") EXCEPT !.img = img]
SetBase             == Ins("set_base")
Clone               == Ins("clone")
MarkUpgrade(s)      == [Ins("mark_upgrade") EXCEPT !.slot = s]
MarkPermanent(s)    == [Ins("mark_permanent") EXCEPT !.slot = s]
Boot(c)             == [Ins("boot") EXCEPT !.c = c]
BootReset           == Ins("boot_reset")
Expect(ok)          == [Ins("expect") EXCEPT !.ok = ok]
Require(ok, msg)     == [Ins("require") EXCEPT !.ok = ok, !.msg = msg]
VerifyImage(s, img) == [Ins("verify_image") EXCEPT !.slot = s, !.img = img]
VerifyTrailer(s, m, o, d) == [Ins("verify_trailer") EXCEPT !.slot = s, !.tr = <<m, o, d>>]
Trial(d)            == Ins(d)

Unset == <<E, E, E>>

(***************************************************************************)
(* try_upgrade(flash, images, stop): mark slot1 permanent on a clone, boot *)
(* with counter = stop (0 for None); an interrupted boot is resumed with   *)
(* counter 0 and must then complete; any other return panics.  Its count   *)
(* is only kept by run_basic_upgrade.                                      *)
(***************************************************************************)
TryUpgrade(stop) ==
    << Clone, MarkPermanent(1), Boot(stop),
       [Ins("first_result") EXCEPT !.c = stop], Ins("resume") >>

\* run_basic_upgrade, as make_image calls it: the count becomes total_count.
RunBasicUpgrade ==
    TryUpgrade(0) \o << Ins("set_total"), Ins("basic_verify") >>

\* Run::make_no_upgrade_image: install primary in slot0, the upgrade in slot1.
MakeNoUpgradeImage(img1) == << Install(img1), SetBase >>

\* Run::make_image: also mark slot1 for upgrade, then count a clean upgrade.
MakeImage == << Install(Upgrade), MarkUpgrade(1), SetBase >> \o RunBasicUpgrade

\* One trial i of run_perm_with_fails.
PermWithFails(i) ==
    TryUpgrade(i)
    \o << VerifyImage(0, Upgrade), VerifyTrailer(0, Set, Set, Set),
          VerifyTrailer(1, E, E, E), VerifyImage(1, Primary) >>

\* try_revert_with_fail_at(flash, images, stop).
TryRevertWithFailAt(i) ==
    << Clone, Boot(i), Expect({Interrupted}), VerifyTrailer(0, Unchecked, Unchecked, E),
       Boot(0), Expect({0}),
       VerifyImage(0, Upgrade), VerifyImage(1, Primary),
       VerifyTrailer(0, Set, E, Set), VerifyTrailer(1, E, E, E),
       Boot(0), Expect({0}),
       VerifyImage(0, Primary), VerifyImage(1, Upgrade),
       VerifyTrailer(0, Set, Set, Set), VerifyTrailer(1, E, E, E) >>

\* try_revert(flash, areadesc, count): count clean boots, each asserted.
TryRevert(n) ==
    <<Clone>> \o FlattenSeq([j \in 1 .. n |->
                     << Boot(0), Require({0}, "assertion failed: boot_go == (0, 0)") >>])
              \o << VerifyImage(0, Primary) >>

\* try_random_fails(flash, images, total_ops, count).
TryRandomFails ==
    << Clone, MarkPermanent(1), Ins("init_remaining") >>
    \o FlattenSeq([j \in 1 .. RandomFails |->
          << Ins("draw"), BootReset,
             Require({0, Interrupted}, "Unknown return"), Ins("sub_remaining") >>])
    \o << Boot(0), Require({0}, "Should not be have been interrupted!") >>

\* run_perm_with_random_fails(total_fails): both images, then both trailers.
RunPermWithRandomFails ==
    TryRandomFails
    \o << Ins("random_verify"),
          VerifyTrailer(0, Set, Set, Set), VerifyTrailer(1, E, E, E) >>

\* run_norevert.
RunNorevert ==
    << Clone, Boot(0), Expect({0}),
       VerifyImage(0, Upgrade), VerifyTrailer(0, Set, E, Set), VerifyTrailer(1, E, E, E),
       MarkPermanent(0), VerifyTrailer(0, Set, Set, Set),
       Boot(0), Expect({0}),
       VerifyTrailer(0, Set, Set, Set), VerifyImage(0, Upgrade) >>

\* run_norevert_newimage, on make_no_upgrade_image's fixture.
RunNorevertNewimage ==
    << Clone, MarkUpgrade(0), VerifyTrailer(0, Set, E, E),
       Boot(0), Expect({0}),
       VerifyImage(0, Primary), VerifyTrailer(0, Set, E, E), VerifyTrailer(1, E, E, E) >>

\* run_signfail_upgrade, on make_bad_slot1_image's fixture.
RunSignfailUpgrade ==
    << Clone, MarkUpgrade(0), MarkPermanent(0), MarkUpgrade(1),
       VerifyTrailer(0, Set, Set, E),
       Boot(0), Expect({0}),
       VerifyImage(0, Primary), VerifyTrailer(0, Set, Set, E) >>

\* The script of each scenario, from its fixture on.
ScenarioScript(s) ==
    CASE s = "signfail_upgrade"      -> MakeNoUpgradeImage(BadSig) \o RunSignfailUpgrade
      [] s = "norevert_newimage"     -> MakeNoUpgradeImage(Upgrade) \o RunNorevertNewimage
      [] s = "basic_revert"          -> MakeImage \o << Trial("basic_revert") >>
      [] s = "revert_with_fails"     -> MakeImage \o << Trial("revert_with_fails") >>
      [] s = "perm_with_fails"       -> MakeImage \o << Trial("perm_with_fails") >>
      [] s = "perm_with_random_fails" -> MakeImage \o RunPermWithRandomFails
      [] s = "norevert"              -> MakeImage \o RunNorevert

(***************************************************************************)
(* The harness state between statements.                                   *)
(***************************************************************************)
\* Run.flash: the erased device, before any image is installed.
EmptyFlash ==
    [slot0 |-> NoImage, slot1 |-> NoImage, scratch |-> Blank,
     tr0 |-> ErasedTrailer, tr1 |-> ErasedTrailer, st |-> ErasedStatus]

\* install_image of the primary into slot0 and of img1 into slot1.
Installed(img1) == [EmptyFlash EXCEPT !.slot0 = Primary, !.slot1 = img1]

TrailerOf(s) == IF s = 0 THEN "tr0" ELSE "tr1"
SlotOf(s) == IF s = 0 THEN "slot0" ELSE "slot1"

\* verify_trailer: every field given (not None) must match.
TrailerMatches(t, want) ==
    /\ want[1] \in {Unchecked, t.magic}
    /\ want[2] \in {Unchecked, t.image_ok}
    /\ want[3] \in {Unchecked, t.copy_done}

HarnessPanic(msg) ==
    /\ fault' = msg
    /\ UNCHANGED <<fl, plan, booting, counter, result, script, fails, base, total,
                   interrupted, count, remaining, reset>>

\* mark_upgrade / mark_permanent_upgrade: flash.write(..).unwrap().
Mark(s, field) ==
    IF fl[TrailerOf(s)][field] # E
    THEN HarnessPanic("Write to unerased location")
    ELSE /\ fl' = [fl EXCEPT ![TrailerOf(s)][field] = Set]
         /\ script' = Tail(script)
         /\ UNCHANGED <<plan, booting, counter, result, fault, fails, base, total,
                        interrupted, count, remaining, reset>>

\* A statement that only moves the script on, with the given updates.
Step(updates) ==
    /\ updates
    /\ script' = Tail(script)

Count(bad) == fails' = IF bad THEN fails + 1 ELSE fails

\* try_upgrade's count, from the first boot_go's counter with its sign kept.
FirstResultNoNegate(stop) ==
    /\ interrupted' = (result = Interrupted)
    /\ count' = IF result = Interrupted THEN stop ELSE counter
    /\ script' = Tail(script)
    /\ UNCHANGED <<bootVars, fails, base, total, remaining, reset>>

\* try_upgrade's first boot_go, given counter = stop: an interruption counts
\* stop operations, a completed boot the -counter it counted down from 0.
FirstResult(stop) ==
    /\ interrupted' = (result = Interrupted)
    /\ count' = IF result = Interrupted THEN stop ELSE -counter
    /\ script' = Tail(script)
    /\ UNCHANGED <<bootVars, fails, base, total, remaining, reset>>

\* try_upgrade's second boot_go, with the counter reset to 0 (None).
ResumeBootKeepsCounter ==
    /\ BootStart(count)
    /\ script' = << Require({0}, "Shouldn't stop again") >> \o Tail(script)

ResumeBoot ==
    /\ BootStart(0)
    /\ script' = << Require({0}, "Shouldn't stop again") >> \o Tail(script)

Exec ==
    LET ins == Head(script) IN
    /\ fault = "none"
    /\ ~booting
    /\ script # <<>>
    /\ CASE ins.do = "install" ->
              Step(fl' = Installed(ins.img)) /\ UNCHANGED <<plan, booting, counter,
                  result, fault, fails, base, total, interrupted, count, remaining, reset>>
          [] ins.do = "set_base" ->
              Step(base' = fl) /\ UNCHANGED <<bootVars, fails, total, interrupted,
                  count, remaining, reset>>
          [] ins.do = "clone" ->
              Step(fl' = base) /\ UNCHANGED <<plan, booting, counter, result, fault,
                  fails, base, total, interrupted, count, remaining, reset>>
          [] ins.do = "mark_upgrade" -> Mark(ins.slot, "magic")
          [] ins.do = "mark_permanent" -> Mark(ins.slot, "image_ok")
          [] ins.do \in {"boot", "boot_reset"} ->
              /\ BootStart(IF ins.do = "boot" THEN ins.c ELSE reset)
              /\ script' = Tail(script)
              /\ UNCHANGED <<fails, base, total, interrupted, count, remaining, reset>>
          [] ins.do = "first_result" ->
              IF result \notin {0, Interrupted} THEN HarnessPanic("Unknown return")
              ELSE FirstResult(ins.c)
          [] ins.do = "resume" ->
              IF interrupted
              THEN ResumeBoot /\ UNCHANGED <<fails, base, total, interrupted, count,
                                              remaining, reset>>
              ELSE Step(counter' = 0) /\ UNCHANGED <<fl, plan, booting, result, fault,
                       fails, base, total, interrupted, count, remaining, reset>>
          [] ins.do = "set_total" ->
              Step(total' = count - counter) /\ UNCHANGED <<bootVars, fails, base,
                  interrupted, count, remaining, reset>>
          [] ins.do = "basic_verify" ->
              IF fl.slot0 # Upgrade THEN HarnessPanic("Unable to perform basic upgrade")
              ELSE Step(UNCHANGED bootVars) /\ UNCHANGED <<fails, base, total,
                       interrupted, count, remaining, reset>>
          [] ins.do = "expect" ->
              Step(Count(result \notin ins.ok)) /\ UNCHANGED <<bootVars, base, total,
                  interrupted, count, remaining, reset>>
          [] ins.do = "require" ->
              IF result \notin ins.ok THEN HarnessPanic(ins.msg)
              ELSE Step(UNCHANGED bootVars) /\ UNCHANGED <<fails, base, total,
                       interrupted, count, remaining, reset>>
          [] ins.do = "verify_image" ->
              Step(Count(fl[SlotOf(ins.slot)] # ins.img))
              /\ UNCHANGED <<bootVars, base, total, interrupted, count, remaining, reset>>
          [] ins.do = "verify_trailer" ->
              Step(Count(~TrailerMatches(fl[TrailerOf(ins.slot)], ins.tr)))
              /\ UNCHANGED <<bootVars, base, total, interrupted, count, remaining, reset>>
          [] ins.do = "random_verify" ->
              Step(Count(fl.slot0 # Upgrade \/ fl.slot1 # Primary))
              /\ UNCHANGED <<bootVars, base, total, interrupted, count, remaining, reset>>
          [] ins.do = "init_remaining" ->
              Step(remaining' = total) /\ UNCHANGED <<bootVars, fails, base, total,
                  interrupted, count, reset>>
          [] ins.do = "draw" ->
              IF 1 >= remaining \div 2
              THEN HarnessPanic("Range::new called with low >= high")
              ELSE /\ \E r \in 1 .. remaining \div 2 - 1 : Step(reset' = r)
                   /\ UNCHANGED <<bootVars, fails, base, total, interrupted, count, remaining>>
          [] ins.do = "sub_remaining" ->
              Step(remaining' = remaining - reset) /\ UNCHANGED <<bootVars, fails, base,
                  total, interrupted, count, reset>>
          [] OTHER -> FALSE

\* The loop of independent trials: one trial, chosen among all of them.
\* try_revert_with_fail_at over 1 .. total_count, the test upgrade's own op count.
TrialRangeRevertFull(d) ==
    CASE d = "perm_with_fails"   -> {PermWithFails(i) : i \in 1 .. total - 1}
      [] d = "revert_with_fails" -> {TryRevertWithFailAt(i) : i \in 1 .. total - 1}
      [] d = "basic_revert"      -> {TryRevert(c) : c \in 2 .. 4}

TrialRange(d) ==
    CASE d = "perm_with_fails"   -> {PermWithFails(i) : i \in 1 .. total - 1}
      [] d = "revert_with_fails" -> {TryRevertWithFailAt(i) : i \in 1 .. total - 2}
      [] d = "basic_revert"      -> {TryRevert(c) : c \in 2 .. 4}

RunTrial ==
    /\ fault = "none"
    /\ ~booting
    /\ script # <<>>
    /\ Head(script).do \in {"perm_with_fails", "revert_with_fails", "basic_revert"}
    /\ \/ \E t \in TrialRange(Head(script).do) : script' = t \o Tail(script)
       \/ TrialRange(Head(script).do) = {} /\ script' = Tail(script)
    /\ UNCHANGED <<bootVars, scn, fails, base, total, interrupted, count, remaining, reset>>

Init ==
    /\ scn \in Scenarios
    /\ script = ScenarioScript(scn)
    /\ fl = EmptyFlash
    /\ plan = <<>>
    /\ booting = FALSE
    /\ counter = 0
    /\ result = 0
    /\ fault = "none"
    /\ fails = 0
    /\ base = EmptyFlash
    /\ total = 0
    /\ interrupted = FALSE
    /\ count = 0
    /\ remaining = 0
    /\ reset = 0

Next ==
    \/ Exec /\ UNCHANGED scn
    \/ RunTrial
    \/ BootNext /\ UNCHANGED <<scn, script, fails, base, total, interrupted, count,
                               remaining, reset>>

\* run_single is one thread running one statement after another: while it has
\* a statement left and has not panicked, it takes its next step.
Spec == Init /\ [][Next]_vars /\ WF_vars(Next)

(***************************************************************************)
(* Properties.                                                             *)
(***************************************************************************)
TypeOK ==
    /\ BootTypeOK
    /\ base \in Flash
    /\ interrupted \in BOOLEAN
    /\ fails \in Nat /\ total \in Nat /\ count \in Int
    /\ remaining \in Nat /\ reset \in Nat

\* Every scenario runs to its end without a panic: no harness mark lands on
\* trailer bytes already written (mark_upgrade / mark_permanent_upgrade
\* unwrap the write), no boot_go rewrites an unerased location,
\* try_upgrade's resumed boot is never interrupted again, make_image's clean
\* upgrade succeeds, and try_random_fails never calls Range::new with an
\* empty range.
Finished == script = <<>> /\ ~booting /\ fault = "none"

ScenarioCompletes == <>Finished

\* A scenario that runs to its end counts no failure: every verify_image,
\* verify_trailer and expected boot_go result of run_single's scenarios
\* agrees with what a resumable swap bootloader leaves on the flash.
ScenarioPasses == (script = <<>> /\ ~booting) => fails = 0
=============================================================================
