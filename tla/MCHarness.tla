----------------------------- MODULE MCHarness -----------------------------
(* Harness on the scenarios of run_single; its cfg gives N and RandomFails. *)
EXTENDS Harness

MCScenarios == {"signfail_upgrade", "norevert_newimage", "basic_revert",
                "revert_with_fails", "perm_with_fails", "perm_with_random_fails",
                "norevert"}
=============================================================================
