-------------------------- MODULE MCManagedUpdater --------------------------
(***************************************************************************)
(* Two requests over one or two releases.                                  *)
(***************************************************************************)
EXTENDS ManagedUpdater, TLC

CONSTANTS first, second

TwoJobs == {first, second}
OneJob == {first}
OneRelease == {1}
TwoReleases == {1, 2}
Nothing == {}

AnyFault == {"lost", "unacknowledged"}
OnlyLost == {"lost"}

AnyOrder == Permutations(Jobs)
=============================================================================
