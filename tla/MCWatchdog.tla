----------------------------- MODULE MCWatchdog -----------------------------
(* Instances of Watchdog: with and without an integrity manifest.            *)
EXTENDS Watchdog

EitherManifest == {None, BuildVersion}
FirstRelease   == {BuildVersion}
=============================================================================
