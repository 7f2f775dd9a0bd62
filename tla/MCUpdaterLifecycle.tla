------------------------- MODULE MCUpdaterLifecycle -------------------------
(* Small instances of UpdaterLifecycle: the launch goroutine, web requests.  *)
EXTENDS UpdaterLifecycle
=============================================================================
