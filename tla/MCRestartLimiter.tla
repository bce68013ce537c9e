-------------------------- MODULE MCRestartLimiter --------------------------
(* Instances of RestartLimiter: a machine that has just booted.              *)
EXTENDS RestartLimiter

AtBoot == 0
=============================================================================
