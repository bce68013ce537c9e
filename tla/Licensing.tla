------------------------------ MODULE Licensing ------------------------------
(***************************************************************************)
(* The licence file and the features it turns on (crates/licensing).       *)
(*                                                                         *)
(* A licence is a record of claims; the fields that are Option in the code *)
(* are sequences of at most one element.  Time is counted in days.  A      *)
(* signature is abstracted to whether it verifies under the vendor's key,  *)
(* and the claims it covers to the ones below: the tenant, the seat and    *)
(* the e-mail address are only displayed.                                  *)
(***************************************************************************)
EXTENDS Integers, Sequences

None == <<>>
Some(x) == <<x>>

\* The features of the service that a licence switches (features::*).
BROWSER_COVERAGE == "browser_coverage"
OCR == "ocr"
RESPONSE_SCANNING == "response_scanning"

\* FeatureManager::UNLICENSED_COMMUNITY_FEATURES
UNLICENSED_COMMUNITY_FEATURES == {BROWSER_COVERAGE, OCR}

\* The last day `verify` lets the claims through for `expiry`: grace extends
\* the nominal date, and an unset grace period extends it by nothing.
hard_cutoff(claims) ==
  claims.expiry + (IF claims.grace_period_days = None THEN 0 ELSE claims.grace_period_days[1])

\* The lease only binds a licence that carries both of its fields.
lease_expired(claims, now) ==
  /\ claims.issued_at # None
  /\ claims.max_offline_days # None
  /\ claims.issued_at[1] + claims.max_offline_days[1] < now

locked_elsewhere(claims, here) ==
  claims.machine_fingerprint \notin {None, Some(here)}

\* Mutant: the expiry alone is trusted and the lease forgotten.
VerifyWithoutLease(signed, here, now) ==
  IF ~signed.signature_ok THEN "BadSignature"
  ELSE IF hard_cutoff(signed.claims) < now THEN "Expired"
  ELSE IF locked_elsewhere(signed.claims, here) THEN "FingerprintMismatch"
  ELSE "Ok"

\* LicenseVerifier::verify, in the order of its checks.  `signed` is the
\* claims with the signature's verdict.
verify(signed, here, now) ==
  IF ~signed.signature_ok THEN "BadSignature"
  ELSE IF hard_cutoff(signed.claims) < now THEN "Expired"
  ELSE IF lease_expired(signed.claims, now) THEN "LeaseExpired"
  ELSE IF locked_elsewhere(signed.claims, here) THEN "FingerprintMismatch"
  ELSE "Ok"

\* Mutant: a licence inside its grace period is taken for one in date.
GraceReadFromCutoff(claims, now) ==
  IF claims.grace_period_days = None THEN "NoGraceConfigured"
  ELSE IF hard_cutoff(claims) >= now THEN "NotExpired"
  ELSE "GracePeriodElapsed"

\* grace_status, which reads the clock again after `verify` has returned.
grace_status(claims, now) ==
  IF claims.grace_period_days = None THEN "NoGraceConfigured"
  ELSE IF claims.expiry >= now THEN "NotExpired"
  ELSE IF hard_cutoff(claims) < now THEN "GracePeriodElapsed"
  ELSE "InGrace"

\* FeatureManager: `claims` is the Option it holds.
is_enabled(claims, feature) ==
  feature \in IF claims = None THEN UNLICENSED_COMMUNITY_FEATURES
                               ELSE claims[1].features
=============================================================================
