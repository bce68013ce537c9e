------------------------------ MODULE MCService ------------------------------
(* One scenario per kind of file: licences that lapse and are renewed, a    *)
(* configuration being edited, a CA key under changing secrets, and ports   *)
(* and binaries changed by others.                                          *)
EXTENDS Service

MCDefaultConfig == [retention |-> 90, upstream |-> "default"]
C(days, upstream) == [retention |-> days, upstream |-> upstream]

Claims(expiry, grace, issued, offline, machine, features) ==
  [expiry |-> expiry, grace_period_days |-> grace, issued_at |-> issued,
   max_offline_days |-> offline, machine_fingerprint |-> machine,
   features |-> features]
L(claims) == FileOf([claims |-> claims, signature_ok |-> TRUE])

Full == {BROWSER_COVERAGE, OCR, RESPONSE_SCANNING}
ProxyOnly == {RESPONSE_SCANNING}

MCLicences ==
  { Absent, Torn,
    L(Claims(1, Some(1), None, None, None, Full)),
    L(Claims(3, None, Some(0), Some(1), Some("here"), Full)),
    L(Claims(3, Some(0), Some(1), Some(1), None, ProxyOnly)),
    L(Claims(3, None, None, Some(1), Some("elsewhere"), Full)),
    FileOf([claims |-> Claims(3, None, None, None, None, Full), signature_ok |-> FALSE]) }

Scenario ==
  [licences |-> {Absent}, configs |-> {}, secrets |-> {Some("s1")}, overrides |-> {None}, ports |-> FALSE,
   addresses |-> {{}}, failures |-> {{}}]

MCWorkloads ==
  { [Scenario EXCEPT !.licences = MCLicences],
    [Scenario EXCEPT !.configs = {C(90, "a"), C(30, "a"), C(7, "b")}, !.overrides = {None, Some(1)}],
    [Scenario EXCEPT !.secrets = {None, Some("s1"), Some("s2")}],
    [Scenario EXCEPT !.licences = {L(Claims(3, None, None, None, None, f)) : f \in {Full, ProxyOnly}},
                     !.addresses = {{}, {"metrics"}, {"connect_proxy"}, {"local_api"}},
                     !.failures = {{}, {"ca_key"}, {"root_cert"}}],
    [Scenario EXCEPT !.ports = TRUE, !.licences = {L(Claims(3, None, None, None, None, ProxyOnly)), Absent}] }
=============================================================================
