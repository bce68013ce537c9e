-------------------------- MODULE MCConnectTunnel ---------------------------
(* Two requests down one tunnel, in every framing, with a body at and over   *)
(* the limit, to a listed host, a name below it and a stranger.              *)
EXTENDS ConnectTunnel

MCHosts == {<<"chat", "acme", "ai">>, <<"x", "ai">>}

P(p, domains) == p @@ [domains |-> domains]
Strict == [default_policy EXCEPT !.actions["Secret"] = "RequireApproval",
                                 !.uploads = [e \in {"exe", "log"} |-> IF e = "exe" THEN "Block" ELSE "Allow"]]
Lax == [default_policy EXCEPT !.detectors["Secret"] = FALSE, !.actions["Pii"] = "Warn"]
MCPolicies == {P(Strict, {<<"acme", "ai">>}), P(Lax, {<<"acme", "ai">>}), P(Lax, {})}

Piece(T) == Unit("", "text", T)
File(ext, shape, T) == Unit(ext, shape, T)

Q(id, framing, multipart, body) ==
  [start_line |-> StartLine(id, {}), framing |-> framing, multipart |-> multipart, body |-> body]

MCFirst ==
  { Q("q1", "none", FALSE, << >>),
    Q("q1", "length", FALSE, << Piece({"Pii"}), Piece({"Toxicity"}) >>),
    Q("q1", "chunked", FALSE, << Piece({"Secret"}) >>),
    Q("q1", "chunked", FALSE, << Piece({}), Piece({}), Piece({}) >>),
    Q("q1", "length", FALSE, << Piece({}), Piece({}), Unit("", "break", {"Pii"}) >>),
    Q("q1", "length", FALSE, << Piece({}), Piece({}), Piece({"Secret"}) >>),
    Q("q1", "length", TRUE, << Piece({}), Piece({}), File("pdf", "unreadable", {"Secret"}) >>),
    Q("q1", "length", TRUE, << Piece({}), File("pdf", "text", {"Secret"}) >>),
    Q("q1", "length", TRUE, << Piece({}), File("exe", "text", {}) >>),
    Q("q1", "length", TRUE, << File("log", "text", {"Secret"}), Piece({"Pii"}) >>),
    Q("q1", "length", TRUE, << File("pdf", "unreadable", {"Secret"}), Unit("", "cut", {"Pii"}) >>) }

Second(q1) ==
  {Q("q2", "length", FALSE, << Piece({"Secret"}) >>)}
    \cup IF q1.framing = "none" THEN {Q("q2", "none", FALSE, << >>)} ELSE {}

MCScripts == UNION {{<<q1, q2>> : q2 \in Second(q1)} : q1 \in MCFirst}

MCReplies ==
  { Q("a", "none", FALSE, << Piece({}), Piece({"Pii"}) >>),
    Q("a", "length", FALSE, << Piece({"Secret"}) >>),
    Q("a", "chunked", FALSE, << Piece({"Pii"}) >>) }
=============================================================================
