-------------------------- MODULE MCProxyPipeline ---------------------------
(* One request of each kind beside a tool call, with every way the multipart *)
(* loop, the providers and the sinks can go.                                 *)
EXTENDS ProxyPipeline

Base == [kind |-> "json", text |-> {}, encoded |-> FALSE, header |-> "", model |-> "gpt",
         stream |-> FALSE, translatable |-> TRUE]

F(ext, shape, T) == [ext |-> ext, shape |-> shape, text |-> T]
Parts(fs) == [kind |-> "multipart", boundary |-> TRUE, fields |-> fs]

Chat == {[Base EXCEPT !.text = T] : T \in {{}, {"Pii", "Toxicity"}, {"Secret"}}}
          \cup {[Base EXCEPT !.kind = "text", !.encoded = TRUE, !.text = {"Secret"}],
                [Base EXCEPT !.model = "claude", !.stream = TRUE],
                [Base EXCEPT !.model = "claude", !.header = "openai", !.translatable = FALSE],
                [kind |-> "unreadable"]}

Uploads ==
  { Parts(<< F("txt", "text", {"Secret"}), F("pdf", "text", {"Pii"}) >>),
    Parts(<< F("csv", "unsupported", {"Secret"}), F("", "text", {"Pii"}) >>),
    Parts(<< F("", "text", {"Toxicity"}), F("", "cut", {}), F("txt", "text", {"Secret"}) >>),
    [Parts(<< F("", "text", {"Secret"}) >>) EXCEPT !.boundary = FALSE] }

Mcp(tool) == [kind |-> "mcp", tool |-> tool, text |-> {}]

MCRequests ==
  [r \in Reqs |-> IF r = "tool" THEN {Mcp("shell")} ELSE Chat \cup Uploads \cup {Mcp("")}]

R(T, sse, large, complete, encoded) ==
  [text |-> T, sse |-> sse, large |-> large, complete |-> complete, encoded |-> encoded]
Answers ==
  { R({}, FALSE, FALSE, TRUE, FALSE), R({"Secret"}, FALSE, FALSE, TRUE, FALSE),
    R({"Pii"}, FALSE, FALSE, TRUE, FALSE), R({"Secret"}, FALSE, FALSE, TRUE, TRUE),
    R({"Pii"}, TRUE, FALSE, TRUE, FALSE), R({"Secret"}, FALSE, TRUE, FALSE, FALSE) }

MCReplies == [r \in Reqs |-> IF r = "tool" THEN {R({"Secret"}, FALSE, FALSE, TRUE, FALSE)} ELSE Answers]

Strict == [default_policy EXCEPT !.actions["Secret"] = "Block", !.uploads = [e \in {"txt"} |-> "Block"]]
Lax == [default_policy EXCEPT !.actions["Secret"] = "RequireApproval", !.detectors["Toxicity"] = FALSE,
                              !.uploads = [e \in {"txt", "pdf"} |-> IF e = "txt" THEN "Allow" ELSE "Block"]]
MCPolicies == {Strict, Lax}

C(storage, to_siem, enabled, firewall, upstream, providers) ==
  [storage |-> storage, siem |-> to_siem, mcp_enabled |-> enabled, firewall |-> firewall,
   mcp_upstream |-> upstream, providers |-> providers]
MCProviders == [n \in {"openai", "anthropic"} |-> IF n = "openai" THEN "Identity" ELSE "Unsupported"]
NoProviders == << >>
MCConfigs == { C(TRUE, TRUE, TRUE, TRUE, TRUE, MCProviders), C(TRUE, FALSE, TRUE, FALSE, FALSE, NoProviders),
               C(FALSE, TRUE, FALSE, TRUE, FALSE, NoProviders) }
MCTools == {"shell"}
=============================================================================
