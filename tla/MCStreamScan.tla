---------------------------- MODULE MCStreamScan ----------------------------
(* Small bodies with one or two secrets anywhere in them.                    *)
EXTENDS StreamScan

Spans == {s \in [first : 1 .. Length, last : 1 .. Length, fixed : BOOLEAN] : s.first <= s.last}

\* Every single secret, and every pair of them; one of two bytes may be what
\* nothing replaces.
OneOrTwo == {{s, u} : s \in {x \in Spans : ~ x.fixed},
                      u \in {x \in Spans : x.fixed => x.last = x.first + 1}}
=============================================================================
