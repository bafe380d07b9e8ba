---------------------------- MODULE MCHttpClient ----------------------------
(* HttpClient for TLC.                                                     *)
EXTENDS HttpClient

Get == [uri |-> "good", header |-> "good", head |-> FALSE]

\* One request of each kind the client refuses, and the two it makes.
MCCalls ==
    {Get, [Get EXCEPT !.head = TRUE]}
    \cup {[Get EXCEPT !.uri = u] : u \in {"scheme", "nohost", "userinfo"}}
    \cup {[Get EXCEPT !.header = h] : h \in {"framing", "notascii"}}

Plain == [status |-> "plain", fields |-> "good", lengths |-> {}]

\* Every length a server may promise, two that differ and one that is none.
MCResponses ==
    {[Plain EXCEPT !.lengths = l] :
        l \in {{}, {0, MaxResponse}, {Unparsable}} \cup {{n} : n \in 0..MaxResponse}}
    \cup {[Plain EXCEPT !.status = "bodiless", !.lengths = {MaxResponse}],
          [Plain EXCEPT !.status = "unknown"], [Plain EXCEPT !.fields = "malformed"]}
=============================================================================
