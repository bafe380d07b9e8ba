---------------------------- MODULE MCHttpServer ----------------------------
(* Two requests at a time against a service with one reservation.          *)
EXTENDS HttpServer

CONSTANTS r1, r2

MCReply(status, te, declared, exact) ==
    [status |-> status, te |-> te, declared |-> declared, exact |-> exact]

MCReplies == [r \in Requests |-> IF r \in HeadRequests THEN {MCReply("plain", FALSE, NoLen, 2)}
             ELSE {MCReply("plain", FALSE, NoLen, NoLen), MCReply("plain", FALSE, NoLen, 1),
                   MCReply("empty", FALSE, 2, NoLen), MCReply("plain", TRUE, NoLen, NoLen),
                   MCReply("plain", FALSE, BadLen, NoLen), MCReply("plain", FALSE, 1, 2)}]

\* A good head, and one with any one part bad.
MCHeads == [r \in Requests |->
    LET parts == {"method", "target", "name", "value"}
    IN {[p \in parts |-> p # bad] : bad \in parts \cup {"none"}}]

MCDrivers == {<<"serve", FALSE>>, <<"current", FALSE>>, <<"thread", TRUE>>, <<"spawn", FALSE>>}
=============================================================================
