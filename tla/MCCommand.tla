----------------------------- MODULE MCCommand -----------------------------
(* Command with the answers and requests of one credential exchange.        *)
EXTENDS Command

AmpLines == {"username", "password", ""}
Limits == [outer |-> 1, inner |-> 3]
GitRequests == {<<"protocol", "host", "wwwauth[]", "wwwauth[]", "">>,
                <<"protocol", "host", "host">>}
============================================================================
