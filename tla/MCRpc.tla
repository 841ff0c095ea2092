------------------------------- MODULE MCRpc --------------------------------
(***************************************************************************)
(* The server with a request of one block and one that fills the buffer to *)
(* its last byte and exceeds it, with a zero byte and a length that is no  *)
(* number; each arrives in pieces of any size.  Two handlers stop at the   *)
(* first, of which one has a big response; that of the second throws past  *)
(* its wrapper.  There is a descriptor for each connection, or only one.   *)
(***************************************************************************)
EXTENDS RpcServer

MCMessage == [a |-> <<"get">>, b |-> <<"post", Nul, BadLength>>]

MCClients == DOMAIN MCMessage

MCLines ==
    [get |-> [method |-> "GET", url |-> "/a"],
     post |-> [method |-> "POST", url |-> "/b"]]

MCHandler(method, urls, does, proto, big) ==
    [method |-> method, urls |-> urls, does |-> does, code |-> 200,
     raw |-> does = "nothing", proto |-> proto, regex |-> method # "PUT", big |-> big]

MCHandlers ==
    <<MCHandler("PUT", {}, "returns", FALSE, FALSE),
      MCHandler("GET", {"/b"}, "nothing", FALSE, FALSE),
      MCHandler("PATCH", {"/a", "/b"}, "throws_proto", TRUE, FALSE),
      MCHandler("GET", {"/a", "/b"}, "throws", FALSE, TRUE),
      MCHandler("GET", {"/a"}, "expired", FALSE, FALSE),
      MCHandler("POST", {"/b"}, "throws_bytes", FALSE, FALSE)>>

MCNotFound ==
    [does |-> "returns", code |-> 404, raw |-> FALSE, proto |-> FALSE, big |-> FALSE]

=============================================================================
