----------------------------- MODULE CoapServer -----------------------------
(***************************************************************************)
(* The resources of a board's CoAP server (coap_handler.c) and how gcoap,  *)
(* a library, finds the handler of a request in them.                      *)
(***************************************************************************)
EXTENDS Naturals, Sequences

coap_resources ==
  <<"/.well-known/core", "/request/name", "/request/result",
    "/set/looser", "/set/winner", "/se-app/entries", "/start/game">>

\* What gcoap_register_listener() is given; the requests of the game master.
GamePaths ==
  {"/request/name", "/request/result", "/set/looser", "/set/winner", "/start/game"}

\* strcmp(): "-" comes before "t".
Sorted ==
  <<"/.well-known/core", "/request/name", "/request/result", "/se-app/entries",
    "/set/looser", "/set/winner", "/start/game">>

Rank(path) == CHOOSE i \in DOMAIN Sorted : Sorted[i] = path

\* The resource whose handler runs.  "must be sorted by path (alphabetically)"
\* (coap_handler.c 79): a gcoap that stopsEarly gives up at the first path that
\* sorts after the request's, any other looks at all of them.
Handler(path, stopsEarly) ==
  LET Found(i) ==
        /\ coap_resources[i] = path
        /\ stopsEarly => \A j \in 1 .. i - 1 : Rank(coap_resources[j]) < Rank(path)
  IN IF \E i \in DOMAIN coap_resources : Found(i) THEN path ELSE "4.04"
=============================================================================
