---------------------------- MODULE MCStorefront ----------------------------
(* An order and two other writes against a queue of two; see README.        *)
EXTENDS Storefront

CONSTANTS w1, w2, w3

MCWrites == {w1, w2, w3}
MCOrders == {w1}
MCMode   == <<"", "full_service", "read_only", "static_fallback">>
=============================================================================
