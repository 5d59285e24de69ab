----------------------------- MODULE SmlcSubscr -----------------------------
(***************************************************************************)
(* smlc_subscr.c: the subscribers, held by use counts.  A subscriber is in  *)
(* the list while something uses it, and is identified by its IMSI.         *)
(***************************************************************************)
EXTENDS SmlcData

SubscrTotal(use) == use["Lb-conn"] + use["smlc_loc_req_start"]

\* smlc_subscr_alloc() and the first smlc_subscr_get().
NewSubscr(token) == [t \in SubscrTokens |-> IF t = token THEN 1 ELSE 0]

\* smlc_subscr_get().
smlc_subscr_get(h, s, token) ==
    IF h.subscr[s] = NULL THEN Fault(h, "use after free")
    ELSE [h EXCEPT !.subscr[s][token] = @ + 1]

\* smlc_subscr_put() with smlc_subscr_use_cb(): a count below zero fails the
\* OSMO_ASSERT of the macro, the last use frees the subscriber.
smlc_subscr_put(h, s, token) ==
    IF h.subscr[s] = NULL THEN Fault(h, "use after free")
    ELSE LET use == [h.subscr[s] EXCEPT ![token] = @ - 1]
         IN  IF use[token] < 0 THEN Fault(h, "use count below zero")
             ELSE [h EXCEPT !.subscr[s] = IF SubscrTotal(use) = 0 THEN NULL ELSE use]

\* smlc_subscr_find_or_create().
smlc_subscr_find_or_create(h, s, token) ==
    IF s \in subscribers(h) THEN smlc_subscr_get(h, s, token)
    ELSE [h EXCEPT !.subscr[s] = NewSubscr(token)]
============================================================================
