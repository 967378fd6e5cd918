--------------------------- MODULE MCHttpService ---------------------------
(* HttpService with two history variables: what has been in the cache all    *)
(* through a request, and what has been there at some moment of it.          *)
EXTENDS HttpService

Durations == {-1, 0, 1}

VARIABLES
  steady,  \* steady[c]: uids cached ever since c's request was read
  seen     \* seen[c]: uids cached at some moment since then

mcVars == <<vars, steady, seen>>

\* The uids that c's request is about.
About(r) == IF r.op \in {"get", "delete"} THEN {r.uid} ELSE IF r.op = "clear" THEN Uid ELSE {}

MCInit ==
  /\ Init
  /\ steady = [c \in Client |-> {}]
  /\ seen = [c \in Client |-> {}]

Begun(c) == req[c].op # "none"

MCNext ==
  /\ Next
  /\ steady' = [c \in Client |->
       About(req'[c]) \cap cached' \cap (IF Begun(c) THEN steady[c] ELSE cached)]
  /\ seen' = [c \in Client |->
       About(req'[c]) \cap (cached' \cup (IF Begun(c) THEN seen[c] ELSE cached))]

MCSpec == MCInit /\ [][MCNext]_mcVars /\ Fairness

\* What a handler answers has been so at some moment of the request: the order
\* was there (200), it was not (404), or it is gone (200 of a DELETE), though
\* the DELETE looks first and removes later, beside other requests, the
\* consumer, the cache's own removals and the closing of the cache.
AnswersHonest ==
  [][\A c \in Client :
       /\ HandleGetOrder(c, 200) => req[c].uid \in seen[c]
       /\ HandleGetOrder(c, 404) \/ DeleteUnanswered(c, 404) => req[c].uid \notin steady[c]
       /\ DeleteRemove(c, 200) => req[c].uid \in seen[c] /\ steady[c] \cap cached' = {}
       /\ HandleClearOrders(c, 200) => steady[c] \cap cached' = {}]_mcVars
=============================================================================
