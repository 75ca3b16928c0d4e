-------------------------------- MODULE Wire --------------------------------
(***************************************************************************)
(* The requests a page has outstanding, in the order it made them.  The    *)
(* server takes them up in any order, an answer is received any time after *)
(* that, and a request or its answer may be lost: a call of the api object *)
(* then rejects, and the page cannot tell which of the two it was.  A page *)
(* that no longer listens for an answer ("ignore", "cancelled") has no     *)
(* request here any more, unless the request changes something.            *)
(***************************************************************************)
EXTENDS Naturals, Sequences, FiniteSets

(* is: "sent", then what the call settles with: "ok", "invalid" (400, 422),*)
(* "refused" (403, 404, 409) or "lost" (no answer, 5xx).                   *)
Call(kind, arg) == [kind |-> kind, arg |-> arg, is |-> "sent", answer |-> {}]

Send(w, kind, arg) == Append(w, Call(kind, arg))

(* Those requests at the places in S, in their order.                      *)
Place(S, n) == CHOOSE i \in S : Cardinality({j \in S : j <= i}) = n
Sift(w, S) == [n \in 1..Cardinality(S) |-> w[Place(S, n)]]

(* The page listens for some kinds of answer only.                         *)
Only(w, kinds) == Sift(w, {i \in DOMAIN w : w[i].kind \in kinds})

(* The page stops listening for a kind of answer.                          *)
Ignore(w, kind) == Sift(w, {i \in DOMAIN w : w[i].kind # kind})

(* An effect that runs again: its cleanup, then its new request.           *)
SendAgain(w, kind, arg) == Send(Ignore(w, kind), kind, arg)

Ok(w, i, a) == [w EXCEPT ![i].is = "ok", ![i].answer = {a}]
Settle(w, i, status) == [w EXCEPT ![i].is = status]

Waiting(w) == {i \in DOMAIN w : w[i].is = "sent"}
Settled(w) == {i \in DOMAIN w : w[i].is # "sent"}

Data(r) == CHOOSE a \in r.answer : TRUE

Received(w, i) == SubSeq(w, 1, i - 1) \o SubSeq(w, i + 1, Len(w))

Out(w, kinds) == \E i \in DOMAIN w : w[i].kind \in kinds
=============================================================================
