---------------------------- MODULE IdempotentKey ----------------------------
(***************************************************************************)
(* What the operation journal promises the clients of the gateway: the       *)
(* requests that carry one idempotency key have one result between them.     *)
(* Some request decides it, once; every other one that is answered gets that *)
(* result; a request whose payload differs from the decider's gets none.     *)
(***************************************************************************)
CONSTANTS Request,      \* HTTP attempts
          Key,          \* pairs of an actor and an idempotency key
          KeyOf,        \* the key an attempt carries
          Fingerprint,  \* the fingerprint of its payload
          None

VARIABLES result,  \* per key, the attempt whose execution is its result
          answer   \* per attempt, the result it was answered with

Init == result = [k \in Key |-> None] /\ answer = [r \in Request |-> None]

Decide(r) ==
    /\ result[KeyOf[r]] = None /\ answer[r] = None
    /\ result' = [result EXCEPT ![KeyOf[r]] = r]
    /\ answer' = [answer EXCEPT ![r] = r]

Replay(r) ==
    LET decider == result[KeyOf[r]]
    IN  /\ decider # None /\ answer[r] = None
        /\ Fingerprint[r] = Fingerprint[decider]
        /\ answer' = [answer EXCEPT ![r] = decider]
        /\ UNCHANGED result

Next == \E r \in Request : Decide(r) \/ Replay(r)

Spec == Init /\ [][Next]_<<result, answer>>
==============================================================================
