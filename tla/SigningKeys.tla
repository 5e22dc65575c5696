----------------------------- MODULE SigningKeys -----------------------------
(***************************************************************************)
(* The signing keys of Entra ID as apps/api caches them: JWKSClient of     *)
(* shared/auth.py, one object of the process that every request uses.      *)
(*                                                                         *)
(* A refresh is an awaited GET: the provider answers with the keys it      *)
(* publishes at that time, the answer is stored when it arrives, and the   *)
(* client is closed, an await again, before the request looks its key up.  *)
(* Refreshes of several requests overlap, and answers may be stored in     *)
(* another order than they were given.                                     *)
(***************************************************************************)
EXTENDS Naturals

CONSTANTS
    LastKey,   \* keys are numbered in the order they are published
    Request,   \* requests, each with one bearer token at most
    None

Key == 1..LastKey

ASSUME KeyAssumption ==
    /\ LastKey \in Nat \ {0}
    /\ None \notin Key
    /\ \A K \in SUBSET Key : None # K

VARIABLES
    published,    \* the provider's document: the keys in use
    cached_keys,  \* the client's copy, None before the first answer
    stale,        \* whether the copy is older than cache_ttl_seconds
    lookups       \* get_signing_key of each request

keyVars == <<published, cached_keys, stale, lookups>>

\* last: no refresh is left to try after this one; answer: the document
\* received; history: valid, the key has been published ever since the lookup
\* began; disturbed, another lookup was refreshing during its last refresh.
Lookup ==
    [step : {"new", "asking", "answered", "stored", "found", "unrecognized", "failed"},
     kid : Key \cup {None}, last : BOOLEAN, answer : {None} \cup SUBSET Key,
     valid : BOOLEAN, disturbed : BOOLEAN]

NewLookup ==
    [step |-> "new", kid |-> None, last |-> FALSE, answer |-> None,
     valid |-> FALSE, disturbed |-> FALSE]

KeysTypeOK ==
    /\ published \in SUBSET Key
    /\ cached_keys \in {None} \cup SUBSET Key
    /\ stale \in BOOLEAN
    /\ lookups \in [Request -> Lookup]

KeysInit ==
    /\ published = {1}
    /\ cached_keys = None
    /\ stale = FALSE
    /\ lookups = [r \in Request |-> NewLookup]

Refreshing(r) == lookups[r].step \in {"asking", "answered", "stored"}

\* A refresh of r begins: it and the others in progress disturb each other.
Refresh(r, kid, last, valid) ==
    lookups' = [q \in Request |->
        IF q = r
        THEN [step |-> "asking", kid |-> kid, last |-> last, answer |-> None,
              valid |-> valid, disturbed |-> \E p \in Request \ {r} : Refreshing(p)]
        ELSE [lookups[q] EXCEPT !.disturbed = @ \/ Refreshing(q)]]

Found(r) == lookups' = [lookups EXCEPT ![r] = [NewLookup EXCEPT !.step = "found"]]

HasKey(kid) == cached_keys # None /\ kid \in cached_keys

\* Mutated form: a fresh copy without the key is not asked for again.
GetCachedKey(r, kid) ==
    /\ lookups[r].step = "new"
    /\ CASE cached_keys = None \/ stale -> Refresh(r, kid, FALSE, kid \in published)
         [] ~stale /\ HasKey(kid) -> Found(r)
         [] OTHER -> lookups' = [lookups EXCEPT ![r] =
                [NewLookup EXCEPT !.step = "unrecognized", !.kid = kid,
                                  !.valid = kid \in published]]
    /\ UNCHANGED <<published, cached_keys, stale>>

\* get_signing_key up to its first await.  A token may carry any key id.
GetSigningKey(r, kid) ==
    /\ lookups[r].step = "new"
    /\ CASE cached_keys = None \/ stale -> Refresh(r, kid, FALSE, kid \in published)
         [] ~stale /\ HasKey(kid) -> Found(r)
         [] OTHER -> Refresh(r, kid, TRUE, kid \in published)
    /\ UNCHANGED <<published, cached_keys, stale>>

\* The provider answers the GET ...
AnswerKeys(r) ==
    /\ lookups[r].step = "asking"
    /\ lookups' = [lookups EXCEPT ![r].step = "answered", ![r].answer = published]
    /\ UNCHANGED <<published, cached_keys, stale>>

\* ... and the answer arrives and is stored, over a later one maybe.
StoreKeys(r) ==
    /\ lookups[r].step = "answered"
    /\ cached_keys' = lookups[r].answer
    /\ stale' = FALSE
    /\ lookups' = [lookups EXCEPT ![r].step = "stored"]
    /\ UNCHANGED published

\* The client is closed, and the key is looked up in whatever is cached now.
FindKey(r) ==
    LET q == lookups[r]
    IN  /\ q.step = "stored"
        /\ CASE HasKey(q.kid) -> Found(r)
             [] ~HasKey(q.kid) /\ ~q.last -> Refresh(r, q.kid, TRUE, q.valid)
             [] OTHER -> lookups' = [lookups EXCEPT ![r].step = "unrecognized"]
        /\ UNCHANGED <<published, cached_keys, stale>>

\* The GET times out or is answered with an error: the request ends with it.
FailKeys(r) ==
    /\ lookups[r].step = "asking"
    /\ lookups' = [lookups EXCEPT ![r].step = "failed"]
    /\ UNCHANGED <<published, cached_keys, stale>>

\* cache_ttl_seconds pass.
ExpireKeys ==
    /\ cached_keys # None
    /\ ~stale
    /\ stale' = TRUE
    /\ UNCHANGED <<published, cached_keys, lookups>>

\* The provider publishes the next key ...
PublishKey(k) ==
    /\ k \notin published
    /\ k - 1 \in published
    /\ published' = published \cup {k}
    /\ UNCHANGED <<cached_keys, stale, lookups>>

\* ... and withdraws the oldest once there is another.
WithdrawKey(k) ==
    /\ k \in published
    /\ \A j \in published : k <= j
    /\ k + 1 \in published
    /\ published' = published \ {k}
    /\ lookups' = [r \in Request |->
          IF lookups[r].kid = k THEN [lookups[r] EXCEPT !.valid = FALSE] ELSE lookups[r]]
    /\ UNCHANGED <<cached_keys, stale>>

\* What a lookup does once it has begun.
ContinueLookup(r) == AnswerKeys(r) \/ StoreKeys(r) \/ FindKey(r) \/ FailKeys(r)

\* What happens around the lookups.
KeysEnvironment == ExpireKeys \/ \E k \in Key : PublishKey(k) \/ WithdrawKey(k)

\* "Refresh once more before giving up, rather than rejecting a token that is
\* actually valid": a token whose key was in use all along is refused as
\* unrecognized only if another request's refresh overlapped its own last one
\* (whose older answer may have been stored over its own).
ValidTokenAccepted ==
    \A r \in Request :
        lookups[r].step = "unrecognized" /\ lookups[r].valid => lookups[r].disturbed
=============================================================================
