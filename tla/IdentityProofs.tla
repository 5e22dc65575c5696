--------------------------- MODULE IdentityProofs ---------------------------
(***************************************************************************)
(* Theorems about Identity and SigningKeys, for every set of requests, of  *)
(* addresses, of passwords, of subjects and of connections, and every      *)
(* number of keys.  A step touches either the key lookups or the rest, so  *)
(* each has an inductive invariant of its own.                             *)
(***************************************************************************)
EXTENDS Identity, TLAPS

(***************************************************************************)
(* The signing keys                                                        *)
(***************************************************************************)
\* A lookup that may still end in "unrecognized" with a key in use all along:
\* nobody refreshes beside it, so the answer it got has the key and stays stored.
LookupFits(r) ==
    LET q == lookups[r]
    IN  /\ Refreshing(r) => q.kid \in Key
        /\ q.valid => q.kid \in published
        /\ q.step = "answered" => q.answer # None /\ (q.valid => q.kid \in q.answer)
        /\ q.step = "stored" /\ q.valid /\ ~ q.disturbed => HasKey(q.kid)
        /\ Refreshing(r) /\ ~ q.disturbed => \A p \in Request \ {r} : ~ Refreshing(p)
        /\ q.step = "unrecognized" /\ q.valid => q.disturbed

KeyInv == KeysTypeOK /\ \A r \in Request : LookupFits(r)

LEMMA InvTokens == KeyInv => ValidTokenAccepted
  BY DEF KeyInv, LookupFits, ValidTokenAccepted

LEMMA InitKeyInv == KeysInit => KeyInv
  <1> SUFFICES ASSUME KeysInit PROVE KeyInv
    OBVIOUS
  <1>1. 1 \in Key
    BY KeyAssumption DEF Key
  <1>2. NewLookup \in Lookup /\ NewLookup.step = "new" /\ ~ NewLookup.valid
    BY DEF NewLookup, Lookup
  <1>3. KeysTypeOK
    BY <1>1, <1>2 DEF KeysInit, KeysTypeOK
  <1>4. ASSUME NEW r \in Request PROVE LookupFits(r)
    BY <1>2 DEF KeysInit, LookupFits, Refreshing
  <1> QED BY <1>3, <1>4 DEF KeyInv

\* A step that changes one lookup, and the copy only when that one is refreshing
\* and goes on with it.
LEMMA LookupMoves ==
    ASSUME KeyInv, NEW r \in Request, NEW q \in Lookup,
           lookups' = [lookups EXCEPT ![r] = q],
           UNCHANGED published, stale' \in BOOLEAN,
           cached_keys' \in {None} \cup SUBSET Key,
           cached_keys' = cached_keys \/ Refreshing(r),
           q.step \in {"asking", "answered", "stored"} =>
              /\ Refreshing(r)
              /\ q.disturbed = lookups[r].disturbed
              /\ q.kid = lookups[r].kid,
           q.valid => q.kid \in published,
           q.step = "answered" => q.answer # None /\ (q.valid => q.kid \in q.answer),
           q.step = "stored" /\ q.valid /\ ~ q.disturbed =>
              cached_keys' # None /\ q.kid \in cached_keys',
           q.step = "unrecognized" /\ q.valid => q.disturbed
    PROVE  KeyInv'
  <1>1. /\ lookups'[r] = q
        /\ \A o \in Request : o # r => lookups'[o] = lookups[o]
        /\ lookups' \in [Request -> Lookup]
    BY DEF KeyInv, KeysTypeOK
  <1>2. KeysTypeOK'
    BY <1>1 DEF KeyInv, KeysTypeOK
  <1>3. \A o \in Request : o # r => Refreshing(o)' = Refreshing(o)
    BY <1>1 DEF Refreshing
  <1>4. Refreshing(r)' => /\ Refreshing(r) /\ q.kid = lookups[r].kid
                          /\ q.disturbed = lookups[r].disturbed
    BY <1>1 DEF Refreshing
  <1>5. LookupFits(r)'
    <2>1. /\ Refreshing(r)' => q.kid \in Key
          /\ Refreshing(r)' /\ ~ q.disturbed => \A p \in Request \ {r} : ~ Refreshing(p)'
      <3>1. LookupFits(r)
        BY DEF KeyInv
      <3> QED BY <1>3, <1>4, <3>1 DEF LookupFits
    <2> QED BY <1>1, <2>1 DEF LookupFits, HasKey
  <1>6. ASSUME NEW o \in Request, o # r PROVE LookupFits(o)'
    <2>1. LookupFits(o) /\ lookups'[o] = lookups[o]
      BY <1>1, <1>6 DEF KeyInv
    <2>2. Refreshing(o)' /\ ~ lookups[o].disturbed =>
              \A p \in Request \ {o} : ~ Refreshing(p)'
      BY <1>3, <1>4, <1>6, <2>1 DEF LookupFits
    <2>3. lookups[o].step = "stored" /\ ~ lookups[o].disturbed => cached_keys' = cached_keys
      BY <1>6, <2>1 DEF LookupFits, Refreshing
    <2>4. Refreshing(o)' => lookups[o].kid \in Key
      BY <1>3, <1>6, <2>1 DEF LookupFits
    <2> QED BY <2>1, <2>2, <2>3, <2>4 DEF LookupFits, HasKey
  <1> QED BY <1>2, <1>5, <1>6 DEF KeyInv

LEMMA RefreshKeeps ==
    ASSUME KeyInv, NEW r \in Request, NEW kid \in Key, NEW last \in BOOLEAN,
           NEW valid \in BOOLEAN, valid => kid \in published,
           Refresh(r, kid, last, valid), UNCHANGED <<published, cached_keys, stale>>
    PROVE  KeyInv'
  <1> DEFINE beside == \E p \in Request \ {r} : Refreshing(p)
  <1>1. /\ lookups'[r] \in Lookup
        /\ lookups'[r].step = "asking" /\ lookups'[r].kid = kid
        /\ lookups'[r].valid = valid /\ lookups'[r].disturbed = beside
    BY DEF Refresh, Lookup
  <1>2. ASSUME NEW o \in Request, o # r
        PROVE  /\ lookups'[o] \in Lookup
               /\ lookups'[o].step = lookups[o].step /\ lookups'[o].kid = lookups[o].kid
               /\ lookups'[o].valid = lookups[o].valid
               /\ lookups'[o].answer = lookups[o].answer
               /\ lookups'[o].disturbed = (lookups[o].disturbed \/ Refreshing(o))
    <2>1. lookups[o] \in Lookup /\ (lookups[o].disturbed \/ Refreshing(o)) \in BOOLEAN
      BY DEF KeyInv, KeysTypeOK, Refreshing, Lookup
    <2>2. lookups'[o] = [lookups[o] EXCEPT !.disturbed = lookups[o].disturbed \/ Refreshing(o)]
      BY <1>2 DEF Refresh
    <2> QED BY <2>1, <2>2 DEF Lookup
  <1>3. KeysTypeOK'
    BY <1>1, <1>2 DEF KeyInv, KeysTypeOK, Refresh
  <1>4. ASSUME NEW o \in Request, o # r PROVE Refreshing(o)' = Refreshing(o)
    BY <1>2, <1>4 DEF Refreshing
  <1>5. LookupFits(r)'
    BY <1>1, <1>4 DEF LookupFits
  <1>6. ASSUME NEW o \in Request, o # r PROVE LookupFits(o)'
    <2>1. LookupFits(o)
      BY DEF KeyInv
    <2>2. Refreshing(o)' => lookups'[o].disturbed
      BY <1>2, <1>4, <1>6
    <2>3. lookups'[o].step = "stored" => lookups'[o].disturbed
      BY <2>2 DEF Refreshing
    <2>4. Refreshing(o)' => lookups'[o].kid \in Key
      BY <1>2, <1>4, <1>6, <2>1 DEF LookupFits
    <2> QED BY <1>2, <1>6, <2>1, <2>2, <2>3, <2>4 DEF LookupFits
  <1> QED BY <1>3, <1>5, <1>6 DEF KeyInv

LEMMA FoundKeeps ==
    ASSUME KeyInv, NEW r \in Request, Found(r), UNCHANGED <<published, cached_keys, stale>>
    PROVE  KeyInv'
  <1> DEFINE q == [NewLookup EXCEPT !.step = "found"]
  <1>1. q \in Lookup /\ q.step = "found" /\ ~ q.valid
    BY DEF NewLookup, Lookup
  <1>2. lookups' = [lookups EXCEPT ![r] = q]
    BY DEF Found
  <1>3. stale' \in BOOLEAN /\ cached_keys' \in {None} \cup SUBSET Key
    BY DEF KeyInv, KeysTypeOK
  <1> HIDE DEF q
  <1> QED BY <1>1, <1>2, <1>3, LookupMoves

LEMMA GetKeyKeeps ==
    ASSUME KeyInv, NEW r \in Request, NEW kid \in Key, GetSigningKey(r, kid)
    PROVE  KeyInv'
  <1>1. \/ Found(r)
        \/ Refresh(r, kid, FALSE, kid \in published)
        \/ Refresh(r, kid, TRUE, kid \in published)
    BY DEF GetSigningKey
  <1>2. UNCHANGED <<published, cached_keys, stale>>
    BY DEF GetSigningKey
  <1>3. CASE Found(r)
    BY <1>2, <1>3, FoundKeeps
  <1>4. ASSUME NEW last \in BOOLEAN, Refresh(r, kid, last, kid \in published)
        PROVE  KeyInv'
    <2>1. CASE kid \in published
      <3>1. Refresh(r, kid, last, TRUE)
        BY <1>4, <2>1 DEF Refresh
      <3> QED BY <1>2, <2>1, <3>1, RefreshKeeps
    <2>2. CASE kid \notin published
      <3>1. (kid \in published) = FALSE
        BY <2>2
      <3>2. Refresh(r, kid, last, FALSE)
        BY <1>4, <3>1
      <3> QED BY <1>2, <3>2, RefreshKeeps
    <2> QED BY <2>1, <2>2
  <1> QED BY <1>1, <1>3, <1>4

LEMMA AnswerKeysKeeps ==
    ASSUME KeyInv, NEW r \in Request, AnswerKeys(r)
    PROVE  KeyInv'
  <1> DEFINE q == [lookups[r] EXCEPT !.step = "answered", !.answer = published]
  <1>1. lookups[r] \in Lookup /\ published \in SUBSET Key /\ LookupFits(r)
    BY DEF KeyInv, KeysTypeOK
  <1>2. /\ q \in Lookup /\ q.step = "answered" /\ q.answer = published
        /\ q.kid = lookups[r].kid /\ q.valid = lookups[r].valid
        /\ q.disturbed = lookups[r].disturbed
    BY <1>1 DEF Lookup
  <1>3. lookups' = [lookups EXCEPT ![r] = q]
    BY <1>1 DEF AnswerKeys, Lookup, KeyInv, KeysTypeOK
  <1> HIDE DEF q
  <1>4. q.answer # None
    BY <1>1, <1>2, KeyAssumption
  <1>5. Refreshing(r)
    BY DEF AnswerKeys, Refreshing
  <1>6. /\ stale' \in BOOLEAN /\ cached_keys' \in {None} \cup SUBSET Key
        /\ UNCHANGED <<published, cached_keys>>
    BY DEF KeyInv, KeysTypeOK, AnswerKeys
  <1>7. q.valid => q.kid \in published
    BY <1>1, <1>2 DEF LookupFits
  <1> QED BY <1>2, <1>3, <1>4, <1>5, <1>6, <1>7, LookupMoves

LEMMA StoreKeysKeeps ==
    ASSUME KeyInv, NEW r \in Request, StoreKeys(r)
    PROVE  KeyInv'
  <1> DEFINE q == [lookups[r] EXCEPT !.step = "stored"]
  <1>1. lookups[r] \in Lookup /\ LookupFits(r) /\ lookups[r].step = "answered"
    BY DEF KeyInv, KeysTypeOK, StoreKeys
  <1>2. /\ q \in Lookup /\ q.step = "stored"
        /\ q.kid = lookups[r].kid /\ q.valid = lookups[r].valid
        /\ q.disturbed = lookups[r].disturbed
    BY <1>1 DEF Lookup
  <1>3. lookups' = [lookups EXCEPT ![r] = q]
    BY DEF StoreKeys
  <1> HIDE DEF q
  <1>4. Refreshing(r)
    BY <1>1 DEF Refreshing
  <1>5. cached_keys' = lookups[r].answer
    BY DEF StoreKeys
  <1>6. /\ stale' \in BOOLEAN /\ cached_keys' \in {None} \cup SUBSET Key
        /\ UNCHANGED published
    BY <1>1 DEF Lookup, StoreKeys
  <1>7. /\ q.valid => q.kid \in published
        /\ q.valid => cached_keys' # None /\ q.kid \in cached_keys'
    BY <1>1, <1>2, <1>5 DEF LookupFits
  <1> QED BY <1>2, <1>3, <1>4, <1>6, <1>7, LookupMoves

\* The two ends without a key: not found after the last refresh, and no answer.
LEMMA GiveUpKeeps ==
    ASSUME KeyInv, NEW r \in Request, NEW end \in {"unrecognized", "failed"},
           lookups' = [lookups EXCEPT ![r].step = end],
           end = "unrecognized" => lookups[r].step = "stored" /\ ~ HasKey(lookups[r].kid),
           UNCHANGED <<published, cached_keys, stale>>
    PROVE  KeyInv'
  <1> DEFINE q == [lookups[r] EXCEPT !.step = end]
  <1>1. lookups[r] \in Lookup /\ LookupFits(r)
    BY DEF KeyInv, KeysTypeOK
  <1>2. /\ q \in Lookup /\ q.step = end
        /\ q.kid = lookups[r].kid /\ q.valid = lookups[r].valid
        /\ q.disturbed = lookups[r].disturbed
    BY <1>1 DEF Lookup
  <1>3. lookups' = [lookups EXCEPT ![r] = q]
    OBVIOUS
  <1> HIDE DEF q
  <1>4. stale' \in BOOLEAN /\ cached_keys' \in {None} \cup SUBSET Key
    BY DEF KeyInv, KeysTypeOK
  <1>5. /\ q.valid => q.kid \in published
        /\ end = "unrecognized" /\ q.valid => q.disturbed
    BY <1>1, <1>2 DEF LookupFits
  <1> QED BY <1>2, <1>3, <1>4, <1>5, LookupMoves

LEMMA FindKeyKeeps ==
    ASSUME KeyInv, NEW r \in Request, FindKey(r)
    PROVE  KeyInv'
  <1>1. lookups[r] \in Lookup /\ LookupFits(r) /\ lookups[r].step = "stored"
    BY DEF KeyInv, KeysTypeOK, FindKey
  <1>2. UNCHANGED <<published, cached_keys, stale>>
    BY DEF FindKey
  <1>3. CASE Found(r)
    BY <1>2, <1>3, FoundKeeps
  <1>4. CASE Refresh(r, lookups[r].kid, TRUE, lookups[r].valid)
    <2>1. lookups[r].valid \in BOOLEAN /\ (lookups[r].valid => lookups[r].kid \in published)
      BY <1>1 DEF Lookup, LookupFits
    <2>2. lookups[r].kid \in Key
      BY <1>1 DEF LookupFits, Refreshing
    <2> QED BY <1>2, <1>4, <2>1, <2>2, RefreshKeeps
  <1>5. CASE /\ ~ HasKey(lookups[r].kid)
             /\ lookups' = [lookups EXCEPT ![r].step = "unrecognized"]
    BY <1>1, <1>2, <1>5, GiveUpKeeps
  <1> QED BY <1>3, <1>4, <1>5 DEF FindKey

LEMMA EnvironmentKeeps ==
    ASSUME KeyInv, KeysEnvironment
    PROVE  KeyInv'
  <1>1. CASE ExpireKeys
    BY <1>1 DEF ExpireKeys, KeyInv, KeysTypeOK, LookupFits, Refreshing, HasKey
  <1>2. ASSUME NEW k \in Key, PublishKey(k) PROVE KeyInv'
    <2>1. /\ published' = published \cup {k} /\ published' \in SUBSET Key
          /\ UNCHANGED <<cached_keys, stale, lookups>>
      BY <1>2 DEF PublishKey, KeyInv, KeysTypeOK
    <2> QED BY <2>1 DEF KeyInv, KeysTypeOK, LookupFits, Refreshing, HasKey
  <1>3. ASSUME NEW k \in Key, WithdrawKey(k) PROVE KeyInv'
    <2>1. published' = published \ {k} /\ UNCHANGED <<cached_keys, stale>>
      BY <1>3 DEF WithdrawKey
    <2>2. ASSUME NEW r \in Request
          PROVE  /\ lookups'[r] \in Lookup
                 /\ lookups'[r].step = lookups[r].step /\ lookups'[r].kid = lookups[r].kid
                 /\ lookups'[r].answer = lookups[r].answer
                 /\ lookups'[r].disturbed = lookups[r].disturbed
                 /\ lookups'[r].valid => lookups[r].valid /\ lookups[r].kid # k
      <3>1. lookups[r] \in Lookup
        BY DEF KeyInv, KeysTypeOK
      <3>2. lookups'[r] = IF lookups[r].kid = k THEN [lookups[r] EXCEPT !.valid = FALSE]
                          ELSE lookups[r]
        BY <1>3 DEF WithdrawKey
      <3> QED BY <3>1, <3>2 DEF Lookup
    <2>3. KeysTypeOK'
      BY <1>3, <2>1, <2>2 DEF KeyInv, KeysTypeOK, WithdrawKey
    <2>4. ASSUME NEW r \in Request PROVE LookupFits(r)'
      <3>1. LookupFits(r) /\ \A p \in Request : Refreshing(p)' = Refreshing(p)
        BY <2>2 DEF KeyInv, Refreshing
      <3> QED BY <2>1, <2>2, <3>1 DEF LookupFits, HasKey
    <2> QED BY <2>3, <2>4 DEF KeyInv
  <1> QED BY <1>1, <1>2, <1>3 DEF KeysEnvironment

\* All steps of Identity that are not steps of the key lookups leave them alone.
LEMMA KeysMove ==
    ASSUME [Next]_vars
    PROVE  \/ \E r \in Request, kid \in Key : GetSigningKey(r, kid)
           \/ \E r \in Request : ContinueLookup(r)
           \/ KeysEnvironment
           \/ UNCHANGED keyVars
  <1>1. CASE UNCHANGED vars
    BY <1>1 DEF vars
  <1>2. ASSUME NEW r \in Request, BeginAny(r)
        PROVE  (\E kid \in Key : GetSigningKey(r, kid)) \/ UNCHANGED keyVars
    BY <1>2 DEF BeginAny, BeginRegister, BeginLogin, BeginLookup, BeginCall, Begin
  <1>3. ASSUME NEW r \in Request, Continue(r)
        PROVE  ContinueLookup(r) \/ UNCHANGED keyVars
    BY <1>3
    DEF Continue, Connect, SelectByEmail, SelectBySubject, InsertUser, VerifyPassword,
        BindUser, AddMember, ReadMembership, CommitRequest, RollBack, GoOn, GoOnAs
  <1>4. ASSUME NEW r \in Request, Fail(r) PROVE UNCHANGED keyVars
    BY <1>4 DEF Fail, RollBack
  <1>5. ASSUME NEW u \in User, NEW e \in Engagement, GrantMembership(u, e)
        PROVE  UNCHANGED keyVars
    BY <1>5 DEF GrantMembership
  <1> QED BY <1>1, <1>2, <1>3, <1>4, <1>5 DEF Next

LEMMA StepKeyInv == KeyInv /\ [Next]_vars => KeyInv'
  <1> SUFFICES ASSUME KeyInv, [Next]_vars PROVE KeyInv'
    OBVIOUS
  <1>1. ASSUME NEW r \in Request, ContinueLookup(r) PROVE KeyInv'
    <2>1. CASE FailKeys(r)
      BY <2>1, GiveUpKeeps DEF FailKeys
    <2> QED BY <1>1, <2>1, AnswerKeysKeeps, StoreKeysKeeps, FindKeyKeeps DEF ContinueLookup
  <1>2. CASE UNCHANGED keyVars
    BY <1>2 DEF keyVars, KeyInv, KeysTypeOK, LookupFits, Refreshing, HasKey
  <1> QED BY <1>1, <1>2, KeysMove, GetKeyKeeps, EnvironmentKeeps

\* A valid token is refused as unrecognized only if another refresh overlapped
\* the last one of its own: get_signing_key refreshes once more before giving up.
THEOREM ValidTokensAccepted == Spec => []ValidTokenAccepted
  <1>1. Init => KeyInv
    BY InitKeyInv DEF Init
  <1> QED BY <1>1, StepKeyInv, InvTokens, PTL DEF Spec

(***************************************************************************)
(* The tables and the requests: the inductive invariant                    *)
(***************************************************************************)
Waiting(step) == step \in {"new", "queued", "done", "refused", "failed"}

IdentityTypeOK ==
    /\ users \in [User -> Row \cup {None}]
    /\ credentials \in [User -> Hash \cup {None}]
    /\ members \subseteq Membership
    /\ current_user_id \in [Connection -> User \cup {None}]
    /\ requests \in [Request -> IdentityRequest]

\* A transaction has a connection, and its own.
Connected(q) == q.connection # None <=> ~ Waiting(q.step)

Apart ==
    \A r, q \in Request :
        r # q /\ requests[r].connection # None => requests[r].connection # requests[q].connection

\* What the setting of its connection is while a request goes on.
SettingFits(q) ==
    /\ q.step \in {"verifying", "binding", "joining", "reading", "committing"} => q.user # None
    /\ q.step \in {"selecting", "inserting", "verifying", "binding"} =>
          current_user_id[q.connection] = None
    /\ q.step \in {"joining", "reading", "committing"} =>
          current_user_id[q.connection] = q.user

\* A setting is that of a request which has the connection.
SettingOwned(c) ==
    current_user_id[c] # None =>
        \E r \in Request : requests[r].connection = c /\ requests[r].user = current_user_id[c]

\* What a request is about to insert, or has inserted.
Inserts(r, q) ==
    IF q.kind = "register" THEN [entra_object_id |-> LocalSubject(r), email |-> q.email]
    ELSE [entra_object_id |-> q.subject, email |-> Empty]

KindFits(r, q) ==
    /\ q.step # "new" => q.kind # "none"
    /\ q.kind = "register" =>
          /\ q.step # "refused" => q.email \in Address /\ Lower[q.email] = q.email
          /\ q.password \in Password
          /\ q.step \in {"binding", "joining", "committing"} => q.row # None
          /\ q.step \notin {"reading", "verifying"}
    /\ q.kind = "login" =>
          /\ q.email \in Address \cup {Empty} /\ q.password \in Password
          /\ q.row = None /\ q.step \notin {"inserting", "joining"}
    /\ q.kind = "call" =>
          /\ q.subject \in EntraSubject \/ WithSubject(q.subject) # {}
          /\ q.step = "inserting" \/ q.row # None => q.subject \in EntraSubject
          /\ q.step \notin {"joining", "verifying"}
    /\ q.row # None =>
          /\ q.row = Inserts(r, q)
          /\ q.step \in {"binding", "joining", "reading", "committing"}
    /\ users[r] # None => q.step = "done"

IsAccount(u, email, password) ==
    /\ u \in User /\ users[u] # None
    /\ users[u].email = email /\ credentials[u] = Hashed[password]

LoginFits(q) ==
    q.kind = "login" =>
        /\ q.had => \E u \in User : IsAccount(u, q.email, q.password)
        /\ q.step = "refused" => ~ q.had
        /\ q.step = "verifying" => users[q.user] # None /\ users[q.user].email = q.email
        /\ q.step \in {"binding", "reading", "committing", "done"} =>
              IsAccount(q.user, q.email, q.password)

\* The unique keys of what is inserted and not committed are still free.
RowFree(row) == row # None => ~ KeyTaken(row)

RowsApart ==
    \A r, q \in Request :
        r # q /\ requests[r].row # None /\ requests[q].row # None =>
            ~ SameKey(requests[r].row, requests[q].row)

AccountWhole(u) ==
    IF users[u] = None THEN credentials[u] = None
    ELSE /\ users[u].email # Empty => Lower[users[u].email] = users[u].email
         /\ IF users[u].entra_object_id \in EntraSubject THEN credentials[u] = None
            ELSE /\ credentials[u] # None /\ users[u].email # Empty
                 /\ [user |-> u, engagement |-> DefaultEngagement] \in members

UsersApart ==
    \A u, v \in User :
        u # v /\ users[u] # None /\ users[v] # None => ~ SameKey(users[u], users[v])

TablesFit ==
    /\ \A u \in User : AccountWhole(u)
    /\ UsersApart
    /\ \A m \in members : users[m.user] # None

Fits(r, q) == SettingFits(q) /\ KindFits(r, q) /\ LoginFits(q) /\ RowFree(q.row)

IdInv ==
    /\ IdentityTypeOK
    /\ \A r \in Request : Connected(requests[r]) /\ Fits(r, requests[r])
    /\ Apart
    /\ \A c \in Connection : SettingOwned(c)
    /\ RowsApart
    /\ TablesFit

LEMMA InvTypeOK == KeyInv /\ IdInv => TypeOK
  <1> SUFFICES ASSUME KeyInv, IdInv PROVE TypeOK
    OBVIOUS
  <1>1. ASSUME NEW r \in Request
        PROVE  requests[r].connection # None <=> Active(r) /\ requests[r].step # "queued"
    <2>1. Connected(requests[r])
      BY DEF IdInv
    <2> QED BY <2>1 DEF Connected, Waiting, Active
  <1> QED BY <1>1 DEF KeyInv, IdInv, IdentityTypeOK, Apart, TypeOK

LEMMA InvAccounts == IdInv => AccountsWhole
  BY DEF IdInv, TablesFit, AccountWhole, UsersApart, AccountsWhole

LEMMA InvIdentity == IdInv => OwnIdentityOnly
  <1> SUFFICES ASSUME IdInv PROVE OwnIdentityOnly
    OBVIOUS
  <1>1. ASSUME NEW r \in Request, requests[r].step \in {"joining", "reading"}
        PROVE  BoundUser(r) = requests[r].user
    <2>1. SettingFits(requests[r])
      BY DEF IdInv, Fits
    <2> QED BY <1>1, <2>1 DEF SettingFits, BoundUser
  <1> QED BY <1>1 DEF IdInv, SettingOwned, OwnIdentityOnly

\* An account is signed up here, and it is the only row of its address.
LEMMA AccountAlone ==
    ASSUME IdInv, NEW u \in User, NEW email, NEW p \in Password, IsAccount(u, email, p)
    PROVE  /\ email # Empty /\ users[u].entra_object_id \notin EntraSubject
           /\ WithEmail(email) = {u}
  <1>1. Hashed[p] # None
    BY IdentityNoneAssumption DEF Hash
  <1>2. email # Empty /\ users[u].entra_object_id \notin EntraSubject
    BY <1>1 DEF IsAccount, IdInv, TablesFit, AccountWhole
  <1>3. \A v \in WithEmail(email) : v = u
    BY <1>2 DEF IsAccount, WithEmail, IdInv, TablesFit, UsersApart, SameKey
  <1> QED BY <1>2, <1>3 DEF IsAccount, WithEmail

LEMMA InvLogins == IdInv => LoginFindsAccount
  <1> SUFFICES ASSUME IdInv, NEW r \in Request, requests[r].kind = "login"
               PROVE  /\ requests[r].step = "refused" => ~ requests[r].had
                      /\ requests[r].step = "done" =>
                            LET u == requests[r].user
                            IN  /\ users[u].entra_object_id \notin EntraSubject
                                /\ credentials[u] = Hashed[requests[r].password]
                                /\ WithEmail(requests[r].email) = {u}
    BY DEF LoginFindsAccount
  <1>1. LoginFits(requests[r]) /\ KindFits(r, requests[r])
    BY DEF IdInv, Fits
  <1>2. requests[r].password \in Password
    BY <1>1 DEF KindFits
  <1>3. requests[r].step = "done" =>
            LET u == requests[r].user IN u \in User /\ IsAccount(u, requests[r].email, requests[r].password)
    BY <1>1 DEF LoginFits, IsAccount
  <1> QED BY <1>1, <1>2, <1>3, AccountAlone DEF LoginFits, IsAccount

LEMMA NewRequestFits ==
    /\ NewRequest \in IdentityRequest
    /\ NewRequest.kind = "none" /\ NewRequest.step = "new"
    /\ NewRequest.connection = None /\ NewRequest.row = None
  BY DEF NewRequest, IdentityRequest

LEMMA InitIdInv == Init => IdInv
  <1> SUFFICES ASSUME Init PROVE IdInv
    OBVIOUS
  <1>1. IdentityTypeOK
    BY NewRequestFits DEF Init, IdentityTypeOK
  <1>2. ASSUME NEW r \in Request
        PROVE  /\ Connected(requests[r]) /\ Fits(r, requests[r])
               /\ requests[r].connection = None /\ requests[r].row = None
    <2>1. requests[r] = NewRequest /\ users[r] = None
      BY DEF Init, User
    <2> QED BY <2>1, NewRequestFits
        DEF Connected, Waiting, Fits, SettingFits, KindFits, LoginFits, RowFree
  <1>3. \A c \in Connection : SettingOwned(c)
    BY DEF Init, SettingOwned
  <1>4. TablesFit
    BY DEF Init, TablesFit, AccountWhole, UsersApart
  <1> QED BY <1>1, <1>2, <1>3, <1>4 DEF IdInv, Apart, RowsApart

(***************************************************************************)
(* What a step of one request keeps                                        *)
(***************************************************************************)
LEMMA RequestMoves ==
    ASSUME IdInv, NEW r \in Request, NEW q \in IdentityRequest,
           requests' = [requests EXCEPT ![r] = q],
           UNCHANGED tables,
           current_user_id' \in [Connection -> User \cup {None}],
           \A c \in Connection :
              c # requests[r].connection => current_user_id'[c] = current_user_id[c],
           \A c \in Connection : c = requests[r].connection /\ current_user_id'[c] # None =>
              q.connection = c /\ q.user = current_user_id'[c],
           Connected(q),
           q.connection # None => \A o \in Request : o # r =>
              requests[o].connection # q.connection,
           SettingFits(q)', KindFits(r, q), LoginFits(q), RowFree(q.row),
           q.row # None => \A o \in Request : o # r /\ requests[o].row # None =>
              ~ SameKey(requests[o].row, q.row)
    PROVE  IdInv'
  <1>1. /\ requests'[r] = q
        /\ \A o \in Request : o # r => requests'[o] = requests[o]
        /\ requests' \in [Request -> IdentityRequest]
    BY DEF IdInv, IdentityTypeOK
  <1>2. IdentityTypeOK'
    BY <1>1 DEF IdInv, IdentityTypeOK, tables
  <1>3. Connected(requests[r])' /\ Fits(r, requests[r])'
    BY <1>1 DEF Connected, Fits, SettingFits, KindFits, LoginFits, RowFree, KeyTaken,
                WithSubject, IsAccount, tables
  <1>4. ASSUME NEW o \in Request, o # r PROVE Connected(requests[o])' /\ Fits(o, requests[o])'
    <2>1. Connected(requests[o]) /\ Fits(o, requests[o]) /\ requests'[o] = requests[o]
      BY <1>1, <1>4 DEF IdInv
    <2>2. ~ Waiting(requests[o].step) =>
              current_user_id'[requests[o].connection] = current_user_id[requests[o].connection]
      <3>1. requests[o].connection \in Connection \cup {None}
        BY DEF IdInv, IdentityTypeOK, IdentityRequest
      <3>2. requests[o].connection # None => requests[o].connection # requests[r].connection
        BY <1>4 DEF IdInv, Apart
      <3> QED BY <2>1, <3>1, <3>2 DEF Connected
    <2>3. SettingFits(requests[o])'
      BY <2>1, <2>2 DEF Fits, SettingFits, Waiting
    <2> QED BY <2>1, <2>3 DEF Connected, Fits, KindFits, LoginFits, RowFree, KeyTaken,
                              WithSubject, IsAccount, tables
  <1>5. Apart'
    BY <1>1 DEF IdInv, Apart
  <1>6. ASSUME NEW c \in Connection PROVE SettingOwned(c)'
    <2>1. CASE c = requests[r].connection
      BY <1>1, <2>1 DEF SettingOwned
    <2>2. CASE c # requests[r].connection
      BY <1>1, <2>2 DEF IdInv, SettingOwned
    <2> QED BY <2>1, <2>2
  <1>7. RowsApart'
    BY <1>1 DEF IdInv, RowsApart, SameKey
  <1>8. TablesFit'
    BY DEF IdInv, TablesFit, AccountWhole, UsersApart, tables
  <1> QED BY <1>2, <1>3, <1>4, <1>5, <1>6, <1>7, <1>8 DEF IdInv

(***************************************************************************)
(* What the sessions do                                                    *)
(***************************************************************************)
Steps == {"new", "queued", "selecting", "inserting", "verifying", "binding",
          "joining", "reading", "committing", "done", "refused", "failed"}

\* What a request is about stays the same.
Kept(q, p) ==
    /\ q.kind = p.kind /\ q.email = p.email /\ q.password = p.password
    /\ q.subject = p.subject /\ q.engagement = p.engagement /\ q.had = p.had

\* The request goes on as q, on the same connection.
GoesOn(r, q) ==
    /\ requests' = [requests EXCEPT ![r] = q]
    /\ q \in IdentityRequest /\ Kept(q, requests[r])
    /\ q.connection = requests[r].connection

LEMMA GoOnEffect ==
    ASSUME IdInv, NEW r \in Request, NEW step \in Steps,
           requests' = [requests EXCEPT ![r].step = step]
    PROVE  \E q \in IdentityRequest :
              /\ GoesOn(r, q) /\ q.step = step
              /\ q.row = requests[r].row /\ q.user = requests[r].user
  <1> DEFINE q == [requests[r] EXCEPT !.step = step]
  <1>1. requests[r] \in IdentityRequest
    BY DEF IdInv, IdentityTypeOK
  <1>2. /\ q \in IdentityRequest /\ q.step = step /\ Kept(q, requests[r])
        /\ q.connection = requests[r].connection
        /\ q.row = requests[r].row /\ q.user = requests[r].user
    BY <1>1 DEF IdentityRequest, Steps, Kept
  <1>3. requests' = [requests EXCEPT ![r] = q]
    OBVIOUS
  <1> HIDE DEF q
  <1> QED BY <1>2, <1>3 DEF GoesOn

LEMMA GoOnAsEffect ==
    ASSUME IdInv, NEW r \in Request, NEW u \in User, NEW step \in Steps, GoOnAs(r, u, step)
    PROVE  \E q \in IdentityRequest :
              /\ GoesOn(r, q) /\ q.step = step /\ q.row = requests[r].row /\ q.user = u
  <1> DEFINE q == [requests[r] EXCEPT !.step = step, !.user = u]
  <1>1. requests[r] \in IdentityRequest
    BY DEF IdInv, IdentityTypeOK
  <1>2. /\ q.step = step /\ Kept(q, requests[r])
        /\ q.connection = requests[r].connection
        /\ q.row = requests[r].row /\ q.user = u
    BY <1>1 DEF IdentityRequest, Kept
  <1>3. q \in IdentityRequest
    <2> DEFINE moved == [requests[r] EXCEPT !.step = step]
    <2>1. moved \in IdentityRequest
      BY <1>1 DEF IdentityRequest, Steps
    <2>2. q = [moved EXCEPT !.user = u]
      OBVIOUS
    <2> HIDE DEF moved
    <2>3. [moved EXCEPT !.user = u] \in IdentityRequest
      BY <2>1 DEF IdentityRequest
    <2> QED BY <2>2, <2>3
  <1>4. requests' = [requests EXCEPT ![r] = q]
    BY DEF GoOnAs
  <1> HIDE DEF q
  <1> QED BY <1>2, <1>3, <1>4 DEF GoesOn

LEMMA EndEffect ==
    ASSUME IdInv, NEW r \in Request, NEW step \in Steps, EndTransaction(r, step)
    PROVE  /\ \E q \in IdentityRequest :
                 /\ requests' = [requests EXCEPT ![r] = q]
                 /\ Kept(q, requests[r]) /\ q.step = step
                 /\ q.connection = None /\ q.row = None /\ q.user = requests[r].user
           /\ current_user_id' \in [Connection -> User \cup {None}]
           /\ \A c \in Connection : current_user_id'[c] =
                 IF c = requests[r].connection THEN None ELSE current_user_id[c]
  <1> DEFINE q == [requests[r] EXCEPT !.step = step, !.connection = None, !.row = None]
  <1>1. requests[r] \in IdentityRequest
    BY DEF IdInv, IdentityTypeOK
  <1>2. /\ q.step = step /\ Kept(q, requests[r])
        /\ q.connection = None /\ q.row = None /\ q.user = requests[r].user
    BY <1>1 DEF IdentityRequest, Kept
  <1>3. q \in IdentityRequest
    BY <1>1 DEF IdentityRequest, Steps
  <1>4. requests' = [requests EXCEPT ![r] = q]
    BY <1>1 DEF EndTransaction, IdInv, IdentityTypeOK, IdentityRequest
  <1> HIDE DEF q
  <1>5. current_user_id' \in [Connection -> User \cup {None}]
    BY DEF EndTransaction, IdInv, IdentityTypeOK
  <1> QED BY <1>2, <1>3, <1>4, <1>5 DEF EndTransaction

\* A transaction rolled back by a refusal or by a failure.
LEMMA RollBackKeeps ==
    ASSUME IdInv, NEW r \in Request, NEW step \in {"refused", "failed"}, RollBack(r, step),
           requests[r].step \notin {"new", "done", "refused"},
           step = "refused" /\ requests[r].kind = "login" => ~ requests[r].had
    PROVE  IdInv'
  <1>1. step \in Steps /\ EndTransaction(r, step) /\ UNCHANGED tables
    BY DEF RollBack, Steps
  <1>2. PICK q \in IdentityRequest :
            /\ requests' = [requests EXCEPT ![r] = q]
            /\ Kept(q, requests[r]) /\ q.step = step
            /\ q.connection = None /\ q.row = None /\ q.user = requests[r].user
    BY <1>1, EndEffect
  <1>3. /\ current_user_id' \in [Connection -> User \cup {None}]
        /\ \A c \in Connection : current_user_id'[c] =
              IF c = requests[r].connection THEN None ELSE current_user_id[c]
    BY <1>1, EndEffect
  <1>4. KindFits(r, requests[r]) /\ LoginFits(requests[r])
    BY DEF IdInv, Fits
  <1>5. KindFits(r, q)
    BY <1>2, <1>4 DEF KindFits, Kept
  <1>6. LoginFits(q)
    BY <1>2, <1>4 DEF LoginFits, Kept
  <1>7. Connected(q) /\ SettingFits(q)' /\ RowFree(q.row)
    BY <1>2 DEF Connected, Waiting, SettingFits, RowFree
  <1> QED BY <1>1, <1>2, <1>3, <1>5, <1>6, <1>7, RequestMoves

\* A statement of a transaction that leaves the settings alone.
LEMMA GoesOnKeeps ==
    ASSUME IdInv, NEW r \in Request, NEW q \in IdentityRequest, GoesOn(r, q),
           UNCHANGED <<tables, current_user_id>>,
           ~ Waiting(requests[r].step), ~ Waiting(q.step),
           q.user = requests[r].user \/ current_user_id[q.connection] = None,
           SettingFits(q), KindFits(r, q), LoginFits(q), RowFree(q.row),
           \/ q.row = requests[r].row
           \/ \A o \in Request : o # r /\ requests[o].row # None =>
                 ~ SameKey(requests[o].row, q.row)
    PROVE  IdInv'
  <1>1. requests[r].connection # None /\ Connected(q)
    BY DEF IdInv, Connected, GoesOn
  <1>2. current_user_id' \in [Connection -> User \cup {None}]
    BY DEF IdInv, IdentityTypeOK
  <1>3. \A o \in Request : o # r => requests[o].connection # q.connection
    BY <1>1 DEF IdInv, Apart, GoesOn
  <1>4. ASSUME NEW c \in Connection, c = requests[r].connection, current_user_id'[c] # None
        PROVE  q.connection = c /\ q.user = current_user_id'[c]
    <2>1. SettingOwned(c)
      BY DEF IdInv
    <2> QED BY <1>3, <1>4, <2>1 DEF SettingOwned, GoesOn
  <1>5. q.row # None => \A o \in Request : o # r /\ requests[o].row # None =>
            ~ SameKey(requests[o].row, q.row)
    BY DEF IdInv, RowsApart
  <1>6. SettingFits(q)'
    BY DEF SettingFits
  <1> QED BY <1>1, <1>2, <1>3, <1>4, <1>5, <1>6, RequestMoves DEF GoesOn

LEMMA ConnectEffect ==
    ASSUME IdInv, NEW r \in Request, Connect(r)
    PROVE  \E c \in Connection, q \in IdentityRequest :
              /\ \A o \in Request : requests[o].connection # c
              /\ requests' = [requests EXCEPT ![r] = q]
              /\ q.step = "selecting" /\ Kept(q, requests[r])
              /\ q.connection = c /\ q.row = requests[r].row /\ q.user = requests[r].user
  <1>1. PICK c \in Connection :
            /\ \A q \in Request : requests[q].connection # c
            /\ requests' = [requests EXCEPT ![r].step = "selecting", ![r].connection = c]
    BY DEF Connect
  <1> DEFINE q == [requests[r] EXCEPT !.step = "selecting", !.connection = c]
  <1>2. requests[r] \in IdentityRequest
    BY DEF IdInv, IdentityTypeOK
  <1>3. /\ q.step = "selecting" /\ Kept(q, requests[r])
        /\ q.connection = c /\ q.row = requests[r].row /\ q.user = requests[r].user
    BY <1>2 DEF IdentityRequest, Kept
  <1>4. q \in IdentityRequest
    BY <1>2 DEF IdentityRequest
  <1>5. requests' = [requests EXCEPT ![r] = q]
    BY <1>1, <1>2 DEF IdInv, IdentityTypeOK, IdentityRequest
  <1> HIDE DEF q
  <1> QED BY <1>1, <1>3, <1>4, <1>5

LEMMA ConnectKeeps ==
    ASSUME IdInv, NEW r \in Request, Connect(r)
    PROVE  IdInv'
  <1>1. PICK c \in Connection, q \in IdentityRequest :
            /\ \A o \in Request : requests[o].connection # c
            /\ requests' = [requests EXCEPT ![r] = q]
            /\ q.step = "selecting" /\ Kept(q, requests[r])
            /\ q.connection = c /\ q.row = requests[r].row /\ q.user = requests[r].user
    BY ConnectEffect
  <1>2. /\ requests[r].step = "queued" /\ Fits(r, requests[r])
        /\ UNCHANGED tables /\ current_user_id' = current_user_id
    BY DEF Connect, IdInv
  <1>3. requests[r].row = None
    BY <1>2 DEF Fits, KindFits
  <1>4. KindFits(r, q) /\ RowFree(q.row)
    BY <1>1, <1>2, <1>3 DEF Fits, KindFits, RowFree, Kept
  <1>5. LoginFits(q)
    BY <1>1, <1>2 DEF Fits, LoginFits, Kept
  <1>6. current_user_id[c] = None
    BY <1>1 DEF IdInv, SettingOwned
  <1>7. SettingFits(q)'
    BY <1>1, <1>2, <1>6 DEF SettingFits
  <1>8. Connected(q)
    BY <1>1, IdentityNoneAssumption DEF Connected, Waiting
  <1>9. ASSUME NEW d \in Connection, d = requests[r].connection, current_user_id'[d] # None
        PROVE  q.connection = d /\ q.user = current_user_id'[d]
    <2>1. Connected(requests[r])
      BY DEF IdInv
    <2> QED BY <1>2, <1>9, <2>1, IdentityNoneAssumption DEF Connected, Waiting
  <1>10. current_user_id' \in [Connection -> User \cup {None}]
    BY <1>2 DEF IdInv, IdentityTypeOK
  <1> QED BY <1>1, <1>2, <1>3, <1>4, <1>5, <1>7, <1>8, <1>9, <1>10, RequestMoves

LEMMA SelectByEmailKeeps ==
    ASSUME IdInv, NEW r \in Request, SelectByEmail(r)
    PROVE  IdInv'
  <1>1. /\ requests[r].step = "selecting" /\ requests[r] \in IdentityRequest
        /\ KindFits(r, requests[r]) /\ LoginFits(requests[r]) /\ SettingFits(requests[r])
    BY DEF SelectByEmail, IdInv, IdentityTypeOK, Fits
  <1>2. CASE \/ RollBack(r, "failed")
             \/ requests[r].kind # "login" /\ RollBack(r, "refused")
    BY <1>1, <1>2, RollBackKeeps
  <1>3. CASE requests[r].kind = "register" /\ GoOn(r, "inserting")
    <2>1. PICK q \in IdentityRequest :
              /\ GoesOn(r, q) /\ q.step = "inserting"
              /\ q.row = requests[r].row /\ q.user = requests[r].user
      BY <1>3, GoOnEffect DEF GoOn, Steps
    <2>2. KindFits(r, q) /\ LoginFits(q)
      BY <1>1, <1>3, <2>1 DEF KindFits, LoginFits, GoesOn, Kept
    <2>3. SettingFits(q)
      BY <1>1, <2>1 DEF SettingFits, GoesOn
    <2>4. RowFree(q.row)
      BY <1>1, <2>1 DEF KindFits, RowFree
    <2>5. UNCHANGED <<tables, current_user_id>>
      BY <1>3 DEF GoOn
    <2>6. ~ Waiting(requests[r].step) /\ ~ Waiting(q.step)
      BY <1>1, <2>1 DEF Waiting
    <2> QED BY <2>1, <2>2, <2>3, <2>4, <2>5, <2>6, GoesOnKeeps
  <1>4. CASE /\ requests[r].kind = "login" /\ WithEmail(requests[r].email) = {}
             /\ RollBack(r, "refused")
    <2>1. ~ requests[r].had
      BY <1>1, <1>4 DEF LoginFits, IsAccount, WithEmail
    <2> QED BY <1>1, <1>4, <2>1, RollBackKeeps
  <1>5. ASSUME requests[r].kind = "login", NEW u \in WithEmail(requests[r].email),
               GoOnAs(r, u, "verifying")
        PROVE  IdInv'
    <2>1. u \in User /\ users[u] # None /\ users[u].email = requests[r].email
      BY DEF WithEmail
    <2>2. PICK q \in IdentityRequest :
              /\ GoesOn(r, q) /\ q.step = "verifying"
              /\ q.row = requests[r].row /\ q.user = u
      BY <1>5, <2>1, GoOnAsEffect DEF Steps
    <2>3. KindFits(r, q)
      BY <1>1, <1>5, <2>2 DEF KindFits, GoesOn, Kept
    <2>4. LoginFits(q)
      BY <1>1, <1>5, <2>1, <2>2 DEF LoginFits, GoesOn, Kept
    <2>5. SettingFits(q) /\ current_user_id[q.connection] = None
      BY <1>1, <2>1, <2>2, IdentityNoneAssumption DEF SettingFits, GoesOn, User
    <2>6. RowFree(q.row)
      BY <1>1, <2>2 DEF KindFits, RowFree
    <2>7. UNCHANGED <<tables, current_user_id>>
      BY <1>5 DEF GoOnAs
    <2>8. ~ Waiting(requests[r].step) /\ ~ Waiting(q.step)
      BY <1>1, <2>2 DEF Waiting
    <2> QED BY <2>2, <2>3, <2>4, <2>5, <2>6, <2>7, <2>8, GoesOnKeeps
  <1> QED BY <1>2, <1>3, <1>4, <1>5 DEF SelectByEmail

LEMMA SelectBySubjectKeeps ==
    ASSUME IdInv, NEW r \in Request, SelectBySubject(r)
    PROVE  IdInv'
  <1>1. /\ requests[r].step = "selecting" /\ requests[r].kind = "call"
        /\ requests[r] \in IdentityRequest
        /\ KindFits(r, requests[r]) /\ LoginFits(requests[r]) /\ SettingFits(requests[r])
    BY DEF SelectBySubject, IdInv, IdentityTypeOK, Fits
  <1>2. CASE WithSubject(requests[r].subject) = {} /\ GoOn(r, "inserting")
    <2>1. PICK q \in IdentityRequest :
              /\ GoesOn(r, q) /\ q.step = "inserting"
              /\ q.row = requests[r].row /\ q.user = requests[r].user
      BY <1>2, GoOnEffect DEF GoOn, Steps
    <2>2. KindFits(r, q) /\ LoginFits(q)
      BY <1>1, <1>2, <2>1 DEF KindFits, LoginFits, GoesOn, Kept
    <2>3. SettingFits(q)
      BY <1>1, <2>1 DEF SettingFits, GoesOn
    <2>4. RowFree(q.row)
      BY <1>1, <2>1 DEF KindFits, RowFree
    <2>5. UNCHANGED <<tables, current_user_id>>
      BY <1>2 DEF GoOn
    <2>6. ~ Waiting(requests[r].step) /\ ~ Waiting(q.step)
      BY <1>1, <2>1 DEF Waiting
    <2> QED BY <2>1, <2>2, <2>3, <2>4, <2>5, <2>6, GoesOnKeeps
  <1>3. ASSUME NEW u \in WithSubject(requests[r].subject), GoOnAs(r, u, "binding")
        PROVE  IdInv'
    <2>1. u \in User
      BY DEF WithSubject
    <2>2. PICK q \in IdentityRequest :
              /\ GoesOn(r, q) /\ q.step = "binding"
              /\ q.row = requests[r].row /\ q.user = u
      BY <1>3, <2>1, GoOnAsEffect DEF Steps
    <2>3. KindFits(r, q)
      BY <1>1, <2>2 DEF KindFits, GoesOn, Kept
    <2>4. LoginFits(q)
      BY <1>1, <2>2 DEF LoginFits, GoesOn, Kept
    <2>5. SettingFits(q) /\ current_user_id[q.connection] = None
      BY <1>1, <2>1, <2>2, IdentityNoneAssumption DEF SettingFits, GoesOn, User
    <2>6. RowFree(q.row)
      BY <1>1, <2>2 DEF KindFits, RowFree
    <2>7. UNCHANGED <<tables, current_user_id>>
      BY <1>3 DEF GoOnAs
    <2>8. ~ Waiting(requests[r].step) /\ ~ Waiting(q.step)
      BY <1>1, <2>2 DEF Waiting
    <2> QED BY <2>2, <2>3, <2>4, <2>5, <2>6, <2>7, <2>8, GoesOnKeeps
  <1> QED BY <1>2, <1>3 DEF SelectBySubject

LEMMA InsertEffect ==
    ASSUME IdInv, NEW r \in Request, NEW row \in Row,
           requests' = [requests EXCEPT ![r].step = "binding", ![r].user = r, ![r].row = row]
    PROVE  \E q \in IdentityRequest :
              GoesOn(r, q) /\ q.step = "binding" /\ q.row = row /\ q.user = r
  <1> DEFINE q == [requests[r] EXCEPT !.step = "binding", !.user = r, !.row = row]
  <1>1. requests[r] \in IdentityRequest /\ r \in User
    BY DEF IdInv, IdentityTypeOK, User
  <1>2. /\ q.step = "binding" /\ Kept(q, requests[r])
        /\ q.connection = requests[r].connection /\ q.row = row /\ q.user = r
    BY <1>1 DEF IdentityRequest, Kept
  <1>3. q \in IdentityRequest
    BY <1>1 DEF IdentityRequest
  <1>4. requests' = [requests EXCEPT ![r] = q]
    BY <1>1 DEF IdInv, IdentityTypeOK, IdentityRequest
  <1> HIDE DEF q
  <1> QED BY <1>2, <1>3, <1>4 DEF GoesOn

LEMMA InsertUserKeeps ==
    ASSUME IdInv, NEW r \in Request, InsertUser(r)
    PROVE  IdInv'
  <1>1. /\ requests[r].step = "inserting" /\ requests[r] \in IdentityRequest
        /\ KindFits(r, requests[r]) /\ LoginFits(requests[r]) /\ SettingFits(requests[r])
        /\ ~ KeyPending(r, NewRow(r))
    BY DEF InsertUser, IdInv, IdentityTypeOK, Fits
  <1>2. requests[r].kind \in {"register", "call"}
    BY <1>1 DEF IdentityRequest, KindFits
  <1>3. CASE KeyTaken(NewRow(r))
    <2>1. RollBack(r, "failed")
      BY <1>3 DEF InsertUser
    <2> QED BY <1>1, <2>1, RollBackKeeps
  <1>4. CASE ~ KeyTaken(NewRow(r))
    <2>1. NewRow(r) \in Row
      BY <1>1, <1>2 DEF NewRow, Row, KindFits, Subject, User
    <2>2. PICK row \in Row : row = NewRow(r)
      BY <2>1
    <2>3. PICK q \in IdentityRequest :
              GoesOn(r, q) /\ q.step = "binding" /\ q.row = row /\ q.user = r
      <3>1. requests' = [requests EXCEPT ![r].step = "binding", ![r].user = r,
                                         ![r].row = NewRow(r)]
        BY <1>4 DEF InsertUser
      <3> QED BY <2>2, <3>1, InsertEffect
    <2>4. q.row = Inserts(r, q)
      BY <1>2, <2>2, <2>3 DEF GoesOn, Kept, NewRow, Inserts
    <2>5. KindFits(r, q)
      BY <1>1, <1>2, <2>3, <2>4, IdentityNoneAssumption DEF KindFits, GoesOn, Kept
    <2>6. LoginFits(q)
      BY <1>2, <2>3 DEF LoginFits, GoesOn, Kept
    <2>7. SettingFits(q) /\ current_user_id[q.connection] = None
      BY <1>1, <2>3, IdentityNoneAssumption DEF SettingFits, GoesOn
    <2>8. RowFree(q.row)
      BY <1>4, <2>2, <2>3 DEF RowFree
    <2>9. \A o \in Request : o # r /\ requests[o].row # None =>
              ~ SameKey(requests[o].row, q.row)
      BY <1>1, <2>2, <2>3 DEF KeyPending
    <2>10. UNCHANGED <<tables, current_user_id>>
      BY <1>4 DEF InsertUser
    <2>11. ~ Waiting(requests[r].step) /\ ~ Waiting(q.step)
      BY <1>1, <2>3 DEF Waiting
    <2> QED BY <2>3, <2>5, <2>6, <2>7, <2>8, <2>9, <2>10, <2>11, GoesOnKeeps
  <1> QED BY <1>3, <1>4

\* A statement after which the request goes on with the same user and row.
LEMMA GoOnKeeps ==
    ASSUME IdInv, NEW r \in Request, NEW step \in {"binding", "committing"}, GoOn(r, step),
           step = "binding" => requests[r].step = "verifying" /\ requests[r].kind = "login" /\
              IsAccount(requests[r].user, requests[r].email, requests[r].password),
           step = "committing" => requests[r].step \in {"joining", "reading"}
    PROVE  IdInv'
  <1>1. /\ requests[r] \in IdentityRequest /\ RowFree(requests[r].row)
        /\ KindFits(r, requests[r]) /\ LoginFits(requests[r]) /\ SettingFits(requests[r])
    BY DEF IdInv, IdentityTypeOK, Fits
  <1>2. PICK q \in IdentityRequest :
            /\ GoesOn(r, q) /\ q.step = step
            /\ q.row = requests[r].row /\ q.user = requests[r].user
    <2>1. step \in Steps
      BY DEF Steps
    <2> QED BY <2>1, GoOnEffect DEF GoOn
  <1>3. Inserts(r, q) = Inserts(r, requests[r])
    BY <1>2 DEF GoesOn, Kept, Inserts
  <1>4. KindFits(r, q)
    BY <1>1, <1>2, <1>3 DEF KindFits, GoesOn, Kept
  <1>5. LoginFits(q)
    BY <1>1, <1>2 DEF LoginFits, KindFits, GoesOn, Kept
  <1>6. SettingFits(q)
    BY <1>1, <1>2 DEF SettingFits, GoesOn
  <1>7. UNCHANGED <<tables, current_user_id>>
    BY DEF GoOn
  <1>8. ~ Waiting(requests[r].step) /\ ~ Waiting(q.step)
    BY <1>2 DEF Waiting
  <1> QED BY <1>1, <1>2, <1>4, <1>5, <1>6, <1>7, <1>8, GoesOnKeeps

LEMMA VerifyPasswordKeeps ==
    ASSUME IdInv, NEW r \in Request, VerifyPassword(r)
    PROVE  IdInv'
  <1>1. /\ requests[r].step = "verifying" /\ requests[r] \in IdentityRequest
        /\ KindFits(r, requests[r]) /\ LoginFits(requests[r]) /\ SettingFits(requests[r])
    BY DEF VerifyPassword, IdInv, IdentityTypeOK, Fits
  <1>2. requests[r].kind = "login" /\ requests[r].password \in Password
    BY <1>1 DEF IdentityRequest, KindFits
  <1>3. /\ requests[r].user \in User /\ users[requests[r].user] # None
        /\ users[requests[r].user].email = requests[r].email
    BY <1>1, <1>2 DEF SettingFits, LoginFits, IdentityRequest
  <1>4. CASE credentials[requests[r].user] = Hashed[requests[r].password]
    <2>1. GoOn(r, "binding")
      BY <1>4 DEF VerifyPassword
    <2>2. IsAccount(requests[r].user, requests[r].email, requests[r].password)
      BY <1>3, <1>4 DEF IsAccount
    <2> QED BY <1>1, <1>2, <2>1, <2>2, GoOnKeeps
  <1>5. CASE credentials[requests[r].user] # Hashed[requests[r].password]
    <2>1. RollBack(r, "refused")
      BY <1>5 DEF VerifyPassword
    <2>2. ASSUME requests[r].had PROVE FALSE
      <3>1. PICK u \in User : IsAccount(u, requests[r].email, requests[r].password)
        BY <1>1, <1>2, <2>2 DEF LoginFits
      <3>2. WithEmail(requests[r].email) = {u}
        BY <1>2, <3>1, AccountAlone
      <3>3. requests[r].user = u
        BY <1>3, <3>2 DEF WithEmail
      <3> QED BY <1>5, <3>1, <3>3 DEF IsAccount
    <2> QED BY <1>1, <2>1, <2>2, RollBackKeeps
  <1> QED BY <1>4, <1>5

LEMMA BindUserKeeps ==
    ASSUME IdInv, NEW r \in Request, BindUser(r)
    PROVE  IdInv'
  <1>1. /\ requests[r].step = "binding" /\ requests[r] \in IdentityRequest
        /\ KindFits(r, requests[r]) /\ LoginFits(requests[r]) /\ SettingFits(requests[r])
        /\ RowFree(requests[r].row) /\ Connected(requests[r])
    BY DEF BindUser, IdInv, IdentityTypeOK, Fits
  <1>2. PICK step \in {"joining", "committing", "reading"} :
            /\ requests' = [requests EXCEPT ![r].step = step]
            /\ step = "joining" <=> requests[r].kind = "register"
            /\ step = "committing" => requests[r].kind = "call"
    <2>1. CASE requests[r].kind = "register"
      BY <2>1 DEF BindUser
    <2>2. CASE requests[r].kind = "call" /\ requests[r].engagement = None
      BY <2>2 DEF BindUser
    <2>3. CASE /\ requests[r].kind # "register"
               /\ ~ (requests[r].kind = "call" /\ requests[r].engagement = None)
      BY <2>3 DEF BindUser
    <2> QED BY <2>1, <2>2, <2>3
  <1>3. PICK q \in IdentityRequest :
            /\ GoesOn(r, q) /\ q.step = step
            /\ q.row = requests[r].row /\ q.user = requests[r].user
    <2>1. step \in Steps
      BY DEF Steps
    <2> QED BY <1>2, <2>1, GoOnEffect
  <1>4. Inserts(r, q) = Inserts(r, requests[r])
    BY <1>3 DEF GoesOn, Kept, Inserts
  <1>5. KindFits(r, q)
    BY <1>1, <1>2, <1>3, <1>4 DEF KindFits, GoesOn, Kept
  <1>6. LoginFits(q)
    BY <1>1, <1>2, <1>3 DEF LoginFits, GoesOn, Kept
  <1>7. /\ requests[r].connection \in Connection
        /\ q.connection = requests[r].connection
        /\ requests[r].user \in User
    BY <1>1, <1>3 DEF Connected, Waiting, SettingFits, IdentityRequest, GoesOn
  <1>8. /\ current_user_id' =
              [current_user_id EXCEPT ![requests[r].connection] = requests[r].user]
        /\ UNCHANGED tables
    BY DEF BindUser
  <1>9. /\ current_user_id' \in [Connection -> User \cup {None}]
        /\ current_user_id'[q.connection] = q.user
        /\ \A c \in Connection :
              c # requests[r].connection => current_user_id'[c] = current_user_id[c]
    BY <1>3, <1>7, <1>8 DEF IdInv, IdentityTypeOK
  <1>10. SettingFits(q)'
    BY <1>1, <1>2, <1>3, <1>9 DEF SettingFits
  <1>11. Connected(q) /\ RowFree(q.row)
    BY <1>1, <1>2, <1>3, <1>7 DEF Connected, Waiting
  <1>12. \A o \in Request : o # r => requests[o].connection # q.connection
    BY <1>1, <1>7 DEF IdInv, Apart, Connected, Waiting
  <1>13. q.row # None => \A o \in Request : o # r /\ requests[o].row # None =>
            ~ SameKey(requests[o].row, q.row)
    BY <1>3 DEF IdInv, RowsApart
  <1>14. requests' = [requests EXCEPT ![r] = q]
    BY <1>3 DEF GoesOn
  <1> QED BY <1>5, <1>6, <1>7, <1>8, <1>9, <1>10, <1>11, <1>12, <1>13, <1>14, RequestMoves

LEMMA MembershipKeeps ==
    ASSUME IdInv, NEW r \in Request, AddMember(r) \/ ReadMembership(r)
    PROVE  IdInv'
  <1>1. CASE AddMember(r)
    <2>1. requests[r].step = "joining"
      BY <1>1 DEF AddMember
    <2>2. GoOn(r, "committing") \/ RollBack(r, "failed")
      BY <1>1 DEF AddMember
    <2> QED BY <2>1, <2>2, GoOnKeeps, RollBackKeeps
  <1>2. CASE ReadMembership(r)
    <2>1. requests[r].step = "reading"
      BY <1>2 DEF ReadMembership
    <2>2. \/ GoOn(r, "committing")
          \/ requests[r].kind = "call" /\ RollBack(r, "refused")
      BY <1>2 DEF ReadMembership
    <2> QED BY <2>1, <2>2, GoOnKeeps, RollBackKeeps
  <1> QED BY <1>1, <1>2

LEMMA FailKeeps ==
    ASSUME IdInv, NEW r \in Request, Fail(r)
    PROVE  IdInv'
  BY RollBackKeeps DEF Fail, Active

(***************************************************************************)
(* How requests begin and commit                                           *)
(***************************************************************************)
LEMMA BeginKeeps ==
    ASSUME IdInv, NEW r \in Request, requests[r].step = "new",
           NEW q \in IdentityRequest, Begin(r, q),
           q.step \in {"queued", "refused"}, q.connection = None, q.row = None,
           KindFits(r, q), LoginFits(q)
    PROVE  IdInv'
  <1>1. Connected(requests[r])
    BY DEF IdInv
  <1>2. ASSUME NEW c \in Connection PROVE c # requests[r].connection
    BY <1>1, IdentityNoneAssumption DEF Connected, Waiting
  <1>3. requests' = [requests EXCEPT ![r] = q] /\ UNCHANGED <<tables, current_user_id>>
    BY DEF Begin
  <1>4. current_user_id' \in [Connection -> User \cup {None}]
    BY <1>3 DEF IdInv, IdentityTypeOK
  <1>5. Connected(q) /\ RowFree(q.row) /\ SettingFits(q)'
    BY DEF Connected, Waiting, RowFree, SettingFits
  <1> QED BY <1>2, <1>3, <1>4, <1>5, RequestMoves

\* A request begins with no row of its own in the table.
LEMMA NoRowYet ==
    ASSUME IdInv, NEW r \in Request, requests[r].step = "new"
    PROVE  users[r] = None
  <1>1. KindFits(r, requests[r])
    BY DEF IdInv, Fits
  <1> QED BY <1>1 DEF KindFits

LEMMA BeginRegisterKeeps ==
    ASSUME IdInv, NEW r \in Request, NEW a \in Address, NEW p \in Password,
           BeginRegister(r, a, p)
    PROVE  IdInv'
  <1>1. PICK step \in {"refused", "queued"} :
            step = IF Lower[a] \in Invalid THEN "refused" ELSE "queued"
    OBVIOUS
  <1> DEFINE q == [NewRequest EXCEPT !.kind = "register", !.email = Lower[a], !.password = p,
                                     !.step = step]
  <1>2. /\ Lower[a] \in Address \cup {Empty}
        /\ step # "refused" => Lower[a] \in Address /\ Lower[Lower[a]] = Lower[a]
    BY <1>1, AddressAssumption
  <1>3. /\ q.kind = "register" /\ q.email = Lower[a] /\ q.password = p /\ q.step = step
        /\ q.connection = None /\ q.row = None
    BY DEF NewRequest
  <1>4. q \in IdentityRequest
    BY <1>2 DEF NewRequest, IdentityRequest
  <1>5. Begin(r, q) /\ requests[r].step = "new"
    BY <1>1 DEF BeginRegister, Unused
  <1> HIDE DEF q
  <1>6. KindFits(r, q) /\ LoginFits(q)
    BY <1>2, <1>3, <1>5, NoRowYet DEF KindFits, LoginFits
  <1> QED BY <1>3, <1>4, <1>5, <1>6, BeginKeeps

LEMMA AccountFound ==
    ASSUME IdInv, NEW a \in Address, NEW p \in Password, HasAccount(a, p)
    PROVE  \E u \in User : IsAccount(u, Lower[a], p)
  <1>1. PICK u \in User : credentials[u] = Hashed[p] /\ Lower[users[u].email] = Lower[a]
    BY DEF HasAccount
  <1>2. AccountWhole(u) /\ credentials[u] # None
    BY <1>1, IdentityNoneAssumption DEF IdInv, TablesFit, Hash
  <1> QED BY <1>1, <1>2 DEF AccountWhole, IsAccount

LEMMA BeginLoginKeeps ==
    ASSUME IdInv, NEW r \in Request, NEW a \in Address, NEW p \in Password,
           BeginLogin(r, a, p)
    PROVE  IdInv'
  <1>1. HasAccount(a, p) \in BOOLEAN
    BY DEF HasAccount
  <1>2. PICK had \in BOOLEAN : had = HasAccount(a, p)
    BY <1>1
  <1> DEFINE q == [NewRequest EXCEPT !.kind = "login", !.email = Lower[a], !.password = p,
                                     !.step = "queued", !.had = had]
  <1>3. Lower[a] \in Address \cup {Empty}
    BY AddressAssumption
  <1>4. /\ q.kind = "login" /\ q.email = Lower[a] /\ q.password = p /\ q.step = "queued"
        /\ q.connection = None /\ q.row = None /\ q.had = had
    BY DEF NewRequest
  <1>5. q \in IdentityRequest
    BY <1>3 DEF NewRequest, IdentityRequest
  <1>6. Begin(r, q) /\ requests[r].step = "new"
    BY <1>2 DEF BeginLogin, Unused
  <1> HIDE DEF q
  <1>7. KindFits(r, q)
    BY <1>3, <1>4, <1>6, NoRowYet DEF KindFits
  <1>8. LoginFits(q)
    BY <1>2, <1>4, AccountFound DEF LoginFits
  <1> QED BY <1>4, <1>5, <1>6, <1>7, <1>8, BeginKeeps

LEMMA BeginCallKeeps ==
    ASSUME IdInv, NEW r \in Request, NEW s \in Subject, NEW e \in Engagement \cup {None},
           BeginCall(r, s, e)
    PROVE  IdInv'
  <1> DEFINE q == [NewRequest EXCEPT !.kind = "call", !.subject = s, !.engagement = e,
                                     !.step = "queued"]
  <1>1. /\ q.kind = "call" /\ q.subject = s /\ q.step = "queued"
        /\ q.connection = None /\ q.row = None
    BY DEF NewRequest
  <1>2. q \in IdentityRequest
    BY DEF NewRequest, IdentityRequest
  <1>3. Begin(r, q) /\ requests[r].step = "new"
    BY DEF BeginCall
  <1> HIDE DEF q
  <1>4. KindFits(r, q)
    BY <1>1, <1>3, NoRowYet DEF KindFits, BeginCall
  <1>5. LoginFits(q)
    BY <1>1 DEF LoginFits
  <1> QED BY <1>1, <1>2, <1>3, <1>4, <1>5, BeginKeeps

LEMMA CommitEffect ==
    ASSUME IdInv, NEW r \in Request, CommitRequest(r)
    PROVE  \E q \in IdentityRequest :
              /\ requests' = [requests EXCEPT ![r] = q]
              /\ Kept(q, requests[r]) /\ q.step = "done"
              /\ q.connection = None /\ q.row = None /\ q.user = requests[r].user
  <1>1. EndTransaction(r, "done") /\ "done" \in Steps
    BY DEF CommitRequest, Steps
  <1> QED BY <1>1, EndEffect

LEMMA CommitReads ==
    ASSUME IdInv, NEW r \in Request, CommitRequest(r), requests[r].row = None
    PROVE  IdInv'
  <1>1. PICK q \in IdentityRequest :
            /\ requests' = [requests EXCEPT ![r] = q]
            /\ Kept(q, requests[r]) /\ q.step = "done"
            /\ q.connection = None /\ q.row = None /\ q.user = requests[r].user
    BY CommitEffect
  <1>2. /\ current_user_id' \in [Connection -> User \cup {None}]
        /\ \A c \in Connection : current_user_id'[c] =
              IF c = requests[r].connection THEN None ELSE current_user_id[c]
    BY EndEffect DEF CommitRequest, Steps
  <1>3. KindFits(r, requests[r]) /\ LoginFits(requests[r]) /\ requests[r].step = "committing"
    BY DEF IdInv, Fits, CommitRequest
  <1>4. requests[r].kind # "register"
    BY <1>3 DEF KindFits
  <1>5. UNCHANGED tables
    BY <1>4 DEF CommitRequest, tables
  <1>6. KindFits(r, q)
    BY <1>1, <1>3, <1>4 DEF KindFits, Kept
  <1>7. LoginFits(q)
    BY <1>1, <1>3 DEF LoginFits, Kept
  <1>8. Connected(q) /\ SettingFits(q)' /\ RowFree(q.row)
    BY <1>1 DEF Connected, Waiting, SettingFits, RowFree
  <1> QED BY <1>1, <1>2, <1>5, <1>6, <1>7, <1>8, RequestMoves

\* What a commit with a row writes: the row, and for a sign-up its credential and
\* its membership.
LEMMA CommitWrites ==
    ASSUME IdInv, NEW r \in Request, CommitRequest(r), requests[r].row # None
    PROVE  /\ users[r] = None
           /\ users' \in [User -> Row \cup {None}]
           /\ users'[r] = requests[r].row
           /\ \A u \in User : u # r => users'[u] = users[u]
           /\ credentials' \in [User -> Hash \cup {None}]
           /\ \A u \in User : u # r => credentials'[u] = credentials[u]
           /\ members \subseteq members' /\ members' \subseteq Membership
           /\ \A m \in members' : m \in members \/ m.user = r
           /\ ~ KeyTaken(requests[r].row)
           /\ AccountWhole(r)'
  <1>1. /\ requests[r].step = "committing" /\ requests[r] \in IdentityRequest /\ r \in User
        /\ KindFits(r, requests[r]) /\ RowFree(requests[r].row) /\ AccountWhole(r)
    BY DEF IdInv, IdentityTypeOK, Fits, CommitRequest, TablesFit, User
  <1>2. /\ users[r] = None /\ credentials[r] = None /\ ~ KeyTaken(requests[r].row)
        /\ requests[r].row = Inserts(r, requests[r])
        /\ requests[r].kind \in {"register", "call"}
    BY <1>1 DEF KindFits, RowFree, AccountWhole, IdentityRequest
  <1>3. /\ users' \in [User -> Row \cup {None}]
        /\ users'[r] = requests[r].row
        /\ \A u \in User : u # r => users'[u] = users[u]
    BY <1>1 DEF CommitRequest, IdInv, IdentityTypeOK, IdentityRequest
  <1>4. CASE requests[r].kind = "register"
    <2>1. requests[r].email \in Address /\ Lower[requests[r].email] = requests[r].email
          /\ requests[r].password \in Password
      BY <1>1, <1>4 DEF KindFits
    <2>2. /\ credentials' = [credentials EXCEPT ![r] = Hashed[requests[r].password]]
          /\ members' = members \cup {[user |-> r, engagement |-> DefaultEngagement]}
      BY <1>4 DEF CommitRequest
    <2>3. users'[r].email = requests[r].email /\ users'[r].entra_object_id = LocalSubject(r)
      BY <1>2, <1>3, <1>4 DEF Inserts
    <2>4. credentials'[r] = Hashed[requests[r].password] /\ credentials'[r] \in Hash
      BY <1>1, <2>1, <2>2 DEF IdInv, IdentityTypeOK, Hash
    <2>5. AccountWhole(r)'
      <3>1. users'[r] # None /\ users'[r].email # Empty
        BY <1>3, <2>1, <2>3, AddressAssumption
      <3>2. users'[r].entra_object_id \notin EntraSubject
        BY <1>1, <2>3, SubjectAssumption
      <3>3. credentials'[r] # None
        BY <2>1, <2>4, IdentityNoneAssumption
      <3>4. [user |-> r, engagement |-> DefaultEngagement] \in members'
        BY <2>2
      <3> QED BY <2>1, <2>3, <3>1, <3>2, <3>3, <3>4 DEF AccountWhole
    <2>6. members' \subseteq Membership
      BY <1>1, <2>2, EngagementAssumption DEF IdInv, IdentityTypeOK, Membership
    <2>7. credentials' \in [User -> Hash \cup {None}]
      BY <1>1, <2>2, <2>1 DEF IdInv, IdentityTypeOK, Hash
    <2> QED BY <1>1, <1>2, <1>3, <2>2, <2>5, <2>6, <2>7
  <1>5. CASE requests[r].kind = "call"
    <2>1. UNCHANGED <<credentials, members>> /\ requests[r].subject \in EntraSubject
      BY <1>1, <1>5 DEF CommitRequest, KindFits
    <2>2. users'[r].email = Empty /\ users'[r].entra_object_id = requests[r].subject
      BY <1>2, <1>3, <1>5 DEF Inserts
    <2>3. AccountWhole(r)'
      BY <1>2, <2>1, <2>2 DEF AccountWhole
    <2> QED BY <1>1, <1>2, <1>3, <2>1, <2>3 DEF IdInv, IdentityTypeOK
  <1> QED BY <1>2, <1>4, <1>5

LEMMA CommitRowKeeps ==
    ASSUME IdInv, NEW r \in Request, CommitRequest(r), requests[r].row # None
    PROVE  IdInv'
  <1>1. PICK q \in IdentityRequest :
            /\ requests' = [requests EXCEPT ![r] = q]
            /\ Kept(q, requests[r]) /\ q.step = "done"
            /\ q.connection = None /\ q.row = None /\ q.user = requests[r].user
    BY CommitEffect
  <1>2. /\ current_user_id' \in [Connection -> User \cup {None}]
        /\ \A c \in Connection : current_user_id'[c] =
              IF c = requests[r].connection THEN None ELSE current_user_id[c]
    BY EndEffect DEF CommitRequest, Steps
  <1>3. /\ requests'[r] = q
        /\ \A o \in Request : o # r => requests'[o] = requests[o]
        /\ requests' \in [Request -> IdentityRequest]
    BY <1>1 DEF IdInv, IdentityTypeOK
  <1>4. PICK row \in Row : row = requests[r].row
    BY DEF IdInv, IdentityTypeOK, IdentityRequest
  <1>5. IdentityTypeOK'
    BY <1>2, <1>3, CommitWrites DEF IdInv, IdentityTypeOK
  <1>6. r \in User
    BY DEF User
  <1>7. \A u \in User : users[u] # None => users'[u] = users[u] /\ u # r
    BY CommitWrites
  <1>8. ASSUME NEW u, NEW email, NEW password, IsAccount(u, email, password)
        PROVE  IsAccount(u, email, password)'
    BY <1>7, <1>8, CommitWrites DEF IsAccount
  <1>9. ASSUME NEW s, WithSubject(s) # {} PROVE WithSubject(s)' # {}
    BY <1>7, <1>9 DEF WithSubject
  <1>10. /\ KindFits(r, requests[r]) /\ requests[r].step = "committing"
         /\ requests[r] \in IdentityRequest
    BY DEF IdInv, IdentityTypeOK, Fits, CommitRequest
  <1>11. Connected(requests[r])' /\ Fits(r, requests[r])'
    <2>1. q.kind \in {"register", "call"}
      BY <1>1, <1>10 DEF KindFits, IdentityRequest, Kept
    <2>2. KindFits(r, q)'
      BY <1>1, <1>9, <1>10, <2>1 DEF KindFits, Kept
    <2>3. LoginFits(q)' /\ SettingFits(q)' /\ RowFree(q.row)' /\ Connected(q)
      BY <1>1, <2>1 DEF LoginFits, SettingFits, RowFree, Connected, Waiting
    <2> QED BY <1>3, <2>2, <2>3
        DEF Fits, KindFits, LoginFits, SettingFits, RowFree, KeyTaken, WithSubject, Connected
  <1>12. ASSUME NEW o \in Request, o # r PROVE Connected(requests[o])' /\ Fits(o, requests[o])'
    <2>1. PICK p \in IdentityRequest : p = requests[o]
      BY DEF IdInv, IdentityTypeOK
    <2>2. Connected(p) /\ Fits(o, p) /\ requests'[o] = p
      BY <1>3, <1>12, <2>1 DEF IdInv
    <2>3. ~ Waiting(p.step) => current_user_id'[p.connection] = current_user_id[p.connection]
      <3>1. p.connection # None => p.connection # requests[r].connection
        BY <1>12, <2>1 DEF IdInv, Apart
      <3>2. p.connection \in Connection \cup {None}
        BY DEF IdentityRequest
      <3> QED BY <1>2, <2>2, <3>1, <3>2 DEF Connected
    <2>4. SettingFits(p)'
      BY <2>2, <2>3 DEF Fits, SettingFits, Waiting
    <2>5. KindFits(o, p)'
      <3>1. users'[o] = users[o]
        BY <1>12, CommitWrites DEF User
      <3>2. Inserts(o, p)' = Inserts(o, p)
        BY DEF Inserts
      <3> QED BY <1>9, <2>2, <3>1, <3>2 DEF Fits, KindFits
    <2>6. LoginFits(p)'
      <3>1. p.user \in User \cup {None}
        BY DEF IdentityRequest
      <3>2. p.step = "verifying" => p.user # None
        BY <2>2 DEF Fits, SettingFits
      <3> QED BY <1>7, <1>8, <2>2, <3>1, <3>2 DEF Fits, LoginFits
    <2>7. RowFree(p.row)'
      <3>1. p.row # None => ~ SameKey(row, p.row)
        BY <1>4, <1>12, <2>1 DEF IdInv, RowsApart
      <3>2. RowFree(p.row)
        BY <2>2 DEF Fits
      <3> QED BY <1>4, <3>1, <3>2, CommitWrites DEF RowFree, KeyTaken
    <2> QED BY <2>2, <2>4, <2>5, <2>6, <2>7
        DEF Fits, KindFits, LoginFits, SettingFits, RowFree, KeyTaken, WithSubject, Connected,
            IsAccount
  <1>13. Apart' /\ RowsApart'
    BY <1>1, <1>3 DEF IdInv, Apart, RowsApart, SameKey
  <1>14. ASSUME NEW c \in Connection PROVE SettingOwned(c)'
    BY <1>2, <1>3 DEF IdInv, SettingOwned
  <1>15. TablesFit'
    <2>1. ASSUME NEW u \in User, u # r PROVE AccountWhole(u)'
      <3>1. /\ AccountWhole(u) /\ users'[u] = users[u] /\ credentials'[u] = credentials[u]
            /\ members \subseteq members'
        BY <2>1, CommitWrites DEF IdInv, TablesFit
      <3> QED BY <3>1 DEF AccountWhole
    <2>2. ASSUME NEW u \in User, u # r, users[u] # None
          PROVE  ~ SameKey(users[u], row) /\ ~ SameKey(row, users[u])
      BY <1>4, <2>2, CommitWrites DEF KeyTaken, SameKey
    <2>3. UsersApart'
      BY <1>4, <2>2, CommitWrites DEF IdInv, TablesFit, UsersApart, SameKey
    <2>4. ASSUME NEW m \in members' PROVE users'[m.user] # None
      <3>1. m.user \in User
        BY CommitWrites DEF Membership
      <3> QED BY <1>4, <1>7, <3>1, CommitWrites, IdentityNoneAssumption DEF IdInv, TablesFit
    <2> QED BY <2>1, <2>3, <2>4, CommitWrites DEF TablesFit
  <1> QED BY <1>5, <1>11, <1>12, <1>13, <1>14, <1>15 DEF IdInv

LEMMA GrantKeeps ==
    ASSUME IdInv, NEW u \in User, NEW e \in Engagement, GrantMembership(u, e)
    PROVE  IdInv'
  <1>1. /\ users[u] # None
        /\ members' = members \cup {[user |-> u, engagement |-> e]}
        /\ UNCHANGED <<users, credentials, current_user_id, requests>>
    BY DEF GrantMembership
  <1>2. IdentityTypeOK'
    BY <1>1 DEF IdInv, IdentityTypeOK, Membership
  <1>3. TablesFit'
    BY <1>1 DEF IdInv, TablesFit, AccountWhole, UsersApart
  <1>4. \A r \in Request : Connected(requests[r])' /\ Fits(r, requests[r])'
    BY <1>1 DEF IdInv, Connected, Fits, SettingFits, KindFits, LoginFits, RowFree, KeyTaken,
                WithSubject, IsAccount
  <1>5. (\A c \in Connection : SettingOwned(c)') /\ Apart' /\ RowsApart'
    BY <1>1 DEF IdInv, SettingOwned, Apart, RowsApart
  <1> QED BY <1>2, <1>3, <1>4, <1>5 DEF IdInv

LEMMA StepIdInv == IdInv /\ [Next]_vars => IdInv'
  <1> SUFFICES ASSUME IdInv, [Next]_vars PROVE IdInv'
    OBVIOUS
  <1>1. CASE UNCHANGED identityVars
    <2>1. UNCHANGED <<users, credentials, members, current_user_id, requests>>
      BY <1>1 DEF identityVars
    <2>2. IdentityTypeOK' /\ TablesFit'
      BY <2>1 DEF IdInv, IdentityTypeOK, TablesFit, AccountWhole, UsersApart
    <2>3. \A r \in Request : Connected(requests[r])' /\ Fits(r, requests[r])'
      BY <2>1 DEF IdInv, Connected, Fits, SettingFits, KindFits, LoginFits, RowFree, KeyTaken,
                  WithSubject, IsAccount
    <2>4. (\A c \in Connection : SettingOwned(c)') /\ Apart' /\ RowsApart'
      BY <2>1 DEF IdInv, SettingOwned, Apart, RowsApart
    <2> QED BY <2>2, <2>3, <2>4 DEF IdInv
  <1>2. ASSUME NEW r \in Request, BeginAny(r) PROVE IdInv'
    <2>1. ASSUME NEW kid \in Key, BeginLookup(r, kid) PROVE UNCHANGED identityVars
      BY <2>1 DEF BeginLookup
    <2> QED BY <1>1, <1>2, <2>1, BeginRegisterKeeps, BeginLoginKeeps, BeginCallKeeps DEF BeginAny
  <1>3. ASSUME NEW r \in Request, Continue(r) PROVE IdInv'
    <2>1. CASE CommitRequest(r)
      BY <2>1, CommitReads, CommitRowKeeps
    <2> QED BY <1>1, <1>3, <2>1, ConnectKeeps, SelectByEmailKeeps, SelectBySubjectKeeps,
               InsertUserKeeps, VerifyPasswordKeeps, BindUserKeeps, MembershipKeeps
        DEF Continue
  <1>4. CASE UNCHANGED vars
    BY <1>1, <1>4 DEF vars
  <1> QED BY <1>1, <1>2, <1>3, <1>4, FailKeeps, GrantKeeps DEF Next

(***************************************************************************)
(* The theorems                                                            *)
(***************************************************************************)
LEMMA AlwaysIdInv == Spec => []IdInv
  BY InitIdInv, StepIdInv, PTL DEF Spec

\* The tables, the settings, the requests and the key lookups of apps/api stay well
\* formed, and no two transactions share a connection of the pool.
THEOREM TypeCorrect == Spec => []TypeOK
  <1>1. Init => KeyInv
    BY InitKeyInv DEF Init
  <1> QED BY <1>1, StepKeyInv, AlwaysIdInv, InvTypeOK, PTL DEF Spec

\* However sign-ups and first sign-ins of any number of requests overlap or fail,
\* users, credentials and memberships are written together and each key once.
THEOREM AccountsAlwaysWhole == Spec => []AccountsWhole
  BY AlwaysIdInv, InvAccounts, PTL

\* app.current_user_id never outlives its transaction, and memberships are read and
\* written under the identity of the request that does.
THEOREM IdentityAlwaysOwn == Spec => []OwnIdentityOnly
  BY AlwaysIdInv, InvIdentity, PTL

\* authenticate finds the account register made, however the address was typed, and
\* no other: never the row of somebody who signs in elsewhere, and the only one of
\* its address, whose password has the hash of the one given.
THEOREM LoginsAlwaysFind == Spec => []LoginFindsAccount
  BY AlwaysIdInv, InvLogins, PTL

(***************************************************************************)
(* Waiting                                                                 *)
(***************************************************************************)
\* Waits for a connection of the pool, or for the end of another's transaction.
AwaitsConnection(r) ==
    /\ requests[r].step = "queued"
    /\ \A c \in Connection : \E q \in Request : requests[q].connection = c

AwaitsRow(r, q) ==
    /\ requests[r].step = "inserting"
    /\ q # r /\ requests[q].row # None /\ SameKey(requests[q].row, NewRow(r))

Waits(r) == AwaitsConnection(r) \/ \E q \in Request : AwaitsRow(r, q)

\* Nobody waits in vain, though a request holds its connection while it waits for
\* another's row: at the limit of the pool somebody has a connection and does
\* not wait, and whoever has a row that is waited for goes on without waiting.
NobodyWaitsInVain ==
    \A r \in Request :
        /\ AwaitsConnection(r) =>
              \E q \in Request : Active(q) /\ requests[q].connection # None /\ ~Waits(q)
        /\ \A q \in Request : AwaitsRow(r, q) => Active(q) /\ ~Waits(q)

\* Whoever has a row inserted is past all waiting, and whoever has a connection
\* waits for such a row at most: so however many requests there are and however
\* few connections, one at least, the pool and the unique indexes never make
\* everyone wait.
THEOREM NobodyEverWaitsInVain == Spec => []NobodyWaitsInVain
  <1>1. IdInv => NobodyWaitsInVain
    <2> SUFFICES ASSUME IdInv, NEW r \in Request
                 PROVE  /\ AwaitsConnection(r) =>
                              \E q \in Request :
                                  Active(q) /\ requests[q].connection # None /\ ~ Waits(q)
                        /\ \A q \in Request : AwaitsRow(r, q) => Active(q) /\ ~ Waits(q)
      BY DEF NobodyWaitsInVain
    <2>1. ASSUME NEW q \in Request, requests[q].row # None
          PROVE  Active(q) /\ requests[q].connection # None /\ ~ Waits(q)
      <3>1. requests[q].step \in {"binding", "joining", "reading", "committing"}
        BY <2>1 DEF IdInv, Fits, KindFits
      <3>2. Connected(requests[q])
        BY DEF IdInv
      <3> QED BY <3>1, <3>2 DEF Active, Connected, Waiting, Waits, AwaitsConnection, AwaitsRow
    <2>2. ASSUME AwaitsConnection(r)
          PROVE  \E q \in Request : Active(q) /\ requests[q].connection # None /\ ~ Waits(q)
      <3>1. PICK c \in Connection : TRUE
        BY PoolAssumption
      <3>2. PICK q \in Request : requests[q].connection = c
        BY <2>2, <3>1 DEF AwaitsConnection
      <3>3. requests[q].connection # None
        BY <3>1, <3>2, IdentityNoneAssumption
      <3>4. Active(q) /\ requests[q].step # "queued"
        <4>1. Connected(requests[q])
          BY DEF IdInv
        <4> QED BY <3>3, <4>1 DEF Connected, Waiting, Active
      <3>5. CASE ~ Waits(q)
        BY <3>3, <3>4, <3>5
      <3>6. CASE Waits(q)
        <4>1. PICK p \in Request : AwaitsRow(q, p)
          BY <3>4, <3>6 DEF Waits, AwaitsConnection
        <4> QED BY <2>1, <4>1 DEF AwaitsRow
      <3> QED BY <3>5, <3>6
    <2> QED BY <2>1, <2>2 DEF AwaitsRow
  <1> QED BY <1>1, AlwaysIdInv, PTL
=============================================================================
