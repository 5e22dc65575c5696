------------------------------ MODULE Identity ------------------------------
(***************************************************************************)
(* Users, credentials and memberships of apps/api (identity, with          *)
(* shared/auth.py and shared/database.py): sign-up, login, and the chain   *)
(* every other request goes through, from the bearer token to the user's   *)
(* row, created when it is first seen, to the membership of an engagement. *)
(*                                                                         *)
(* A request is one transaction on a pooled connection.  Row-level         *)
(* security compares app.current_user_id, a setting of the connection that *)
(* ends with the transaction.  An INSERT whose unique key another          *)
(* transaction has inserted and not committed waits for that transaction.  *)
(***************************************************************************)
EXTENDS SigningKeys

CONSTANTS
    Address,            \* email addresses as they are typed
    Lower,              \* strip().lower(): nothing is left of blanks
    Invalid,            \* what sign-up refuses: no "@" in it, or nothing
    Password,
    Hashed,             \* what bcrypt's hash tells of a password: its first 72 bytes
    EntraSubject,       \* the oid of people who sign in with Entra ID
    Engagement,
    DefaultEngagement,  \* the one a sign-up joins
    Connection,         \* the pool
    Empty               \* "", the email of a row that was never enriched

ASSUME AddressAssumption ==
    /\ Lower \in [Address -> Address \cup {Empty}]
    /\ \A a \in Address : Lower[a] # Empty => Lower[Lower[a]] = Lower[a]
    /\ Invalid \subseteq Address \cup {Empty}
    /\ Empty \in Invalid \ Address

ASSUME PasswordAssumption == DOMAIN Hashed = Password

Hash == {Hashed[p] : p \in Password}

ASSUME EngagementAssumption == DefaultEngagement \in Engagement

ASSUME PoolAssumption == Connection # {}

VARIABLES
    users,            \* committed identity.users
    credentials,      \* committed identity.credentials: the password's hash
    members,          \* committed identity.engagement_members
    current_user_id,  \* app.current_user_id of each connection
    requests          \* what each request is doing

identityVars == <<users, credentials, members, current_user_id, requests>>

tables == <<users, credentials, members>>

vars == <<keyVars, identityVars>>

\* A request creates one user at most: it names the uuid.
User == Request

LocalSubject(u) == <<"local", u>>

\* The prefix "never collides with a real Entra object id (a GUID ...)".
ASSUME SubjectAssumption == \A u \in User : LocalSubject(u) \notin EntraSubject

Subject == EntraSubject \cup {LocalSubject(u) : u \in User}

Row == [entra_object_id : Subject, email : Address \cup {Empty}]

Membership == [user : User, engagement : Engagement]

ASSUME IdentityNoneAssumption ==
    /\ None \notin Request /\ None \notin Address \cup {Empty}
    /\ None \notin Password /\ None \notin Hash
    /\ None \notin Subject /\ None \notin Engagement /\ None \notin Connection
    /\ None \notin Row

\* connection: the one its transaction runs on; row: the row of users it has
\* inserted and not committed; user: the one it goes on with; had: history,
\* the account of a login was there when it began.
IdentityRequest ==
    [kind : {"none", "register", "login", "call"},
     step : {"new", "queued", "selecting", "inserting", "verifying", "binding",
             "joining", "reading", "committing", "done", "refused", "failed"},
     email : Address \cup {Empty, None}, password : Password \cup {None},
     subject : Subject \cup {None}, engagement : Engagement \cup {None},
     connection : Connection \cup {None}, row : Row \cup {None},
     user : User \cup {None}, had : BOOLEAN]

NewRequest ==
    [kind |-> "none", step |-> "new", email |-> None, password |-> None,
     subject |-> None, engagement |-> None, connection |-> None, row |-> None,
     user |-> None, had |-> FALSE]

Init ==
    /\ KeysInit
    /\ users = [u \in User |-> None]
    /\ credentials = [u \in User |-> None]
    /\ members = {}
    /\ current_user_id = [c \in Connection |-> None]
    /\ requests = [r \in Request |-> NewRequest]

Active(r) == requests[r].step \notin {"new", "done", "refused", "failed"}

WithEmail(email) == {u \in User : users[u] # None /\ users[u].email = email}

WithSubject(subject) ==
    {u \in User : users[u] # None /\ users[u].entra_object_id = subject}

\* The two unique indexes of users; the empty address is outside the second.
SameKey(row, other) ==
    \/ row.entra_object_id = other.entra_object_id
    \/ row.email # Empty /\ row.email = other.email

----------------------------------------------------------------------------
(***************************************************************************)
(* Sessions                                                                *)
(***************************************************************************)
\* Mutated form: any connection, in use or not.
ConnectAny(r) ==
    /\ requests[r].step = "queued"
    /\ \E c \in Connection :
          requests' = [requests EXCEPT ![r].step = "selecting", ![r].connection = c]
    /\ UNCHANGED <<tables, current_user_id, keyVars>>

\* The first statement takes a connection of the pool, and waits for one.
Connect(r) ==
    /\ requests[r].step = "queued"
    /\ \E c \in Connection :
          /\ \A q \in Request : requests[q].connection # c
          /\ requests' = [requests EXCEPT ![r].step = "selecting", ![r].connection = c]
    /\ UNCHANGED <<tables, current_user_id, keyVars>>

\* Mutated form: set_config(..., false), a setting that outlives the transaction.
EndTransactionBound(r, step) ==
    /\ requests' = [requests EXCEPT ![r].step = step, ![r].connection = None,
                                    ![r].row = None]
    /\ UNCHANGED current_user_id

\* COMMIT or ROLLBACK ends the setting, and the connection goes back.
EndTransaction(r, step) ==
    /\ requests' = [requests EXCEPT ![r].step = step, ![r].connection = None,
                                    ![r].row = None]
    /\ current_user_id' = [c \in Connection |->
          IF c = requests[r].connection THEN None ELSE current_user_id[c]]

\* get_db_session: any exception, a refusal included, rolls everything back.
RollBack(r, step) == EndTransaction(r, step) /\ UNCHANGED <<tables, keyVars>>

GoOn(r, step) ==
    /\ requests' = [requests EXCEPT ![r].step = step]
    /\ UNCHANGED <<tables, current_user_id, keyVars>>

GoOnAs(r, u, step) ==
    /\ requests' = [requests EXCEPT ![r].step = step, ![r].user = u]
    /\ UNCHANGED <<tables, current_user_id, keyVars>>

\* set_rls_user_context
BindUser(r) ==
    /\ requests[r].step = "binding"
    /\ current_user_id' =
          [current_user_id EXCEPT ![requests[r].connection] = requests[r].user]
    /\ requests' = [requests EXCEPT ![r].step =
          CASE requests[r].kind = "register" -> "joining"
            [] requests[r].kind = "call" /\ requests[r].engagement = None -> "committing"
            [] OTHER -> "reading"]
    /\ UNCHANGED <<tables, keyVars>>

----------------------------------------------------------------------------
(***************************************************************************)
(* How requests begin                                                      *)
(***************************************************************************)
Begin(r, request) ==
    /\ requests' = [requests EXCEPT ![r] = request]
    /\ UNCHANGED <<tables, current_user_id, keyVars>>

Unused(r) == requests[r].step = "new" /\ lookups[r].step = "new"

\* Mutated form: the address is kept as it was typed.
BeginRegisterAsTyped(r, a, p) ==
    /\ Unused(r)
    /\ Begin(r, [NewRequest EXCEPT !.kind = "register", !.email = a, !.password = p,
                    !.step = IF Lower[a] \in Invalid THEN "refused" ELSE "queued"])

\* POST /v1/auth/register; the other fields are checked likewise.
BeginRegister(r, a, p) ==
    /\ Unused(r)
    /\ Begin(r, [NewRequest EXCEPT !.kind = "register", !.email = Lower[a], !.password = p,
                    !.step = IF Lower[a] \in Invalid THEN "refused" ELSE "queued"])

\* Somebody has signed up with this password and address, however typed.
HasAccount(a, p) ==
    \E u \in User : credentials[u] = Hashed[p] /\ Lower[users[u].email] = Lower[a]

\* POST /v1/auth/login; blanks are an address like any other.
BeginLogin(r, a, p) ==
    /\ Unused(r)
    /\ Begin(r, [NewRequest EXCEPT !.kind = "login", !.email = Lower[a], !.password = p,
                    !.step = "queued",
                    !.had = HasAccount(a, p)])

\* get_current_user: the key of the bearer token first ...
BeginLookup(r, kid) ==
    /\ requests[r].step = "new"
    /\ GetSigningKey(r, kid)
    /\ UNCHANGED identityVars

\* ... then its claims.  The subject is a person of Entra ID, or an account the
\* API has told the frontend of; the engagement, None for /v1/me/engagements,
\* is that of the path.
BeginCall(r, subject, engagement) ==
    /\ requests[r].step = "new"
    /\ lookups[r].step = "found"
    /\ subject \in EntraSubject \/ WithSubject(subject) # {}
    /\ Begin(r, [NewRequest EXCEPT !.kind = "call", !.subject = subject,
                    !.engagement = engagement, !.step = "queued"])

----------------------------------------------------------------------------
(***************************************************************************)
(* What they do                                                            *)
(***************************************************************************)
\* get_by_email raises where it finds two rows, as it may of the empty address.
\* Sign-up refuses an address with an account, login one without.
SelectByEmail(r) ==
    LET found == WithEmail(requests[r].email)
    IN  /\ requests[r].step = "selecting"
        /\ requests[r].kind \in {"register", "login"}
        /\ \/ (\E u, v \in found : u # v) /\ RollBack(r, "failed")
           \/ requests[r].kind = "register" /\ found = {} /\ GoOn(r, "inserting")
           \/ requests[r].kind = "login" /\ found = {} /\ RollBack(r, "refused")
           \/ \E u \in found :
                 /\ found = {u}
                 /\ IF requests[r].kind = "login"
                    THEN GoOnAs(r, u, "verifying")
                    ELSE RollBack(r, "refused")

\* get_by_entra_object_id, in resolve_or_provision_user.
SelectBySubject(r) ==
    LET found == WithSubject(requests[r].subject)
    IN  /\ requests[r].step = "selecting"
        /\ requests[r].kind = "call"
        /\ \/ found = {} /\ GoOn(r, "inserting")
           \/ \E u \in found : GoOnAs(r, u, "binding")

\* What users.create is given.
NewRow(r) ==
    IF requests[r].kind = "register"
    THEN [entra_object_id |-> LocalSubject(r), email |-> requests[r].email]
    ELSE [entra_object_id |-> requests[r].subject, email |-> Empty]

\* Mutated form: the address is unique only as far as the SELECT can tell.
KeyTakenBySubject(row) ==
    \E u \in User : users[u] # None /\ users[u].entra_object_id = row.entra_object_id

KeyTaken(row) == \E u \in User : users[u] # None /\ SameKey(users[u], row)

\* Another transaction has inserted the key and has not ended.
KeyPending(r, row) ==
    \E q \in Request \ {r} : requests[q].row # None /\ SameKey(requests[q].row, row)

\* The INSERT of the row and, for a sign-up, that of its credential.
InsertUser(r) ==
    /\ requests[r].step = "inserting"
    /\ ~KeyPending(r, NewRow(r))
    /\ IF KeyTaken(NewRow(r))
       THEN RollBack(r, "failed")
       ELSE /\ requests' = [requests EXCEPT ![r].step = "binding", ![r].user = r,
                                            ![r].row = NewRow(r)]
            /\ UNCHANGED <<tables, current_user_id, keyVars>>

\* get_password_hash and verify, in authenticate: a row that was provisioned has
\* no hash, and passwords that differ beyond their 72nd byte have one.
VerifyPassword(r) ==
    /\ requests[r].step = "verifying"
    /\ IF credentials[requests[r].user] = Hashed[requests[r].password]
       THEN GoOn(r, "binding")
       ELSE RollBack(r, "refused")

BoundUser(r) == current_user_id[requests[r].connection]

\* add_member; the policy checks that a row inserted is the bound user's.
AddMember(r) ==
    /\ requests[r].step = "joining"
    /\ IF BoundUser(r) = requests[r].user THEN GoOn(r, "committing") ELSE RollBack(r, "failed")

\* What the policies show: one's own rows and those of one's engagements.
VisibleMembers(r) ==
    {m \in members : m.user = BoundUser(r) \/ [m EXCEPT !.user = BoundUser(r)] \in members}

\* get_membership: require_membership refuses a caller who has none or whose
\* role is not allowed, which no state here tells; login only reports it.
ReadMembership(r) ==
    LET own(e) == [user |-> requests[r].user, engagement |-> e]
    IN  /\ requests[r].step = "reading"
        /\ \/ requests[r].kind = "call" /\ RollBack(r, "refused")
           \/ /\ requests[r].kind = "call" => own(requests[r].engagement) \in VisibleMembers(r)
              /\ GoOn(r, "committing")

\* The handler returns.
CommitRequest(r) ==
    LET q == requests[r]
    IN  /\ q.step = "committing"
        /\ users' = IF q.row = None THEN users ELSE [users EXCEPT ![r] = q.row]
        /\ IF q.kind = "register"
           THEN /\ credentials' = [credentials EXCEPT ![r] = Hashed[q.password]]
                /\ members' = members \cup {[user |-> r, engagement |-> DefaultEngagement]}
           ELSE UNCHANGED <<credentials, members>>
        /\ EndTransaction(r, "done")
        /\ UNCHANGED keyVars

\* A statement raises, the wait for a connection times out, the client leaves.
Fail(r) == Active(r) /\ RollBack(r, "failed")

\* Somebody with the rights this API has not adds a member by hand.
GrantMembership(u, e) ==
    /\ users[u] # None
    /\ [user |-> u, engagement |-> e] \notin members
    /\ members' = members \cup {[user |-> u, engagement |-> e]}
    /\ UNCHANGED <<users, credentials, current_user_id, requests, keyVars>>

----------------------------------------------------------------------------
Continue(r) ==
    \/ Connect(r)
    \/ SelectByEmail(r)
    \/ SelectBySubject(r)
    \/ InsertUser(r)
    \/ VerifyPassword(r)
    \/ BindUser(r)
    \/ AddMember(r)
    \/ ReadMembership(r)
    \/ CommitRequest(r)
    \/ ContinueLookup(r) /\ UNCHANGED identityVars

BeginAny(r) ==
    \/ \E a \in Address, p \in Password : BeginRegister(r, a, p) \/ BeginLogin(r, a, p)
    \/ \E kid \in Key : BeginLookup(r, kid)
    \/ \E s \in Subject, e \in Engagement \cup {None} : BeginCall(r, s, e)

Next ==
    \/ \E r \in Request : BeginAny(r) \/ Continue(r) \/ Fail(r)
    \/ \E u \in User, e \in Engagement : GrantMembership(u, e)
    \/ KeysEnvironment /\ UNCHANGED identityVars

Spec == Init /\ [][Next]_vars

----------------------------------------------------------------------------
(***************************************************************************)
(* Properties                                                              *)
(***************************************************************************)
\* Tables, settings, requests and key lookups are well formed, and a request
\* has a connection exactly while its transaction is open, its own.
TypeOK ==
    /\ KeysTypeOK
    /\ users \in [User -> Row \cup {None}]
    /\ credentials \in [User -> Hash \cup {None}]
    /\ members \subseteq Membership
    /\ current_user_id \in [Connection -> User \cup {None}]
    /\ requests \in [Request -> IdentityRequest]
    /\ \A r \in Request :
          requests[r].connection # None <=> Active(r) /\ requests[r].step # "queued"
    /\ \A r, q \in Request :
          r # q /\ requests[r].connection # None => requests[r].connection # requests[q].connection

\* However sign-ups and first sign-ins overlap or fail, an identity and an
\* address have one row, a row signed up here has a credential, an address and
\* the membership it joined with, and no other row has a credential.
AccountsWhole ==
    \A u \in User :
        IF users[u] = None
        THEN credentials[u] = None /\ \A m \in members : m.user # u
        ELSE /\ \A v \in User \ {u} : users[v] # None => ~SameKey(users[u], users[v])
             /\ IF users[u].entra_object_id \in EntraSubject
                THEN credentials[u] = None
                ELSE /\ credentials[u] # None
                     /\ users[u].email # Empty
                     /\ [user |-> u, engagement |-> DefaultEngagement] \in members

\* "The remainder of the current transaction only": no connection of the pool
\* carries an identity between requests, one in use carries its request's or
\* none, and memberships are read and written only under the caller's own.
OwnIdentityOnly ==
    /\ \A c \in Connection : current_user_id[c] # None =>
          \E r \in Request : requests[r].connection = c /\ requests[r].user = current_user_id[c]
    /\ \A r \in Request :
          requests[r].step \in {"joining", "reading"} => BoundUser(r) = requests[r].user

\* A login is refused only if no account with that address and a password of
\* that hash existed when it began, however the address was typed at sign-up and
\* now.  One that succeeds is an account that was signed up here, never a row that
\* was provisioned, and the only one of that address and of that hash.
LoginFindsAccount ==
    \A r \in Request : requests[r].kind = "login" =>
        /\ requests[r].step = "refused" => ~requests[r].had
        /\ requests[r].step = "done" =>
              LET u == requests[r].user
              IN  /\ users[u].entra_object_id \notin EntraSubject
                  /\ credentials[u] = Hashed[requests[r].password]
                  /\ WithEmail(requests[r].email) = {u}
=============================================================================
