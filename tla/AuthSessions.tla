------------------------------ MODULE AuthSessions ------------------------------
(***************************************************************************)
(* Login sessions (internal/httpapi and internal/store): a login creates a *)
(* refresh token, a refresh replaces it by the next, a logout revokes it,  *)
(* and a PATCH of the customer that touches email, password, status or     *)
(* expiry, or asks for it, takes a new session_epoch, which the tokens     *)
(* issued before do not match.  Every request is several statements, and   *)
(* requests interleave between them.                                       *)
(*                                                                         *)
(* Access tokens are outside: they are signed, checked without the         *)
(* database and good until they expire.                                    *)
(***************************************************************************)
EXTENDS Integers, FiniteSets

CONSTANTS
    Customers, Admin,  \* Admin: the administrator of the configuration
    Creds,             \* (email, password_hash) pairs of customers
    NoPassword,        \* the one of Creds whose password_hash is empty
    Tokens,            \* ids of auth_refresh_tokens
    Clients,           \* concurrent login and refresh requests
    Editors,           \* concurrent PATCH and DELETE requests on customers
    NoRow, NoToken,    \* no such customer; a token id not yet used...
    GoneToken,         \* ...and one whose row was deleted
    ExpiryTimes,       \* values of customers.expires_at; one beyond MaxClock is NULL
    InitCreds,         \* the credentials customers start with
    Lifetime,          \* RefreshTokenTTL
    Retention,         \* MaintenanceCleanupInput.AuthRefreshRetention
    MaxClock,          \* bound: the time
    MaxEpoch,          \* bound: session epochs
    MaxFaults          \* bound: failed statements and restarts

Times == 0 .. MaxClock
Never == MaxClock + Lifetime + 1
Epochs == 0 .. MaxEpoch
Principals == Customers \cup {Admin}
CustomerRow == [creds: Creds, active: BOOLEAN, expires: ExpiryTimes, epoch: Epochs]
\* AuthSessionVersion hashes what a session is bound to.
Version == [creds: Creds, epoch: Epochs]
\* enabled is always written together with revoked_at.  session and born, the id
\* and the version of the token the login created, are history: the table links
\* the tokens of a session by replaced_by_id.
Token == [who: Principals, version: Version, expires: 0 .. Never,
          revoked: Times \cup {Never}, session: Tokens, born: Version]

ASSUME SessionsAssumption ==
    /\ Admin \notin Customers
    /\ NoRow \notin CustomerRow /\ NoToken \notin Token /\ GoneToken \notin Token
    /\ NoToken # GoneToken
    /\ NoPassword \in Creds /\ InitCreds \in Creds
    /\ Lifetime \in Nat /\ Retention \in Nat
    /\ MaxClock \in Nat /\ MaxEpoch \in Nat /\ MaxFaults \in Nat
    /\ ExpiryTimes \subseteq Nat /\ (MaxClock + 1) \in ExpiryTimes

VARIABLES
    customer, token,   \* the tables
    adminEpoch,        \* the configuration the server runs with
    client,            \* login and refresh requests in flight
    editor,            \* PATCH requests in flight
    epochs,            \* the epochs used: a new one is a random value or, for the
                       \* administrator, a configuration never used before
    retired,           \* history: <<principal, version>> pairs that were replaced
                       \* and are not in use again
    clock, faults

vars == <<customer, token, adminEpoch, client, editor, epochs, retired, clock, faults>>

\* The version a session of p is bound to, given the row of a customer.
VersionOf(row) == [creds |-> row.creds, epoch |-> row.epoch]
\* The administrator's is a function of the configuration alone.
Configured(v) == [creds |-> NoPassword, epoch |-> v]
AdminVersion == Configured(adminEpoch)

CanLogin(row, t) == row.active /\ row.expires > t

\* p could open or continue a session at time t, bound to version v.
Accepts(p, v, t) ==
    \/ p = Admin /\ v = AdminVersion
    \/ /\ p \in Customers /\ customer[p] # NoRow
       /\ CanLogin(customer[p], t) /\ customer[p].creds # NoPassword
       /\ v = VersionOf(customer[p])

Exists(t) == token[t] \notin {NoToken, GoneToken}
Live(t) == Exists(t) /\ token[t].revoked = Never
\* A refresh with token t that met no other request would succeed.
Usable(t) ==
    Live(t) /\ token[t].expires > clock /\ Accepts(token[t].who, token[t].version, clock)

NoRequest == [pc |-> "idle"]
ClientStates ==
    {NoRequest}
        \cup [pc: {"create"}, who: Principals, version: Version]
        \cup [pc: {"principal", "rotate"}, from: Tokens, who: Principals, version: Version]
EditorStates ==
    {NoRequest}
        \cup [pc: {"save"}, who: Customers, row: CustomerRow]
        \cup [pc: {"reread"}, who: Customers, now: Times, could: BOOLEAN, reset: BOOLEAN]
        \cup [pc: {"revoke"}, who: Customers]
        \cup [pc: {"revoking"}, who: Customers, found: SUBSET Tokens]

TypeOK ==
    /\ customer \in [Customers -> CustomerRow \cup {NoRow}]
    /\ token \in [Tokens -> Token \cup {NoToken, GoneToken}]
    /\ \A t \in Tokens : Exists(t) => token[t].who = Admin \/ customer[token[t].who] # NoRow
    /\ adminEpoch \in Epochs
    /\ client \in [Clients -> ClientStates]
    /\ editor \in [Editors -> EditorStates]
    /\ epochs \in Epochs
    /\ retired \subseteq Principals \X Version
    /\ clock \in Times /\ faults \in 0 .. MaxFaults

Init ==
    /\ customer = [c \in Customers |->
                     [creds |-> InitCreds, active |-> TRUE, expires |-> MaxClock + 1, epoch |-> 0]]
    /\ token = [t \in Tokens |-> NoToken]
    /\ adminEpoch = 0
    /\ client = [w \in Clients |-> NoRequest]
    /\ editor = [e \in Editors |-> NoRequest]
    /\ epochs = 0 /\ retired = {} /\ clock = 0 /\ faults = 0

(***************************************************************************)
(* Login, refresh, logout.                                                 *)
(***************************************************************************)
Goto(w, state) == client' = [client EXCEPT ![w] = state]
tables == <<customer, token, adminEpoch>>
bounds == <<epochs, retired, clock, faults>>

\* customerLogin reads the row by email and verifies the password against it.
Login(w, c) ==
    /\ client[w] = NoRequest
    /\ customer[c] # NoRow /\ CanLogin(customer[c], clock) /\ customer[c].creds # NoPassword
    /\ Goto(w, [pc |-> "create", who |-> c, version |-> VersionOf(customer[c])])
    /\ UNCHANGED <<tables, editor, bounds>>

\* The administrator's credentials are in the configuration.
AdminLogin(w) ==
    /\ client[w] = NoRequest
    /\ Goto(w, [pc |-> "create", who |-> Admin, version |-> AdminVersion])
    /\ UNCHANGED <<tables, editor, bounds>>

Issued(p, v, session, born) ==
    [who |-> p, version |-> v, expires |-> clock + Lifetime, revoked |-> Never,
     session |-> session, born |-> born]
Successor(r) == Issued(r.who, r.version, token[r.from].session, token[r.from].born)

\* CreateAuthRefreshToken; without the customer's row the foreign key fails it.
CreateToken(w) ==
    LET r == client[w]
    IN /\ r.pc = "create"
       /\ IF r.who = Admin \/ customer[r.who] # NoRow
          THEN \E t \in Tokens :
                  /\ token[t] = NoToken
                  /\ token' = [token EXCEPT ![t] = Issued(r.who, r.version, t, r.version)]
          ELSE UNCHANGED token
       /\ Goto(w, NoRequest)
       /\ UNCHANGED <<customer, adminEpoch, editor, bounds>>

\* refreshAuth reads the token by its hash; refreshPrincipal refuses a revoked
\* or expired one...
Refresh(w, t) ==
    /\ client[w] = NoRequest
    /\ Live(t) /\ token[t].expires > clock
    /\ Goto(w, [pc |-> "principal", from |-> t, who |-> token[t].who,
                version |-> token[t].version])
    /\ UNCHANGED <<tables, editor, bounds>>

\* Mutant: the session version of the token is not compared.
CheckPrincipalUnversioned(w) ==
    LET r == client[w]
        current == IF r.who = Admin \/ customer[r.who] = NoRow THEN r.version
                   ELSE VersionOf(customer[r.who])
    IN /\ r.pc = "principal"
       /\ Goto(w, IF Accepts(r.who, current, clock)
                  THEN [r EXCEPT !.pc = "rotate", !.version = current] ELSE NoRequest)
       /\ UNCHANGED <<tables, editor, bounds>>
\* ...then reads the customer, who must be able to log in and still have the
\* version the token was issued for.
CheckPrincipal(w) ==
    LET r == client[w]
    IN /\ r.pc = "principal"
       /\ Goto(w, IF Accepts(r.who, r.version, clock)
                  THEN [r EXCEPT !.pc = "rotate"] ELSE NoRequest)
       /\ UNCHANGED <<tables, editor, bounds>>

\* Mutant: the row is not looked at again under the lock.
RotateUnchecked(w) ==
    LET r == client[w]
    IN /\ r.pc = "rotate"
       /\ IF Exists(r.from)
          THEN \E t \in Tokens :
                  /\ token[t] = NoToken
                  /\ token' = [token EXCEPT
                       ![r.from].revoked = clock,
                       ![t] = Successor(r)]
          ELSE UNCHANGED token
       /\ Goto(w, NoRequest)
       /\ UNCHANGED <<customer, adminEpoch, editor, bounds>>
\* RotateAuthRefreshToken: one transaction that locks the row (FOR UPDATE),
\* refuses it when it is revoked by now, revokes it and inserts its successor.
Rotate(w) ==
    LET r == client[w]
    IN /\ r.pc = "rotate"
       /\ IF Live(r.from)
          THEN \E t \in Tokens :
                  /\ token[t] = NoToken
                  /\ token' = [token EXCEPT
                       ![r.from].revoked = clock,
                       ![t] = Successor(r)]
          ELSE UNCHANGED token
       /\ Goto(w, NoRequest)
       /\ UNCHANGED <<customer, adminEpoch, editor, bounds>>

\* logoutAuth: one transaction; an unknown or revoked token is no error.
Logout(t) ==
    /\ Live(t)
    /\ token' = [token EXCEPT ![t].revoked = clock]
    /\ UNCHANGED <<customer, adminEpoch, client, editor, bounds>>

(***************************************************************************)
(* PATCH and DELETE /admin/customers/{id}.                                 *)
(***************************************************************************)
Edit(e, state) == editor' = [editor EXCEPT ![e] = state]

PatchRead(e, c) ==
    /\ editor[e] = NoRequest /\ customer[c] # NoRow
    /\ Edit(e, [pc |-> "save", who |-> c, row |-> customer[c]])
    /\ UNCHANGED <<tables, client, bounds>>

\* The patched row and whether it carries a new epoch: it does when the body
\* names email, password, status or expires_at, or asks for a reset; a body that
\* names display_name alone changes nothing that is modelled.
Patched(row) ==
    {[row |-> row, reset |-> FALSE]}
        \cup [row: {[row EXCEPT !.creds = k, !.epoch = epochs + 1] : k \in Creds}
                       \cup {[row EXCEPT !.active = b, !.epoch = epochs + 1] : b \in BOOLEAN}
                       \cup {[row EXCEPT !.expires = x, !.epoch = epochs + 1] : x \in ExpiryTimes},
              reset: {TRUE}]

Replaced(c, row) ==
    {<<c, VersionOf(row)>>}
        \cup IF customer[c] = NoRow THEN {} ELSE {<<c, VersionOf(customer[c])>>}

\* UpdateCustomer saves every column of the row as it was read and patched; the
\* Save of a row deleted since UpdateCustomer looked for it inserts it again.
PatchSave(e) ==
    LET r == editor[e]
    IN /\ r.pc = "save"
       /\ \E p \in Patched(r.row) :
             /\ p.row.epoch <= MaxEpoch
             /\ customer' = [customer EXCEPT ![r.who] = p.row]
             /\ epochs' = IF p.reset THEN epochs + 1 ELSE epochs
             /\ retired' = IF p.reset THEN retired \cup Replaced(r.who, r.row) ELSE retired
             /\ Edit(e, [pc |-> "reread", who |-> r.who, now |-> clock, reset |-> p.reset,
                         could |-> CanLogin(r.row, clock) /\ r.row.creds # NoPassword])
       /\ UNCHANGED <<token, adminEpoch, client, clock, faults>>

\* UpdateCustomer returns the row as it is by now; tokens are to be revoked after
\* a reset, or when the customer no longer can log in.
PatchReread(e) ==
    LET r == editor[e] row == customer[r.who]
    IN /\ r.pc = "reread"
       /\ Edit(e, IF /\ row # NoRow
                     /\ \/ r.reset
                        \/ r.could /\ ~(CanLogin(row, r.now) /\ row.creds # NoPassword)
                  THEN [pc |-> "revoke", who |-> r.who] ELSE NoRequest)
       /\ UNCHANGED <<tables, client, bounds>>

\* RevokeCustomerAuthRefreshTokens is one UPDATE: it finds the rows on the
\* snapshot it begins with...
RevokeFind(e) ==
    /\ editor[e].pc = "revoke"
    /\ Edit(e, [pc |-> "revoking", who |-> editor[e].who,
                found |-> {t \in Tokens : Live(t) /\ token[t].who = editor[e].who}])
    /\ UNCHANGED <<tables, client, bounds>>

\* ...and after waiting for their locks changes those that still qualify.
RevokeApply(e) ==
    /\ editor[e].pc = "revoking"
    /\ token' = [t \in Tokens |->
                   IF t \in editor[e].found /\ Live(t) THEN [token[t] EXCEPT !.revoked = clock]
                   ELSE token[t]]
    /\ Edit(e, NoRequest)
    /\ UNCHANGED <<customer, adminEpoch, client, bounds>>

\* Mutant: the foreign key of auth_refresh_tokens does not cascade.
DeleteCustomerOnly(e, c) ==
    /\ editor[e] = NoRequest /\ customer[c] # NoRow
    /\ customer' = [customer EXCEPT ![c] = NoRow]
    /\ UNCHANGED <<token, adminEpoch, client, editor, bounds>>
\* DELETE cascades to the customer's tokens.
DeleteCustomer(e, c) ==
    /\ editor[e] = NoRequest /\ customer[c] # NoRow
    /\ customer' = [customer EXCEPT ![c] = NoRow]
    /\ token' = [t \in Tokens |->
                   IF Exists(t) /\ token[t].who = c THEN GoneToken ELSE token[t]]
    /\ UNCHANGED <<adminEpoch, client, editor, bounds>>

(***************************************************************************)
(* Cleanup, time, failures and restarts.                                   *)
(***************************************************************************)

\* Mutant: a revoked_at that is NULL counts as an old one.
OutdatedNull(t, now) ==
    Exists(t) /\ (token[t].revoked = Never \/ token[t].revoked < now - Retention)
\* deleteAuthRefreshTokensSQL, with a cutoff computed when the cleanup began.
Outdated(t, now) ==
    Exists(t) /\ (token[t].expires < now - Retention \/ token[t].revoked < now - Retention)
Cleanup ==
    /\ \E now \in 0 .. clock :
          /\ \E t \in Tokens : Outdated(t, now)
          /\ token' = [t \in Tokens |-> IF Outdated(t, now) THEN GoneToken ELSE token[t]]
    /\ UNCHANGED <<customer, adminEpoch, client, editor, bounds>>

Tick ==
    /\ clock < MaxClock /\ clock' = clock + 1
    /\ UNCHANGED <<tables, client, editor, epochs, retired, faults>>

Fault == faults < MaxFaults /\ faults' = faults + 1

\* A statement of a request fails, or its body is refused: the request ends where
\* it is, with what it has committed.
RequestFails ==
    /\ Fault
    /\ \/ \E w \in Clients : client[w] # NoRequest /\ Goto(w, NoRequest) /\ UNCHANGED editor
       \/ \E e \in Editors : editor[e] # NoRequest /\ Edit(e, NoRequest) /\ UNCHANGED client
    /\ UNCHANGED <<tables, epochs, retired, clock>>

\* The server restarts, with the admin email, password and session epoch it had,
\* with others, or with those of an earlier configuration.  PCP_SECRET_KEY, which
\* the versions of customers depend on too, stays.
Restart ==
    /\ Fault
    /\ client' = [w \in Clients |-> NoRequest]
    /\ editor' = [e \in Editors |-> NoRequest]
    /\ \/ UNCHANGED <<adminEpoch, epochs, retired>>
       \/ /\ epochs < MaxEpoch /\ epochs' = epochs + 1
          /\ adminEpoch' = epochs + 1
          /\ retired' = retired \cup {<<Admin, AdminVersion>>}
       \/ \E v \in Epochs :
             /\ <<Admin, Configured(v)>> \in retired /\ adminEpoch' = v
             /\ retired' = (retired \cup {<<Admin, AdminVersion>>}) \ {<<Admin, Configured(v)>>}
             /\ UNCHANGED epochs
    /\ UNCHANGED <<customer, token, clock>>

Next ==
    \/ \E w \in Clients :
          \/ \E c \in Customers : Login(w, c)
          \/ AdminLogin(w) \/ CreateToken(w)
          \/ \E t \in Tokens : Refresh(w, t)
          \/ CheckPrincipal(w) \/ Rotate(w)
    \/ \E t \in Tokens : Logout(t)
    \/ \E e \in Editors :
          \/ \E c \in Customers : PatchRead(e, c) \/ DeleteCustomer(e, c)
          \/ PatchSave(e) \/ PatchReread(e) \/ RevokeFind(e) \/ RevokeApply(e)
    \/ Cleanup \/ Tick \/ RequestFails \/ Restart

Spec == Init /\ [][Next]_vars

(***************************************************************************)
(* Properties.                                                             *)
(***************************************************************************)

\* A login has at most one token that is not revoked, however many refreshes of
\* the same token, logouts and resets race (the lock and the second look at the
\* row in RotateAuthRefreshToken, store.go:246-251).
OneLivePerSession ==
    \A s, t \in Tokens :
        (Live(s) /\ Live(t) /\ token[s].session = token[t].session) => s = t

\* README.md:358-361: "Changing a customer's email, password, status, expiry, or
\* PATCHing reset_sessions invalidates that customer's existing refresh tokens by
\* bumping session_epoch"; README.md:352-354 for the administrator.  No session
\* that began under a version since replaced, and not configured again, has a
\* usable token, including those of logins and refreshes in flight and those the
\* revocation missed.
ResetInvalidates ==
    \A t \in Tokens :
        (Exists(t) /\ <<token[t].who, token[t].born>> \in retired) => ~Usable(t)

\* The same when every request has ended, so that no revocation is still to come.
AtRest ==
    /\ \A w \in Clients : client[w] = NoRequest
    /\ \A e \in Editors : editor[e] = NoRequest
ResetLasts == AtRest => ResetInvalidates

\* A usable token stays usable unless it is refreshed or logged out itself, its
\* customer is patched or deleted, or it expires; other people's logins, resets,
\* deletions and the cleanup never end a session.
Ends(t) ==
    \/ client' # client /\ \E w \in Clients :
          client[w].pc = "rotate" /\ client'[w] = NoRequest /\ client[w].from = t
    \/ Logout(t)
    \/ token[t].who \in Customers /\ customer'[token[t].who] # customer[token[t].who]
    \/ \E e \in Editors :
          editor[e].pc = "revoking" /\ editor[e].who = token[t].who /\ editor'[e] = NoRequest
    \/ clock' # clock
    \/ token[t].who = Admin /\ adminEpoch' # adminEpoch
SessionsUndisturbed ==
    [][\A t \in Tokens : (Usable(t) /\ ~Usable(t)') => Ends(t)]_vars

\* A session goes on with token t as long as its principal is accepted and its
\* time has not run out, or a refresh that came in time is still being served:
\* RotateAuthRefreshToken does not look at expires_at again (store.go:246-251).
InFlight(t) ==
    \E w \in Clients : client[w].pc \in {"principal", "rotate"} /\ client[w].from = t
Accepted(t) == Live(t) /\ Accepts(token[t].who, token[t].version, clock)
Continues(t) == Accepted(t) /\ (token[t].expires > clock \/ InFlight(t))

\* What can be continued could be continued before, or has just begun: a session
\* that is over comes back by no refresh, PATCH, failure or restart, but for a
\* restart with an earlier configuration of the administrator, and then by a token
\* of that configuration that was neither revoked nor has expired.
Returns(t) ==
    /\ <<Admin, AdminVersion'>> \in retired
    /\ Live(t) /\ token[t].expires > clock
    /\ token[t].who = Admin /\ token[t].version = AdminVersion'
NoRevival ==
    [][\A t \in Tokens :
          Continues(t)' =>
             \/ \E u \in Tokens : /\ Continues(u)
                                  /\ token[u].session = token'[t].session
                                  /\ token[u].who = token'[t].who
             \/ token[t] = NoToken /\ token'[t].session = t
             \/ Returns(t)]_vars

\* The abstract specification: a session begins once, changes neither its
\* principal nor what it is bound to, ends with that, and once over is over for
\* good, whatever refreshes, revocations and failures come late; those that only
\* another configuration of the administrator ended are suspended.
OpenOf(p) ==
    {token[t].session : t \in {u \in Tokens : Continues(u) /\ token[u].who = p}}
Lapsed == {token[t].session : t \in {u \in Tokens : Continues(u) /\ token[u].expires <= clock}}
BoundOf(p) == IF p = Admin THEN adminEpoch ELSE customer[p]
Standby(t) ==
    /\ Live(t) /\ token[t].expires > clock
    /\ token[t].who = Admin /\ token[t].version # AdminVersion
Suspended == {token[t].session : t \in {u \in Tokens : Standby(u)}}

Life == INSTANCE SessionLife WITH
    Sessions <- Tokens,
    Keeper <- Admin,
    unused <- {t \in Tokens : token[t] = NoToken},
    open <- [p \in Principals |-> OpenOf(p)],
    lapsed <- Lapsed,
    suspended <- Suspended,
    bound <- [p \in Principals |-> BoundOf(p)]
Lifecycle == Life!Spec
=============================================================================
