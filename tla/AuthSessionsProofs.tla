--------------------------- MODULE AuthSessionsProofs ---------------------------
(***************************************************************************)
(* Theorems about AuthSessions, for all sets of customers, tokens, clients *)
(* and editors and all bounds; that a reset invalidates, and that no       *)
(* session comes back, is proved for behaviours in which no PATCH saves a  *)
(* row that changed since it read it (the run sessions_stale shows why).   *)
(***************************************************************************)
EXTENDS AuthSessions, TLAPS

USE SessionsAssumption DEF SessionsAssumption

\* The id that names a session has been used.
Fresh == \A t \in Tokens : Exists(t) => token[token[t].session] # NoToken

\* A token has the version its session began with.
Bound == \A t \in Tokens : Exists(t) => token[t].version = token[t].born

\* A refresh in flight carries what its token says, as long as there is one.
Carries(w) ==
    client[w].pc \in {"principal", "rotate"} =>
       /\ token[client[w].from] # NoToken
       /\ Exists(client[w].from) => /\ token[client[w].from].who = client[w].who
                                    /\ token[client[w].from].version = client[w].version
Carried == \A w \in Clients : Carries(w)

SessionInv == Fresh /\ Bound /\ Carried /\ OneLivePerSession

(***************************************************************************)
(* Types.                                                                  *)
(***************************************************************************)

\* What a request in flight carries.
LEMMA ClientTypes ==
  ASSUME TypeOK, NEW w \in Clients
  PROVE  /\ client[w].pc = "create" => client[w].who \in Principals /\ client[w].version \in Version
         /\ client[w].pc \in {"principal", "rotate"} =>
              /\ client[w].from \in Tokens
              /\ client[w].who \in Principals /\ client[w].version \in Version
<1>1. client[w] \in ClientStates
  BY DEF TypeOK
<1> QED BY <1>1 DEF ClientStates, NoRequest

LEMMA EditorTypes ==
  ASSUME TypeOK, NEW e \in Editors
  PROVE  /\ editor[e].pc = "save" => editor[e].who \in Customers /\ editor[e].row \in CustomerRow
         /\ editor[e].pc = "reread" => editor[e].who \in Customers /\ editor[e].reset \in BOOLEAN
         /\ editor[e].pc = "revoke" => editor[e].who \in Customers
         /\ editor[e].pc = "revoking" => editor[e].who \in Customers
<1>1. editor[e] \in EditorStates
  BY DEF TypeOK
<1> QED BY <1>1 DEF EditorStates, NoRequest

\* The requests that may be made of what is in flight.
LEMMA RequestTypes ==
  /\ NoRequest \in ClientStates /\ NoRequest \in EditorStates
  /\ \A p \in Principals, v \in Version :
        [pc |-> "create", who |-> p, version |-> v] \in ClientStates
  /\ \A s \in {"principal", "rotate"}, t \in Tokens, p \in Principals, v \in Version :
        [pc |-> s, from |-> t, who |-> p, version |-> v] \in ClientStates
  /\ \A c \in Customers, r \in CustomerRow : [pc |-> "save", who |-> c, row |-> r] \in EditorStates
  /\ \A c \in Customers, t \in Times, a, b \in BOOLEAN :
        [pc |-> "reread", who |-> c, now |-> t, could |-> a, reset |-> b] \in EditorStates
  /\ \A c \in Customers : [pc |-> "revoke", who |-> c] \in EditorStates
  /\ \A c \in Customers, f \in SUBSET Tokens :
        [pc |-> "revoking", who |-> c, found |-> f] \in EditorStates
  BY DEF ClientStates, EditorStates, NoRequest

LEMMA VersionTypes ==
  /\ \A r \in CustomerRow : VersionOf(r) \in Version
  /\ adminEpoch \in Epochs => AdminVersion \in Version
  BY DEF VersionOf, AdminVersion, Configured, Version, CustomerRow

\* A token that is issued lives until it expires or is revoked.
LEMMA IssuedTypes ==
  ASSUME clock \in Times, NEW p \in Principals, NEW v \in Version, NEW s \in Tokens, NEW b \in Version
  PROVE  /\ Issued(p, v, s, b) \in Token
         /\ Issued(p, v, s, b).who = p /\ Issued(p, v, s, b).version = v
         /\ Issued(p, v, s, b).session = s /\ Issued(p, v, s, b).born = b
         /\ Issued(p, v, s, b).revoked = Never
<1>1. clock + Lifetime \in 0 .. Never /\ Never \in Nat
  BY DEF Times, Never
<1> QED BY <1>1 DEF Issued, Token

\* A PATCH keeps the row, or gives it an epoch never used before.
LEMMA PatchedTypes ==
  ASSUME epochs \in Epochs, NEW r \in CustomerRow, NEW p \in Patched(r), p.row.epoch <= MaxEpoch
  PROVE  /\ p.row \in CustomerRow /\ p.reset \in BOOLEAN
         /\ ~p.reset => p.row = r
         /\ p.reset => p.row.epoch = epochs + 1 /\ epochs + 1 \in Epochs
<1>1. CASE p = [row |-> r, reset |-> FALSE]
  BY <1>1
<1>2. CASE p # [row |-> r, reset |-> FALSE]
  <2>1. /\ p.reset = TRUE
        /\ \/ \E k \in Creds : p.row = [r EXCEPT !.creds = k, !.epoch = epochs + 1]
           \/ \E b \in BOOLEAN : p.row = [r EXCEPT !.active = b, !.epoch = epochs + 1]
           \/ \E x \in ExpiryTimes : p.row = [r EXCEPT !.expires = x, !.epoch = epochs + 1]
    BY <1>2 DEF Patched
  <2>2. p.row.epoch = epochs + 1
    BY <2>1 DEF CustomerRow
  <2>3. epochs + 1 \in Epochs
    BY <2>2 DEF Epochs
  <2>4. p.row \in CustomerRow
    BY <2>1, <2>3 DEF CustomerRow
  <2> QED BY <2>1, <2>2, <2>3, <2>4
<1> QED BY <1>1, <1>2

(***************************************************************************)
(* Steps on tokens.                                                        *)
(***************************************************************************)

\* Token t stays as it is, is deleted, or is revoked.
Follows(t) ==
    \/ token'[t] = token[t]
    \/ Exists(t) /\ token'[t] = GoneToken
    \/ Exists(t) /\ token'[t] = [token[t] EXCEPT !.revoked = clock]

\* A token that exists after a step that leaves it or revokes it is the one it was.
LEMMA FollowsExists ==
  ASSUME TypeOK, NEW t \in Tokens, Follows(t)
  PROVE  /\ token'[t] \in Token \cup {NoToken, GoneToken}
         /\ (token[t] # NoToken) <=> (token'[t] # NoToken)
         /\ Exists(t)' => /\ Exists(t)
                          /\ token'[t].who = token[t].who /\ token'[t].version = token[t].version
                          /\ token'[t].session = token[t].session /\ token'[t].born = token[t].born
                          /\ token'[t].revoked = Never => token[t].revoked = Never
<1>1. token[t] \in Token \cup {NoToken, GoneToken} /\ clock \in Times
  BY DEF TypeOK
<1>2. CASE token'[t] = token[t]
  BY <1>1, <1>2 DEF Exists
<1>3. CASE Exists(t) /\ token'[t] = GoneToken
  BY <1>1, <1>3 DEF Exists
<1>4. CASE Exists(t) /\ token'[t] = [token[t] EXCEPT !.revoked = clock]
  <2>1. token[t] \in Token
    BY <1>1, <1>4 DEF Exists
  <2>2. clock \in Times \cup {Never} /\ clock # Never
    BY <1>1 DEF Times, Never
  <2>3. token'[t] \in Token /\ token'[t].revoked = clock
    BY <1>4, <2>1, <2>2 DEF Token
  <2>4. /\ token'[t].who = token[t].who /\ token'[t].version = token[t].version
        /\ token'[t].session = token[t].session /\ token'[t].born = token[t].born
    BY <1>4, <2>1 DEF Token
  <2> QED BY <1>4, <2>2, <2>3, <2>4 DEF Exists
<1> QED BY <1>2, <1>3, <1>4 DEF Follows

\* A step that issues no token.
LEMMA FollowsInv ==
  ASSUME TypeOK, SessionInv, \A t \in Tokens : Follows(t)
  PROVE  Fresh' /\ Bound' /\ OneLivePerSession'
<1>1. \A t \in Tokens : Exists(t)' => token[t] \in Token
  BY FollowsExists DEF TypeOK, Exists
<1>2. Fresh'
  BY <1>1, FollowsExists DEF SessionInv, Fresh, Token
<1>3. Bound'
  BY FollowsExists DEF SessionInv, Bound
<1>4. OneLivePerSession'
  BY FollowsExists DEF SessionInv, OneLivePerSession, Live
<1> QED BY <1>2, <1>3, <1>4

\* The requests in flight that a step leaves alone still carry what their token
\* says, also when a new token appears.
LEMMA CarriedInv ==
  ASSUME TypeOK, SessionInv, \A t \in Tokens : token[t] # NoToken => Follows(t),
         NEW w \in Clients,
         \/ client'[w] = client[w]
         \/ client'[w].pc \notin {"principal", "rotate"}
         \/ client[w].pc \in {"principal", "rotate"} /\ client'[w].from = client[w].from
              /\ client'[w].who = client[w].who /\ client'[w].version = client[w].version
  PROVE  Carries(w)'
<1> SUFFICES ASSUME client'[w].pc \in {"principal", "rotate"} PROVE Carries(w)'
  BY DEF Carries
<1>1. /\ client[w].pc \in {"principal", "rotate"} /\ client'[w].from = client[w].from
      /\ client'[w].who = client[w].who /\ client'[w].version = client[w].version
  OBVIOUS
<1> DEFINE f == client[w].from
<1>2. f \in Tokens
  BY <1>1, ClientTypes
<1>3. token[f] # NoToken /\ (Exists(f) => token[f].who = client[w].who
                                          /\ token[f].version = client[w].version)
  BY <1>1 DEF SessionInv, Carried, Carries
<1>4. Follows(f)
  BY <1>2, <1>3
<1>5. token'[f] # NoToken /\ (Exists(f)' => Exists(f) /\ token'[f].who = token[f].who
                                             /\ token'[f].version = token[f].version)
  BY <1>2, <1>3, <1>4, FollowsExists
<1> QED BY <1>1, <1>3, <1>5 DEF Exists, Carries

\* A step that issues no token and starts no refresh.
LEMMA QuietInv ==
  ASSUME TypeOK, SessionInv, \A t \in Tokens : Follows(t),
         \A w \in Clients : client'[w] = client[w] \/ client'[w].pc \in {"idle", "create"}
  PROVE  SessionInv'
<1>1. Fresh' /\ Bound' /\ OneLivePerSession'
  BY FollowsInv
<1>2. \A w \in Clients : client'[w] = client[w] \/ client'[w].pc \notin {"principal", "rotate"}
  OBVIOUS
<1>3. \A w \in Clients : Carries(w)'
  BY <1>2, CarriedInv
<1> QED BY <1>1, <1>3 DEF SessionInv, Carried

\* A token id that is used for the first time, after a login or in a rotation.
LEMMA IssueInv ==
  ASSUME TypeOK, SessionInv, NEW t0 \in Tokens, token[t0] = NoToken, token'[t0] \in Token,
         \A t \in Tokens \ {t0} : Follows(t),
         token'[t0].version = token'[t0].born,
         token'[token'[t0].session] # NoToken,
         \A t \in Tokens \ {t0} : Live(t)' => token'[t].session # token'[t0].session
  PROVE  Fresh' /\ Bound' /\ OneLivePerSession'
<1>1. \A t \in Tokens \ {t0} : Exists(t)' => Exists(t) /\ token[t] \in Token
  BY FollowsExists DEF TypeOK, Exists
<1>2. \A t \in Tokens : token[t] # NoToken => token'[t] # NoToken
  BY FollowsExists
<1>3. Fresh'
  <2> SUFFICES ASSUME NEW t \in Tokens, Exists(t)' PROVE token'[token'[t].session] # NoToken
    BY DEF Fresh, Exists
  <2>1. CASE t = t0
    BY <2>1
  <2>2. CASE t # t0
    <3>1. Exists(t) /\ token'[t].session = token[t].session /\ token[t] \in Token
      BY <2>2, <1>1, FollowsExists
    <3>2. token[token[t].session] # NoToken /\ token[t].session \in Tokens
      BY <3>1 DEF SessionInv, Fresh, Token
    <3> QED BY <3>1, <3>2, <1>2
  <2> QED BY <2>1, <2>2
<1>4. Bound'
  <2> SUFFICES ASSUME NEW t \in Tokens, Exists(t)' PROVE token'[t].version = token'[t].born
    BY DEF Bound, Exists
  <2>1. CASE t # t0
    BY <2>1, <1>1, FollowsExists DEF SessionInv, Bound
  <2> QED BY <2>1
<1>5. OneLivePerSession'
  <2> SUFFICES ASSUME NEW s \in Tokens, NEW t \in Tokens, Live(s)', Live(t)',
                      token'[s].session = token'[t].session
               PROVE  s = t
    BY DEF OneLivePerSession, Live, Exists
  <2>1. CASE s # t0 /\ t # t0
    <3>1. Live(s) /\ Live(t) /\ token[s].session = token[t].session
      BY <2>1, FollowsExists DEF Live
    <3> QED BY <3>1 DEF SessionInv, OneLivePerSession
  <2> QED BY <2>1
<1> QED BY <1>3, <1>4, <1>5

\* Tokens that stay, are revoked or deleted keep their types and their customers.
LEMMA FollowsTypes ==
  ASSUME TypeOK, \A t \in Tokens : Follows(t), token' = [t \in Tokens |-> token'[t]],
         \A t \in Tokens : Exists(t)' => token[t].who = Admin \/ customer'[token[t].who] # NoRow
  PROVE  /\ token' \in [Tokens -> Token \cup {NoToken, GoneToken}]
         /\ \A t \in Tokens : Exists(t)' => token'[t].who = Admin \/ customer'[token'[t].who] # NoRow
<1>1. \A t \in Tokens : token'[t] \in Token \cup {NoToken, GoneToken}
  BY FollowsExists
<1>2. \A t \in Tokens : Exists(t)' => token'[t].who = token[t].who
  BY FollowsExists
<1> QED BY <1>1, <1>2

(***************************************************************************)
(* The invariant.                                                          *)
(***************************************************************************)
LEMMA InitInv == Init => TypeOK /\ SessionInv
<1> SUFFICES ASSUME Init PROVE TypeOK /\ SessionInv
  OBVIOUS
<1>1. 0 \in Epochs /\ 0 \in Times /\ 0 \in 0 .. MaxFaults
  BY DEF Epochs, Times
<1>2. customer \in [Customers -> CustomerRow \cup {NoRow}]
  BY <1>1 DEF Init, CustomerRow
<1>3. client \in [Clients -> ClientStates] /\ editor \in [Editors -> EditorStates]
  BY RequestTypes DEF Init
<1>4. \A t \in Tokens : ~Exists(t)
  BY DEF Init, Exists
<1>5. token \in [Tokens -> Token \cup {NoToken, GoneToken}]
  BY DEF Init
<1>6. TypeOK
  BY <1>1, <1>2, <1>3, <1>4, <1>5 DEF Init, TypeOK
<1>7. Carried
  BY DEF Init, Carried, Carries, NoRequest
<1>8. Fresh /\ Bound /\ OneLivePerSession
  BY <1>4 DEF Fresh, Bound, OneLivePerSession, Live
<1> QED BY <1>6, <1>7, <1>8 DEF SessionInv

\* Requests that only go on, with the tables as they are.
LEMMA ClientStepInv ==
  ASSUME TypeOK, SessionInv, NEW w \in Clients,
         \/ \E c \in Customers : Login(w, c)
         \/ AdminLogin(w)
         \/ \E t \in Tokens : Refresh(w, t)
         \/ CheckPrincipal(w)
  PROVE  TypeOK' /\ SessionInv'
<1> USE DEF tables, bounds
<1>1. UNCHANGED <<customer, token, adminEpoch, editor, epochs, retired, clock, faults>>
  BY DEF Login, AdminLogin, Refresh, CheckPrincipal
<1>2. \A t \in Tokens : Follows(t)
  BY <1>1 DEF Follows
<1>3. PICK state \in ClientStates :
        /\ Goto(w, state)
        /\ \/ state.pc \in {"idle", "create"}
           \/ \E t \in Tokens : /\ Live(t) /\ state.from = t
                                /\ state.who = token[t].who /\ state.version = token[t].version
           \/ /\ client[w].pc = "principal" /\ state.from = client[w].from
              /\ state.who = client[w].who /\ state.version = client[w].version
  <2>1. CASE \E c \in Customers : Login(w, c)
    <3>1. PICK c \in Customers : Login(w, c)
      BY <2>1
    <3> DEFINE state == [pc |-> "create", who |-> c, version |-> VersionOf(customer[c])]
    <3>2. customer[c] \in CustomerRow /\ c \in Principals
      BY <3>1 DEF Login, TypeOK, Principals
    <3>3. state \in ClientStates
      BY <3>2, VersionTypes, RequestTypes
    <3>4. state.pc \in {"idle", "create"}
      OBVIOUS
    <3> QED BY <3>1, <3>3, <3>4 DEF Login
  <2>2. CASE AdminLogin(w)
    <3> DEFINE state == [pc |-> "create", who |-> Admin, version |-> AdminVersion]
    <3>1. adminEpoch \in Epochs /\ Admin \in Principals
      BY DEF TypeOK, Principals
    <3>2. state \in ClientStates
      BY <3>1, VersionTypes, RequestTypes
    <3>3. state.pc \in {"idle", "create"}
      OBVIOUS
    <3> QED BY <2>2, <3>2, <3>3 DEF AdminLogin
  <2>3. CASE \E t \in Tokens : Refresh(w, t)
    <3>1. PICK t \in Tokens : Refresh(w, t)
      BY <2>3
    <3> DEFINE state == [pc |-> "principal", from |-> t, who |-> token[t].who,
                         version |-> token[t].version]
    <3>2. token[t] \in Token /\ Live(t)
      BY <3>1 DEF Refresh, TypeOK, Live, Exists
    <3>3. token[t].who \in Principals /\ token[t].version \in Version
      BY <3>2 DEF Token
    <3>4. state \in ClientStates
      BY <3>3, RequestTypes
    <3>5. state.from = t /\ state.who = token[t].who /\ state.version = token[t].version
      OBVIOUS
    <3>6. Goto(w, state)
      BY <3>1 DEF Refresh
    <3> HIDE DEF state
    <3> QED BY <3>2, <3>4, <3>5, <3>6
  <2>4. CASE CheckPrincipal(w)
    <3> DEFINE state == [client[w] EXCEPT !.pc = "rotate"]
    <3>1. client[w].pc = "principal" /\ (Goto(w, state) \/ Goto(w, NoRequest))
      BY <2>4 DEF CheckPrincipal
    <3>2. client[w] \in [pc: {"principal", "rotate"}, from: Tokens, who: Principals, version: Version]
      BY <3>1 DEF TypeOK, ClientStates, NoRequest
    <3>3. /\ state \in ClientStates /\ state.from = client[w].from
          /\ state.who = client[w].who /\ state.version = client[w].version
      BY <3>2 DEF ClientStates
    <3>4. NoRequest \in ClientStates /\ NoRequest.pc = "idle"
      BY RequestTypes DEF NoRequest
    <3> HIDE DEF state
    <3> QED BY <3>1, <3>3, <3>4
  <2> QED BY <2>1, <2>2, <2>3, <2>4
<1>4. /\ client' \in [Clients -> ClientStates] /\ client'[w] = state
      /\ \A v \in Clients \ {w} : client'[v] = client[v]
  BY <1>3 DEF Goto, TypeOK
<1>5. TypeOK'
  BY <1>1, <1>4 DEF TypeOK, Exists
<1>6. Carries(w)'
  <2>1. CASE state.pc \in {"idle", "create"}
    BY <2>1, <1>4 DEF Carries
  <2>2. CASE \E t \in Tokens : /\ Live(t) /\ state.from = t
                               /\ state.who = token[t].who /\ state.version = token[t].version
    BY <2>2, <1>1, <1>4 DEF Carries, Live, Exists
  <2>3. CASE /\ client[w].pc = "principal" /\ state.from = client[w].from
             /\ state.who = client[w].who /\ state.version = client[w].version
    BY <2>3, <1>2, <1>4, CarriedInv
  <2> QED BY <1>3, <2>1, <2>2, <2>3
<1>7. \A v \in Clients \ {w} : Carries(v)'
  BY <1>2, <1>4, CarriedInv
<1>8. Fresh' /\ Bound' /\ OneLivePerSession'
  BY <1>2, FollowsInv
<1> QED BY <1>5, <1>6, <1>7, <1>8 DEF SessionInv, Carried

\* A login inserts its token.
LEMMA CreateTokenInv ==
  ASSUME TypeOK, SessionInv, NEW w \in Clients, CreateToken(w) PROVE TypeOK' /\ SessionInv'
<1> DEFINE r == client[w]
<1>1. /\ r.pc = "create" /\ r.who \in Principals /\ r.version \in Version
      /\ UNCHANGED <<customer, adminEpoch, editor, epochs, retired, clock, faults>>
  BY ClientTypes DEF CreateToken, bounds
<1>2. /\ client' \in [Clients -> ClientStates] /\ client'[w].pc = "idle"
      /\ \A v \in Clients \ {w} : client'[v] = client[v]
  BY RequestTypes DEF CreateToken, Goto, TypeOK, NoRequest
<1>3. CASE UNCHANGED token
  <2>1. TypeOK'
    BY <1>1, <1>2, <1>3 DEF TypeOK, Exists
  <2>2. \A t \in Tokens : Follows(t)
    BY <1>3 DEF Follows
  <2> QED BY <2>1, <2>2, <1>2, QuietInv
<1>4. ASSUME NEW t0 \in Tokens, token[t0] = NoToken, r.who = Admin \/ customer[r.who] # NoRow,
             token' = [token EXCEPT ![t0] = Issued(r.who, r.version, t0, r.version)]
      PROVE  TypeOK' /\ SessionInv'
  <2>1. clock \in Times
    BY DEF TypeOK
  <2> DEFINE new == Issued(r.who, r.version, t0, r.version)
  <2>2. /\ new \in Token /\ new.who = r.who /\ new.session = t0
        /\ new.version = r.version /\ new.born = r.version
    BY <1>1, <2>1, IssuedTypes
  <2>3. /\ token' \in [Tokens -> Token \cup {NoToken, GoneToken}]
        /\ token'[t0] = new /\ \A t \in Tokens \ {t0} : token'[t] = token[t]
    <3> HIDE DEF new, r
    <3> QED BY <1>4, <2>2 DEF TypeOK, new, r
  <2> HIDE DEF new
  <2>4. \A t \in Tokens : Exists(t)' => token'[t].who = Admin \/ customer'[token'[t].who] # NoRow
    BY <1>1, <1>4, <2>2, <2>3 DEF TypeOK, Exists
  <2>5. TypeOK'
    BY <1>1, <1>2, <2>3, <2>4 DEF TypeOK
  <2>6. \A t \in Tokens \ {t0} : Follows(t)
    BY <2>3 DEF Follows
  <2>7. ASSUME NEW t \in Tokens \ {t0}, Live(t)' PROVE token'[t].session # t0
    <3>1. Exists(t) /\ token'[t] = token[t]
      BY <2>7, <2>3 DEF Live, Exists
    <3> QED BY <3>1, <1>4 DEF SessionInv, Fresh
  <2>8. token'[token'[t0].session] # NoToken
    BY <2>2, <2>3
  <2>9. Fresh' /\ Bound' /\ OneLivePerSession'
    BY <1>4, <2>2, <2>3, <2>6, <2>7, <2>8, IssueInv
  <2>10. \A v \in Clients : Carries(v)'
    BY <1>2, <1>4, <2>6, CarriedInv
  <2> QED BY <2>5, <2>9, <2>10 DEF SessionInv, Carried
<1> QED BY <1>3, <1>4 DEF CreateToken

\* A rotation revokes the token it was asked for and inserts its successor.
LEMMA RotateInv ==
  ASSUME TypeOK, SessionInv, NEW w \in Clients, Rotate(w) PROVE TypeOK' /\ SessionInv'
<1> DEFINE r == client[w]
<1>1. /\ r.pc = "rotate" /\ r.who \in Principals /\ r.version \in Version /\ r.from \in Tokens
      /\ UNCHANGED <<customer, adminEpoch, editor, epochs, retired, clock, faults>>
  BY ClientTypes DEF Rotate, bounds
<1>2. /\ client' \in [Clients -> ClientStates] /\ client'[w].pc = "idle"
      /\ \A v \in Clients \ {w} : client'[v] = client[v]
  BY RequestTypes DEF Rotate, Goto, TypeOK, NoRequest
<1>3. CASE UNCHANGED token
  <2>1. TypeOK'
    BY <1>1, <1>2, <1>3 DEF TypeOK, Exists
  <2>2. \A t \in Tokens : Follows(t)
    BY <1>3 DEF Follows
  <2> QED BY <2>1, <2>2, <1>2, QuietInv
<1>4. ASSUME NEW t0 \in Tokens, token[t0] = NoToken, Live(r.from),
             token' = [token EXCEPT ![r.from].revoked = clock, ![t0] = Successor(r)]
      PROVE  TypeOK' /\ SessionInv'
  <2> DEFINE f == r.from
             new == Successor(r)
  <2>1. clock \in Times /\ f \in Tokens /\ f # t0 /\ Exists(f) /\ token[f] \in Token
    BY <1>1, <1>4 DEF TypeOK, Live, Exists
  <2>2. /\ token[f].who = r.who /\ token[f].version = r.version
        /\ token[f].session \in Tokens /\ token[f].born = r.version /\ token[f].revoked = Never
    BY <1>1, <1>4, <2>1 DEF SessionInv, Carried, Carries, Bound, Token, Live
  <2>3. /\ new \in Token /\ new.who = r.who /\ new.session = token[f].session
        /\ new.version = r.version /\ new.born = r.version
    BY <1>1, <2>1, <2>2, IssuedTypes DEF Successor
  <2> HIDE DEF new, f
  <2>4. token' = [[token EXCEPT ![f] = [token[f] EXCEPT !.revoked = clock]] EXCEPT ![t0] = new]
    BY <1>4 DEF f, new
  <2>5. /\ token' = [t \in Tokens |-> token'[t]]
        /\ token'[t0] = new /\ token'[f] = [token[f] EXCEPT !.revoked = clock]
        /\ \A t \in Tokens \ {t0, f} : token'[t] = token[t]
    BY <2>1, <2>4 DEF TypeOK
  <2>6. \A t \in Tokens \ {t0} : Follows(t)
    BY <2>1, <2>5 DEF Follows
  <2>7. token' \in [Tokens -> Token \cup {NoToken, GoneToken}]
    <3>1. \A t \in Tokens \ {t0} : token'[t] \in Token \cup {NoToken, GoneToken}
      BY <2>6, FollowsExists
    <3> QED BY <3>1, <2>3, <2>5
  <2>8. \A t \in Tokens : Exists(t)' => token'[t].who = Admin \/ customer'[token'[t].who] # NoRow
    <3>1. \A t \in Tokens \ {t0} : Exists(t)' => Exists(t) /\ token'[t].who = token[t].who
      BY <2>6, FollowsExists
    <3>2. r.who = Admin \/ customer[r.who] # NoRow
      BY <2>1, <2>2 DEF TypeOK
    <3> QED BY <3>1, <3>2, <2>3, <2>5, <1>1 DEF TypeOK
  <2>9. TypeOK'
    BY <1>1, <1>2, <2>7, <2>8 DEF TypeOK
  <2>10. ASSUME NEW t \in Tokens \ {t0}, Live(t)' PROVE token'[t].session # new.session
    <3>1. Exists(t) /\ token[t].revoked = Never /\ token'[t].session = token[t].session
      BY <2>10, <2>6, FollowsExists DEF Live
    <3>2. t # f
      <4>1. token'[f].revoked = clock /\ clock # Never
        BY <2>1, <2>5 DEF Token, Times, Never
      <4> QED BY <4>1, <2>10 DEF Live
    <3> QED BY <3>1, <3>2, <2>1, <2>2, <2>3 DEF SessionInv, OneLivePerSession, Live
  <2>11. token'[token'[t0].session] # NoToken
    <3>1. token[token[f].session] # NoToken /\ token[f].session # t0
      BY <2>1, <1>4 DEF SessionInv, Fresh
    <3>2. Follows(token[f].session)
      BY <3>1, <2>2, <2>6
    <3>3. token'[token[f].session] # NoToken
      BY <3>1, <3>2, <2>2, FollowsExists
    <3> QED BY <3>3, <2>3, <2>5
  <2>12. token'[t0] \in Token /\ token'[t0].version = token'[t0].born
    BY <2>3, <2>5
  <2>13. \A t \in Tokens \ {t0} : Live(t)' => token'[t].session # token'[t0].session
    BY <2>5, <2>10
  <2>14. Fresh' /\ Bound' /\ OneLivePerSession'
    BY <1>4, <2>6, <2>11, <2>12, <2>13, IssueInv
  <2>15. \A t \in Tokens : token[t] # NoToken => Follows(t)
    BY <1>4, <2>6
  <2>16. \A v \in Clients : Carries(v)'
    BY <1>2, <2>15, CarriedInv
  <2> QED BY <2>9, <2>14, <2>16 DEF SessionInv, Carried
<1> QED BY <1>3, <1>4 DEF Rotate

\* Tokens are only revoked or deleted, and requests only end.
LEMMA QuietStepInv ==
  ASSUME TypeOK, SessionInv,
         \/ \E t \in Tokens : Logout(t)
         \/ \E e \in Editors : \/ \E c \in Customers : PatchRead(e, c) \/ DeleteCustomer(e, c)
                               \/ PatchSave(e) \/ PatchReread(e) \/ RevokeFind(e) \/ RevokeApply(e)
         \/ Cleanup \/ Tick \/ RequestFails \/ Restart
  PROVE  TypeOK' /\ SessionInv'
<1> USE DEF tables, bounds
<1>1. ASSUME NEW t \in Tokens, Logout(t) PROVE TypeOK' /\ SessionInv'
  <2>1. /\ Exists(t) /\ token' = [token EXCEPT ![t] = [token[t] EXCEPT !.revoked = clock]]
        /\ UNCHANGED <<customer, adminEpoch, client, editor, epochs, retired, clock, faults>>
    BY <1>1 DEF Logout, Live
  <2>2. \A u \in Tokens : Follows(u)
    BY <2>1 DEF Follows, TypeOK
  <2>3. token' = [u \in Tokens |-> token'[u]]
    BY <2>1 DEF TypeOK
  <2>4. \A u \in Tokens : Exists(u)' => token[u].who = Admin \/ customer'[token[u].who] # NoRow
    BY <2>1, <2>2, FollowsExists DEF TypeOK
  <2>5. TypeOK'
    BY <2>1, <2>2, <2>3, <2>4, FollowsTypes DEF TypeOK
  <2> QED BY <2>1, <2>2, <2>5, QuietInv
<1>2. ASSUME NEW e \in Editors, NEW c \in Customers, PatchRead(e, c) PROVE TypeOK' /\ SessionInv'
  <2>1. /\ UNCHANGED <<customer, token, adminEpoch, client, epochs, retired, clock, faults>>
        /\ customer[c] \in CustomerRow
    BY <1>2 DEF PatchRead, TypeOK
  <2>2. [pc |-> "save", who |-> c, row |-> customer[c]] \in EditorStates
    BY <2>1, RequestTypes
  <2>3. editor' \in [Editors -> EditorStates]
    BY <1>2, <2>2 DEF PatchRead, Edit, TypeOK
  <2>4. TypeOK'
    BY <2>1, <2>3 DEF TypeOK, Exists
  <2> QED BY <2>1, <2>4, QuietInv DEF Follows
<1>3. ASSUME NEW e \in Editors, NEW c \in Customers, DeleteCustomer(e, c)
      PROVE  TypeOK' /\ SessionInv'
  <2>1. /\ customer' = [customer EXCEPT ![c] = NoRow]
        /\ token' = [t \in Tokens |-> IF Exists(t) /\ token[t].who = c THEN GoneToken ELSE token[t]]
        /\ UNCHANGED <<adminEpoch, client, editor, epochs, retired, clock, faults>>
    BY <1>3 DEF DeleteCustomer
  <2>2. \A u \in Tokens : Follows(u)
    BY <2>1 DEF Follows
  <2>3. token' = [u \in Tokens |-> token'[u]]
    BY <2>1
  <2>4. customer' \in [Customers -> CustomerRow \cup {NoRow}]
        /\ \A b \in Customers \ {c} : customer'[b] = customer[b]
    BY <2>1 DEF TypeOK
  <2>5. ASSUME NEW u \in Tokens, Exists(u)'
        PROVE  token[u].who = Admin \/ customer'[token[u].who] # NoRow
    <3>1. Exists(u) /\ token[u].who # c /\ token[u] \in Token
      BY <2>1, <2>5 DEF Exists, TypeOK
    <3>2. token[u].who \in Customers \cup {Admin}
      BY <3>1 DEF Token, Principals
    <3> QED BY <3>1, <3>2, <2>4 DEF TypeOK
  <2>6. TypeOK'
    BY <2>1, <2>2, <2>3, <2>4, <2>5, FollowsTypes DEF TypeOK
  <2> QED BY <2>1, <2>2, <2>6, QuietInv
<1>4. ASSUME NEW e \in Editors, PatchSave(e) PROVE TypeOK' /\ SessionInv'
  <2> DEFINE r == editor[e]
  <2>1. /\ r.who \in Customers /\ r.row \in CustomerRow /\ epochs \in Epochs /\ clock \in Times
        /\ UNCHANGED <<token, adminEpoch, client, clock, faults>>
    BY <1>4, EditorTypes DEF PatchSave, TypeOK
  <2>2. PICK p \in Patched(r.row) :
          /\ p.row.epoch <= MaxEpoch
          /\ customer' = [customer EXCEPT ![r.who] = p.row]
          /\ epochs' = IF p.reset THEN epochs + 1 ELSE epochs
          /\ retired' = IF p.reset THEN retired \cup Replaced(r.who, r.row) ELSE retired
          /\ Edit(e, [pc |-> "reread", who |-> r.who, now |-> clock, reset |-> p.reset,
                      could |-> CanLogin(r.row, clock) /\ r.row.creds # NoPassword])
    BY <1>4 DEF PatchSave
  <2>3. p.row \in CustomerRow /\ p.reset \in BOOLEAN /\ (p.reset => epochs + 1 \in Epochs)
    BY <2>1, <2>2, PatchedTypes
  <2>4. customer' \in [Customers -> CustomerRow \cup {NoRow}]
        /\ \A b \in Customers : customer[b] # NoRow => customer'[b] # NoRow
    <3> HIDE DEF r
    <3> QED BY <2>1, <2>2, <2>3 DEF TypeOK
  <2>5. epochs' \in Epochs
    BY <2>1, <2>2, <2>3
  <2>6. Replaced(r.who, r.row) \subseteq Principals \X Version
    <3> HIDE DEF r
    <3>1. r.who \in Principals /\ VersionOf(r.row) \in Version
      BY <2>1, VersionTypes DEF Principals
    <3>2. customer[r.who] # NoRow => VersionOf(customer[r.who]) \in Version
      BY <2>1, VersionTypes DEF TypeOK
    <3> QED BY <3>1, <3>2 DEF Replaced
  <2>7. retired' \subseteq Principals \X Version
    BY <2>2, <2>6 DEF TypeOK
  <2>8. editor' \in [Editors -> EditorStates]
    <3> DEFINE could == CanLogin(r.row, clock) /\ r.row.creds # NoPassword
               state == [pc |-> "reread", who |-> r.who, now |-> clock, could |-> could,
                         reset |-> p.reset]
    <3>1. could \in BOOLEAN
      BY <2>1 DEF CanLogin, CustomerRow
    <3>2. editor' = [editor EXCEPT ![e] = state]
      BY <2>2 DEF Edit
    <3> HIDE DEF could, r
    <3>3. state \in EditorStates
      BY <3>1, <2>1, <2>3, RequestTypes
    <3> HIDE DEF state
    <3> QED BY <3>2, <3>3 DEF TypeOK
  <2>9. TypeOK'
    BY <2>1, <2>4, <2>5, <2>7, <2>8, VersionTypes DEF TypeOK, Exists, Token, Principals
  <2> QED BY <2>1, <2>9, QuietInv DEF Follows
<1>5. ASSUME NEW e \in Editors, PatchReread(e) PROVE TypeOK' /\ SessionInv'
  <2>1. /\ editor[e].who \in Customers
        /\ UNCHANGED <<customer, token, adminEpoch, client, epochs, retired, clock, faults>>
    BY <1>5, EditorTypes DEF PatchReread
  <2>2. \E state \in {NoRequest, [pc |-> "revoke", who |-> editor[e].who]} : Edit(e, state)
    BY <1>5 DEF PatchReread
  <2>3. editor' \in [Editors -> EditorStates]
    BY <2>1, <2>2, RequestTypes DEF Edit, TypeOK
  <2>4. TypeOK'
    BY <2>1, <2>3 DEF TypeOK, Exists
  <2> QED BY <2>1, <2>4, QuietInv DEF Follows
<1>6. ASSUME NEW e \in Editors, RevokeFind(e) PROVE TypeOK' /\ SessionInv'
  <2> DEFINE found == {t \in Tokens : Live(t) /\ token[t].who = editor[e].who}
  <2>1. /\ editor[e].who \in Customers /\ found \in SUBSET Tokens
        /\ UNCHANGED <<customer, token, adminEpoch, client, epochs, retired, clock, faults>>
        /\ Edit(e, [pc |-> "revoking", who |-> editor[e].who, found |-> found])
    BY <1>6, EditorTypes DEF RevokeFind
  <2> HIDE DEF found
  <2>2. [pc |-> "revoking", who |-> editor[e].who, found |-> found] \in EditorStates
    BY <2>1, RequestTypes
  <2>3. editor' \in [Editors -> EditorStates]
    BY <2>1, <2>2 DEF Edit, TypeOK
  <2>4. TypeOK'
    BY <2>1, <2>3 DEF TypeOK, Exists
  <2> QED BY <2>1, <2>4, QuietInv DEF Follows
<1>7. ASSUME NEW e \in Editors, RevokeApply(e) PROVE TypeOK' /\ SessionInv'
  <2>1. /\ token' = [t \in Tokens |->
                       IF t \in editor[e].found /\ Live(t)
                       THEN [token[t] EXCEPT !.revoked = clock] ELSE token[t]]
        /\ UNCHANGED <<customer, adminEpoch, client, epochs, retired, clock, faults>>
        /\ Edit(e, NoRequest)
    BY <1>7 DEF RevokeApply
  <2>2. \A u \in Tokens : Follows(u)
    BY <2>1 DEF Follows, Live
  <2>3. token' = [u \in Tokens |-> token'[u]]
    BY <2>1
  <2>4. \A u \in Tokens : Exists(u)' => token[u].who = Admin \/ customer'[token[u].who] # NoRow
    BY <2>1, <2>2, FollowsExists DEF TypeOK
  <2>5. editor' \in [Editors -> EditorStates]
    BY <2>1, RequestTypes DEF Edit, TypeOK
  <2>6. TypeOK'
    BY <2>1, <2>2, <2>3, <2>4, <2>5, FollowsTypes DEF TypeOK
  <2> QED BY <2>1, <2>2, <2>6, QuietInv
<1>8. CASE Cleanup
  <2>1. PICK at \in 0 .. clock :
          token' = [t \in Tokens |-> IF Outdated(t, at) THEN GoneToken ELSE token[t]]
    BY <1>8 DEF Cleanup
  <2>2. UNCHANGED <<customer, adminEpoch, client, editor, epochs, retired, clock, faults>>
    BY <1>8 DEF Cleanup
  <2>3. \A u \in Tokens : Follows(u)
    BY <2>1 DEF Follows, Outdated
  <2>4. token' = [u \in Tokens |-> token'[u]]
    BY <2>1
  <2>5. \A u \in Tokens : Exists(u)' => token[u].who = Admin \/ customer'[token[u].who] # NoRow
    BY <2>2, <2>3, FollowsExists DEF TypeOK
  <2>6. TypeOK'
    BY <2>2, <2>3, <2>4, <2>5, FollowsTypes DEF TypeOK
  <2> QED BY <2>2, <2>3, <2>6, QuietInv
<1>9. CASE Tick
  <2>1. /\ clock' \in Times
        /\ UNCHANGED <<customer, token, adminEpoch, client, editor, epochs, retired, faults>>
    BY <1>9 DEF Tick, TypeOK, Times
  <2>2. TypeOK'
    BY <2>1 DEF TypeOK, Exists
  <2> QED BY <2>1, <2>2, QuietInv DEF Follows
<1>10. CASE RequestFails
  <2>1. /\ faults' \in 0 .. MaxFaults
        /\ UNCHANGED <<customer, token, adminEpoch, epochs, retired, clock>>
    BY <1>10 DEF RequestFails, Fault, TypeOK
  <2>2. \/ \E w \in Clients : Goto(w, NoRequest) /\ UNCHANGED editor
        \/ \E e \in Editors : Edit(e, NoRequest) /\ UNCHANGED client
    BY <1>10 DEF RequestFails
  <2>3. /\ client' \in [Clients -> ClientStates] /\ editor' \in [Editors -> EditorStates]
        /\ \A w \in Clients : client'[w] = client[w] \/ client'[w].pc \in {"idle", "create"}
    BY <2>2, RequestTypes DEF Goto, Edit, TypeOK, NoRequest
  <2>4. TypeOK'
    BY <2>1, <2>3 DEF TypeOK, Exists
  <2> QED BY <2>1, <2>3, <2>4, QuietInv DEF Follows
<1>11. CASE Restart
  <2>1. /\ faults' \in 0 .. MaxFaults /\ UNCHANGED <<customer, token, clock>>
    BY <1>11 DEF Restart, Fault, TypeOK
  <2>2. /\ client' \in [Clients -> ClientStates] /\ editor' \in [Editors -> EditorStates]
        /\ \A w \in Clients : client'[w].pc \in {"idle", "create"}
    BY <1>11, RequestTypes DEF Restart, TypeOK, NoRequest
  <2>3. adminEpoch' \in Epochs /\ epochs' \in Epochs
    <3>1. CASE adminEpoch' = epochs + 1 /\ epochs' = epochs + 1 /\ epochs < MaxEpoch
      BY <3>1 DEF TypeOK, Epochs
    <3>2. CASE UNCHANGED epochs /\ (UNCHANGED adminEpoch \/ adminEpoch' \in Epochs)
      BY <3>2 DEF TypeOK
    <3> QED BY <1>11, <3>1, <3>2 DEF Restart
  <2>4. Admin \in Principals /\ AdminVersion \in Version
    BY VersionTypes DEF TypeOK, Principals
  <2>5. retired' \subseteq Principals \X Version
    <3>1. retired \subseteq Principals \X Version
      BY DEF TypeOK
    <3>2. retired' \subseteq retired \cup {<<Admin, AdminVersion>>}
      BY <1>11 DEF Restart
    <3> QED BY <2>4, <3>1, <3>2
  <2>6. TypeOK'
    BY <2>1, <2>2, <2>3, <2>5 DEF TypeOK, Exists
  <2> QED BY <2>1, <2>2, <2>6, QuietInv DEF Follows
<1> QED
  BY <1>1, <1>2, <1>3, <1>4, <1>5, <1>6, <1>7, <1>8, <1>9, <1>10, <1>11

LEMMA StepInv == TypeOK /\ SessionInv /\ [Next]_vars => TypeOK' /\ SessionInv'
<1> SUFFICES ASSUME TypeOK, SessionInv, [Next]_vars PROVE TypeOK' /\ SessionInv'
  OBVIOUS
<1>1. CASE UNCHANGED vars
  BY <1>1 DEF vars, TypeOK, SessionInv, Fresh, Bound, Carried, Carries, OneLivePerSession, Live, Exists
<1>2. ASSUME NEW w \in Clients,
             \/ \E c \in Customers : Login(w, c)
             \/ AdminLogin(w) \/ CreateToken(w)
             \/ \E t \in Tokens : Refresh(w, t)
             \/ CheckPrincipal(w) \/ Rotate(w)
      PROVE  TypeOK' /\ SessionInv'
  BY <1>2, ClientStepInv, CreateTokenInv, RotateInv
<1> QED BY <1>1, <1>2, QuietStepInv DEF Next

\* AuthSessions keeps its types and its sessions apart.
THEOREM SessionsHold == Spec => [](TypeOK /\ SessionInv)
<1>1. TypeOK /\ SessionInv /\ [Next]_vars => (TypeOK /\ SessionInv)'
  BY StepInv
<1> QED BY InitInv, <1>1, PTL DEF Spec

\* The types of AuthSessions, with the customer of every token.
THEOREM SessionTypes == Spec => []TypeOK
  BY SessionsHold, PTL

\* A session never has two refresh tokens that are not revoked.
THEOREM OneLiveHolds == Spec => []OneLivePerSession
<1>1. SessionInv => OneLivePerSession
  BY DEF SessionInv
<1> QED BY <1>1, SessionsHold, PTL

(***************************************************************************)
(* What a reset invalidates.                                               *)
(***************************************************************************)
\* The row a PATCH saves is the one that is there.
Current == \A e \in Editors : editor[e].pc = "save" => customer[editor[e].who] = editor[e].row

\* Epochs are taken in turn, what was replaced of a customer has an earlier one,
\* and what was replaced of the administrator is not configured.
Earlier ==
    /\ adminEpoch <= epochs
    /\ \A c \in Customers : customer[c] # NoRow => customer[c].epoch <= epochs
    /\ \A v \in Version : <<Admin, v>> \in retired => v.epoch <= epochs /\ v # AdminVersion
    /\ \A c \in Customers, v \in Version :
          <<c, v>> \in retired /\ customer[c] # NoRow => v.epoch < customer[c].epoch

LEMMA EarlierInit == Init => Earlier
<1> SUFFICES ASSUME Init PROVE Earlier
  OBVIOUS
<1>1. \A c \in Customers : customer[c].epoch = 0
  BY DEF Init
<1> QED BY <1>1 DEF Init, Earlier

\* Whatever a step does to tokens and requests: it may only take rows away.
LEMMA EarlierKept ==
  ASSUME TypeOK, Earlier, UNCHANGED <<adminEpoch, epochs, retired>>,
         \A c \in Customers : customer'[c] = customer[c] \/ customer'[c] = NoRow
  PROVE  Earlier'
  BY DEF Earlier, AdminVersion

LEMMA EarlierStep ==
  ASSUME TypeOK, Current, Earlier, [Next]_vars PROVE Earlier'
<1> USE DEF tables, bounds
<1>1. ASSUME UNCHANGED <<customer, adminEpoch, epochs, retired>> PROVE Earlier'
  BY <1>1, EarlierKept
<1>2. ASSUME NEW e \in Editors, NEW c \in Customers, DeleteCustomer(e, c) PROVE Earlier'
  BY <1>2, EarlierKept DEF DeleteCustomer, TypeOK
<1>3. ASSUME NEW e \in Editors, PatchSave(e) PROVE Earlier'
  <2> DEFINE c == editor[e].who
             row == editor[e].row
  <2>2. PICK p \in Patched(row) :
          /\ p.row.epoch <= MaxEpoch
          /\ customer' = [customer EXCEPT ![c] = p.row]
          /\ epochs' = IF p.reset THEN epochs + 1 ELSE epochs
          /\ retired' = IF p.reset THEN retired \cup Replaced(c, row) ELSE retired
    BY <1>3 DEF PatchSave
  <2>3. /\ c \in Customers /\ row \in CustomerRow /\ customer[c] = row /\ epochs \in Epochs
        /\ adminEpoch' = adminEpoch /\ row # NoRow
    BY <1>3, EditorTypes DEF PatchSave, Current, TypeOK
  <2> HIDE DEF c, row
  <2>4. /\ p.row \in CustomerRow /\ p.reset \in BOOLEAN /\ (~p.reset => p.row = row)
        /\ (p.reset => p.row.epoch = epochs + 1 /\ epochs + 1 \in Epochs)
    BY <2>2, <2>3, PatchedTypes
  <2>5. /\ customer'[c] = p.row
        /\ \A b \in Customers \ {c} : customer'[b] = customer[b]
    BY <2>2, <2>3 DEF TypeOK
  <2>7. CASE ~p.reset
    <3>1. \A b \in Customers : customer'[b] = customer[b]
      BY <2>3, <2>4, <2>5, <2>7
    <3>2. UNCHANGED <<adminEpoch, epochs, retired>>
      BY <2>2, <2>3, <2>7
    <3> QED BY <3>1, <3>2, EarlierKept
  <2>8. CASE p.reset
    <3>1. /\ epochs' = epochs + 1 /\ epochs \in Nat /\ adminEpoch \in Nat
          /\ customer'[c].epoch = epochs + 1
      BY <2>2, <2>3, <2>4, <2>5, <2>8 DEF Epochs, TypeOK
    <3>2. retired' = retired \cup {<<c, VersionOf(row)>>}
      BY <2>2, <2>3, <2>8 DEF Replaced
    <3>3. VersionOf(row).epoch = row.epoch /\ row.epoch \in Nat /\ row.epoch <= epochs
      BY <2>3 DEF VersionOf, CustomerRow, Epochs, Earlier
    <3>4. adminEpoch' <= epochs'
      BY <2>3, <3>1 DEF Earlier
    <3>5. ASSUME NEW b \in Customers, customer'[b] # NoRow PROVE customer'[b].epoch <= epochs'
      <4>1. CASE b = c
        BY <4>1, <3>1
      <4>2. CASE b # c
        <5>1. customer[b] \in CustomerRow /\ customer[b].epoch <= epochs /\ customer'[b] = customer[b]
          BY <3>5, <4>2, <2>5 DEF Earlier, TypeOK
        <5>2. customer[b].epoch \in Nat
          BY <5>1 DEF CustomerRow, Epochs
        <5> QED BY <5>1, <5>2, <3>1
      <4> QED BY <4>1, <4>2
    <3>6. ASSUME NEW v \in Version, <<Admin, v>> \in retired'
          PROVE  v.epoch <= epochs' /\ v # AdminVersion'
      <4>1. <<Admin, v>> \in retired
        BY <3>2, <3>6, <2>3
      <4>2. v.epoch <= epochs /\ v # AdminVersion /\ v.epoch \in Nat
        BY <4>1 DEF Earlier, Version, Epochs
      <4>3. AdminVersion' = AdminVersion
        BY <2>3 DEF AdminVersion
      <4> QED BY <4>2, <4>3, <3>1
    <3>7. ASSUME NEW b \in Customers, NEW v \in Version, <<b, v>> \in retired', customer'[b] # NoRow
          PROVE  v.epoch < customer'[b].epoch
      <4>1. CASE b # c
        BY <4>1, <3>2, <3>7, <2>5 DEF Earlier
      <4>2. CASE b = c /\ v = VersionOf(row)
        BY <4>2, <3>1, <3>3
      <4>3. CASE b = c /\ <<b, v>> \in retired
        <5>1. v.epoch < row.epoch /\ v.epoch \in Nat
          BY <4>3, <2>3 DEF Earlier, Version, Epochs
        <5> QED BY <5>1, <4>3, <3>1, <3>3
      <4> QED BY <4>1, <4>2, <4>3, <3>2, <3>7
    <3> QED BY <3>4, <3>5, <3>6, <3>7 DEF Earlier
  <2> QED BY <2>4, <2>7, <2>8
<1>4. CASE Restart
  <2>2. customer' = customer
    BY <1>4 DEF Restart
  <2>3. CASE UNCHANGED <<adminEpoch, epochs, retired>>
    BY <2>2, <2>3, EarlierKept
  <2>4. CASE /\ epochs' = epochs + 1 /\ adminEpoch' = epochs + 1
             /\ retired' = retired \cup {<<Admin, AdminVersion>>}
    <3>1. epochs \in Nat /\ adminEpoch \in Nat /\ adminEpoch <= epochs
      BY DEF TypeOK, Epochs, Earlier
    <3>2. ASSUME NEW c \in Customers, customer'[c] # NoRow PROVE customer'[c].epoch <= epochs'
      <4>1. customer[c].epoch \in Nat /\ customer[c].epoch <= epochs
        BY <2>2, <3>2 DEF TypeOK, CustomerRow, Epochs, Earlier
      <4> QED BY <4>1, <2>2, <2>4, <3>1
    <3>3. ASSUME NEW v \in Version, <<Admin, v>> \in retired'
          PROVE  v.epoch <= epochs' /\ v # AdminVersion'
      <4>1. AdminVersion.epoch = adminEpoch /\ AdminVersion'.epoch = epochs + 1
        BY <2>4 DEF AdminVersion, Configured
      <4>2. v.epoch \in Nat /\ v.epoch <= epochs
        BY <2>4, <3>1, <3>3, <4>1 DEF Earlier, Version, Epochs
      <4> QED BY <4>1, <4>2, <2>4, <3>1
    <3>4. \A c \in Customers, v \in Version :
             <<c, v>> \in retired' /\ customer'[c] # NoRow => v.epoch < customer'[c].epoch
      BY <2>2, <2>4 DEF Earlier
    <3> QED BY <2>4, <3>1, <3>2, <3>3, <3>4 DEF Earlier
  <2>5. ASSUME NEW e \in Epochs, <<Admin, Configured(e)>> \in retired, adminEpoch' = e,
               retired' = (retired \cup {<<Admin, AdminVersion>>}) \ {<<Admin, Configured(e)>>},
               UNCHANGED epochs
        PROVE  Earlier'
    <3>1. Configured(e) \in Version /\ Configured(e).epoch = e
      BY DEF Configured, Version
    <3>2. adminEpoch' <= epochs'
      BY <2>5, <3>1 DEF Earlier
    <3>3. AdminVersion' = Configured(e) /\ AdminVersion.epoch = adminEpoch
      BY <2>5 DEF AdminVersion, Configured
    <3>4. ASSUME NEW v \in Version, <<Admin, v>> \in retired'
          PROVE  v.epoch <= epochs' /\ v # AdminVersion'
      BY <2>5, <3>3, <3>4 DEF Earlier
    <3>5. \A c \in Customers, v \in Version :
             <<c, v>> \in retired' /\ customer'[c] # NoRow => v.epoch < customer'[c].epoch
      BY <2>2, <2>5 DEF Earlier
    <3>6. \A c \in Customers : customer'[c] # NoRow => customer'[c].epoch <= epochs'
      BY <2>2, <2>5 DEF Earlier
    <3> QED BY <3>2, <3>4, <3>5, <3>6 DEF Earlier
  <2> QED BY <1>4, <2>3, <2>4, <2>5 DEF Restart
<1> QED
  BY <1>1, <1>2, <1>3, <1>4
  DEF Next, vars, Login, AdminLogin, CreateToken, Refresh, CheckPrincipal, Rotate, Logout,
      PatchRead, PatchReread, RevokeFind, RevokeApply, Cleanup, Tick, RequestFails

\* No session that began under a version since replaced can be continued, as long
\* as no PATCH saves a row that has changed since it read it: a stale save is
\* the only way back for it.
THEOREM ResetUnlessStale == Spec /\ []Current => []ResetInvalidates
<1>1. Init => Earlier
  BY EarlierInit
<1>2. TypeOK /\ Current /\ Earlier /\ [Next]_vars => Earlier'
  BY EarlierStep
<1>3. TypeOK /\ SessionInv /\ Earlier => ResetInvalidates
  <2> SUFFICES ASSUME TypeOK, SessionInv, Earlier, NEW t \in Tokens, Exists(t),
                      <<token[t].who, token[t].born>> \in retired, Usable(t)
               PROVE  FALSE
    BY DEF ResetInvalidates
  <2> DEFINE p == token[t].who
             v == token[t].version
  <2>1. v \in Version /\ <<p, v>> \in retired /\ Accepts(p, v, clock)
    BY DEF TypeOK, Exists, Token, SessionInv, Bound, Usable
  <2> HIDE DEF p, v
  <2>2. CASE p = Admin /\ v = AdminVersion
    BY <2>1, <2>2 DEF Earlier
  <2>3. CASE p \in Customers /\ customer[p] # NoRow /\ v = VersionOf(customer[p])
    <3>1. v.epoch = customer[p].epoch /\ v.epoch \in Nat
      BY <2>1, <2>3 DEF VersionOf, Version, Epochs
    <3> QED BY <2>1, <2>3, <3>1 DEF Earlier
  <2> QED BY <2>1, <2>2, <2>3 DEF Accepts
<1> QED BY <1>1, <1>2, <1>3, SessionsHold, PTL DEF Spec

\* A row that a PATCH holds is changed by that PATCH only.
HeldRowsStay ==
    \A e \in Editors :
       editor[e].pc = "save" /\ editor'[e] = editor[e] =>
          customer'[editor[e].who] = customer[editor[e].who]

\* What a PATCH is about to save was in its hands before, or has just been read.
LEMMA SaveHeld ==
  ASSUME TypeOK, [Next]_vars, NEW e \in Editors, editor'[e].pc = "save"
  PROVE  \/ editor'[e] = editor[e]
         \/ customer'[editor'[e].who] = editor'[e].row
<1> USE DEF tables, bounds
<1>1. CASE UNCHANGED editor
  BY <1>1
<1>2. ASSUME NEW d \in Editors, NEW c \in Customers, PatchRead(d, c) PROVE editor'[e] = editor[e]
        \/ customer'[editor'[e].who] = editor'[e].row
  BY <1>2 DEF PatchRead, Edit, TypeOK
<1>3. ASSUME NEW d \in Editors, NEW state, Edit(d, state), state.pc # "save"
      PROVE  editor'[e] = editor[e]
  BY <1>3 DEF Edit, TypeOK
<1>4. ASSUME NEW d \in Editors, PatchSave(d) PROVE editor'[e] = editor[e]
  <2>1. PICK p \in Patched(editor[d].row) :
          Edit(d, [pc |-> "reread", who |-> editor[d].who, now |-> clock, reset |-> p.reset,
                   could |-> CanLogin(editor[d].row, clock) /\ editor[d].row.creds # NoPassword])
    BY <1>4 DEF PatchSave
  <2> QED BY <2>1, <1>3
<1>5. ASSUME NEW d \in Editors, PatchReread(d) \/ RevokeFind(d) \/ RevokeApply(d)
      PROVE  editor'[e] = editor[e]
  <2>1. \E state : Edit(d, state) /\ state.pc # "save"
    BY <1>5 DEF PatchReread, RevokeFind, RevokeApply, NoRequest
  <2> QED BY <2>1, <1>3
<1>6. CASE RequestFails
  <2>1. editor' = editor \/ \E d \in Editors : Edit(d, NoRequest)
    BY <1>6 DEF RequestFails
  <2> QED BY <2>1, <1>3 DEF NoRequest
<1>7. CASE Restart
  BY <1>7 DEF Restart, NoRequest
<1> QED
  BY <1>1, <1>2, <1>4, <1>5, <1>6, <1>7
  DEF Next, vars, Login, AdminLogin, CreateToken, Refresh, CheckPrincipal, Rotate, Logout,
      DeleteCustomer, Cleanup, Tick

\* Rows are current in the hands of the PATCHes when nobody changes a row that
\* another request is about to save.
LEMMA CurrentHolds == Spec /\ [][HeldRowsStay]_vars => []Current
<1>1. Init => Current
  BY DEF Init, Current, NoRequest
<1>2. TypeOK /\ Current /\ [Next]_vars /\ [HeldRowsStay]_vars => Current'
  <2> SUFFICES ASSUME TypeOK, Current, [Next]_vars, [HeldRowsStay]_vars,
                      NEW e \in Editors, editor'[e].pc = "save"
               PROVE  customer'[editor'[e].who] = editor'[e].row
    BY DEF Current
  <2>1. CASE editor'[e] = editor[e]
    <3>1. customer[editor[e].who] = editor[e].row
      BY <2>1 DEF Current
    <3>2. customer'[editor[e].who] = customer[editor[e].who]
      BY <2>1 DEF HeldRowsStay, vars
    <3> QED BY <2>1, <3>1, <3>2
  <2> QED BY <2>1, SaveHeld
<1> QED BY <1>1, <1>2, SessionTypes, PTL DEF Spec

\* At most one PATCH or DELETE of a customer at a time.
OneEditor == \A d, e \in Editors : d = e

\* With one editor nobody else is there to change the row.
LEMMA OneEditorHolds ==
  ASSUME OneEditor, TypeOK, [Next]_vars PROVE HeldRowsStay
<1> USE DEF tables, bounds
<1> SUFFICES ASSUME NEW e \in Editors, editor[e].pc = "save", editor'[e] = editor[e]
             PROVE  customer'[editor[e].who] = customer[editor[e].who]
  BY DEF HeldRowsStay
<1>1. \A d \in Editors : d = e
  BY DEF OneEditor
<1>2. ASSUME NEW d \in Editors, PatchSave(d) PROVE FALSE
  BY <1>1, <1>2 DEF PatchSave, Edit, TypeOK
<1>3. ASSUME NEW d \in Editors, NEW c \in Customers, DeleteCustomer(d, c) PROVE FALSE
  BY <1>1, <1>3 DEF DeleteCustomer, NoRequest
<1>4. CASE UNCHANGED customer
  BY <1>4
<1> QED
  BY <1>2, <1>3, <1>4
  DEF Next, vars, Login, AdminLogin, CreateToken, Refresh, CheckPrincipal, Rotate, Logout,
      PatchRead, PatchReread, RevokeFind, RevokeApply, Cleanup, Tick, RequestFails, Restart

LEMMA OneEditorCurrent == ASSUME OneEditor PROVE Spec => []Current
<1>1. TypeOK /\ [Next]_vars => [HeldRowsStay]_vars
  BY OneEditorHolds
<1> QED BY <1>1, SessionTypes, CurrentHolds, PTL DEF Spec

\* A reset invalidates when rows that a PATCH holds are left alone by the others,
\* however many requests overlap otherwise.
THEOREM ResetUnlessOverlapping == Spec /\ [][HeldRowsStay]_vars => []ResetInvalidates
BY ResetUnlessStale, CurrentHolds, PTL

\* It does when PATCHes and DELETEs of customers do not meet.
THEOREM ResetHolds == ASSUME OneEditor PROVE Spec => []ResetInvalidates
BY ResetUnlessStale, OneEditorCurrent, PTL

(***************************************************************************)
(* What ends a session.                                                    *)
(***************************************************************************)

\* A revocation found tokens of its customer only.
FoundOf(e) ==
    editor[e].pc = "revoking" =>
       \A t \in editor[e].found : token[t] # NoToken /\ (Exists(t) => token[t].who = editor[e].who)
FoundOwn == \A e \in Editors : FoundOf(e)

\* Tokens that are in the table follow what they were, in every step.
LEMMA TokensFollow ==
  ASSUME TypeOK, [Next]_vars, NEW t \in Tokens, token[t] # NoToken PROVE Follows(t)
<1> USE DEF tables, bounds
<1>1. CASE UNCHANGED token
  BY <1>1 DEF Follows
<1>2. ASSUME NEW w \in Clients, CreateToken(w) PROVE Follows(t)
  BY <1>1, <1>2 DEF CreateToken, Follows, TypeOK
<1>3. ASSUME NEW w \in Clients, Rotate(w) PROVE Follows(t)
  <2>1. CASE UNCHANGED token
    BY <1>1, <2>1
  <2>2. ASSUME NEW u \in Tokens, token[u] = NoToken, Live(client[w].from),
               token' = [token EXCEPT ![client[w].from].revoked = clock, ![u] = Successor(client[w])]
        PROVE  Follows(t)
    BY <2>2 DEF Follows, Live, TypeOK
  <2> QED BY <1>3, <2>1, <2>2 DEF Rotate
<1>4. ASSUME NEW u \in Tokens, Logout(u) PROVE Follows(t)
  BY <1>4 DEF Logout, Follows, Live, TypeOK
<1>5. ASSUME NEW e \in Editors, NEW c \in Customers, DeleteCustomer(e, c) PROVE Follows(t)
  BY <1>5 DEF DeleteCustomer, Follows
<1>6. ASSUME NEW e \in Editors, RevokeApply(e) PROVE Follows(t)
  BY <1>6 DEF RevokeApply, Follows, Live
<1>7. CASE Cleanup
  BY <1>7 DEF Cleanup, Follows, Outdated
<1> QED
  BY <1>1, <1>2, <1>3, <1>4, <1>5, <1>6, <1>7
  DEF Next, vars, Login, AdminLogin, Refresh, CheckPrincipal, PatchRead, PatchSave, PatchReread,
      RevokeFind, Tick, RequestFails, Restart

LEMMA FoundStep == ASSUME TypeOK, FoundOwn, [Next]_vars PROVE FoundOwn'
<1> USE DEF tables, bounds
<1>1. ASSUME NEW e \in Editors, editor'[e] = editor[e] PROVE FoundOf(e)'
  <2> SUFFICES ASSUME editor[e].pc = "revoking", NEW t \in editor[e].found
               PROVE  token'[t] # NoToken /\ (Exists(t)' => token'[t].who = editor[e].who)
    BY <1>1 DEF FoundOf, Exists
  <2>1. token[t] # NoToken /\ (Exists(t) => token[t].who = editor[e].who)
    BY DEF FoundOwn, FoundOf
  <2>2. editor[e] \in EditorStates
    BY DEF TypeOK
  <2>3. t \in Tokens
    BY <2>2 DEF EditorStates, NoRequest
  <2>4. Follows(t)
    BY <2>1, <2>3, TokensFollow
  <2> QED BY <2>1, <2>3, <2>4, FollowsExists
<1>2. ASSUME NEW e \in Editors, RevokeFind(e) PROVE FoundOwn'
  <2> DEFINE found == {t \in Tokens : Live(t) /\ token[t].who = editor[e].who}
             state == [pc |-> "revoking", who |-> editor[e].who, found |-> found]
  <2>1. UNCHANGED token /\ editor' = [editor EXCEPT ![e] = state]
    BY <1>2 DEF RevokeFind, Edit
  <2>2. \A d \in Editors \ {e} : editor'[d] = editor[d]
    BY <2>1 DEF TypeOK
  <2>3. editor'[e].who = editor[e].who /\ editor'[e].found = found
    BY <2>1 DEF TypeOK
  <2>4. FoundOf(e)'
    BY <2>1, <2>3 DEF FoundOf, Live, Exists
  <2> QED BY <1>1, <2>2, <2>4 DEF FoundOwn
<1>3. CASE \A e \in Editors : editor'[e] = editor[e] \/ editor'[e].pc # "revoking"
  BY <1>1, <1>3 DEF FoundOwn, FoundOf
<1>4. CASE editor' = editor
  BY <1>3, <1>4
<1>5. ASSUME NEW e \in Editors, NEW state, Edit(e, state), state.pc # "revoking" PROVE FoundOwn'
  BY <1>3, <1>5 DEF Edit, TypeOK
<1>6. ASSUME NEW e \in Editors, NEW c \in Customers, PatchRead(e, c) PROVE FoundOwn'
  <2>1. Edit(e, [pc |-> "save", who |-> c, row |-> customer[c]])
    BY <1>6 DEF PatchRead
  <2> QED BY <2>1, <1>5
<1>7. ASSUME NEW e \in Editors, PatchSave(e) PROVE FoundOwn'
  <2>1. PICK p \in Patched(editor[e].row) :
          Edit(e, [pc |-> "reread", who |-> editor[e].who, now |-> clock, reset |-> p.reset,
                   could |-> CanLogin(editor[e].row, clock) /\ editor[e].row.creds # NoPassword])
    BY <1>7 DEF PatchSave
  <2> QED BY <2>1, <1>5
<1>8. ASSUME NEW e \in Editors, PatchReread(e) \/ RevokeApply(e) PROVE FoundOwn'
  <2>1. Edit(e, NoRequest) \/ Edit(e, [pc |-> "revoke", who |-> editor[e].who])
    BY <1>8 DEF PatchReread, RevokeApply
  <2> QED BY <2>1, <1>5 DEF NoRequest
<1>9. CASE RequestFails
  <2>1. editor' = editor \/ \E e \in Editors : Edit(e, NoRequest)
    BY <1>9 DEF RequestFails
  <2> QED BY <2>1, <1>4, <1>5 DEF NoRequest
<1>10. CASE Restart
  BY <1>3, <1>10 DEF Restart, NoRequest
<1> QED
  BY <1>2, <1>4, <1>6, <1>7, <1>8, <1>9, <1>10
  DEF Next, vars, Login, AdminLogin, CreateToken, Refresh, CheckPrincipal, Rotate, Logout,
      DeleteCustomer, Cleanup, Tick

\* With its token, its principal and the time as they were, a session goes on.
LEMMA StaysUsable ==
  ASSUME NEW t \in Tokens, Usable(t), token'[t] = token[t], clock' = clock,
         \/ token[t].who = Admin /\ adminEpoch' = adminEpoch
         \/ token[t].who \in Customers /\ customer'[token[t].who] = customer[token[t].who]
  PROVE  Usable(t)'
<1>1. token[t].who = Admin => token[t].who \notin Customers
  OBVIOUS
<1> QED BY <1>1 DEF Usable, Live, Exists, Accepts, AdminVersion, Configured, CanLogin, VersionOf

LEMMA UndisturbedStep ==
  ASSUME TypeOK, FoundOwn, [Next]_vars, NEW t \in Tokens, Usable(t), ~Usable(t)'
  PROVE  Ends(t)
<1> USE DEF tables, bounds
<1> SUFFICES ASSUME clock' = clock,
                    ~(token[t].who = Admin /\ adminEpoch' # adminEpoch),
                    ~(token[t].who \in Customers
                        /\ customer'[token[t].who] # customer[token[t].who])
             PROVE  Ends(t)
  BY DEF Ends
<1>1. /\ token[t] \in Token /\ token[t].revoked = Never /\ token[t].expires > clock
      /\ token[t].who \in Customers \cup {Admin}
  BY DEF Usable, Live, Exists, TypeOK, Token, Principals
<1>2. token'[t] # token[t]
  BY <1>1, StaysUsable
<1>3. ASSUME NEW w \in Clients, CreateToken(w) PROVE Ends(t)
  BY <1>1, <1>2, <1>3 DEF CreateToken, TypeOK
<1>4. ASSUME NEW w \in Clients, Rotate(w) PROVE Ends(t)
  <2>1. client[w].pc = "rotate" /\ client'[w] = NoRequest /\ client' # client
    BY <1>4 DEF Rotate, Goto, TypeOK, NoRequest
  <2>2. client[w].from = t
    <3>1. PICK u \in Tokens :
            /\ token[u] = NoToken
            /\ token' = [token EXCEPT ![client[w].from].revoked = clock, ![u] = Successor(client[w])]
      BY <1>2, <1>4 DEF Rotate
    <3>2. u # t
      BY <1>1, <3>1
    <3> QED BY <1>2, <3>1, <3>2 DEF TypeOK
  <2> QED BY <2>1, <2>2 DEF Ends
<1>5. ASSUME NEW u \in Tokens, Logout(u) PROVE Ends(t)
  <2>1. u = t
    BY <1>2, <1>5 DEF Logout, TypeOK
  <2> QED BY <1>5, <2>1 DEF Ends
<1>6. ASSUME NEW e \in Editors, NEW c \in Customers, DeleteCustomer(e, c) PROVE Ends(t)
  <2>1. token[t].who = c
    BY <1>2, <1>6 DEF DeleteCustomer
  <2>2. customer'[c] = NoRow /\ customer[c] # NoRow
    BY <1>6 DEF DeleteCustomer, TypeOK
  <2> QED BY <2>1, <2>2
<1>7. ASSUME NEW e \in Editors, RevokeApply(e) PROVE Ends(t)
  <2>1. t \in editor[e].found /\ editor[e].pc = "revoking" /\ editor'[e] = NoRequest
    BY <1>2, <1>7 DEF RevokeApply, Edit, TypeOK
  <2>2. token[t].who = editor[e].who
    BY <2>1 DEF FoundOwn, FoundOf, Usable, Live
  <2> QED BY <2>1, <2>2 DEF Ends
<1>8. CASE Cleanup
  <2>1. PICK at \in 0 .. clock : Outdated(t, at)
    BY <1>2, <1>8 DEF Cleanup
  <2>2. clock \in Nat /\ at \in Nat /\ at <= clock /\ Never \in Nat /\ clock < Never
    BY DEF TypeOK, Times, Never
  <2>3. token[t].expires \in Nat
    BY <1>1, <2>2 DEF Token
  <2>4. Retention \in Nat
    OBVIOUS
  <2>5. ~(token[t].expires < at - Retention) /\ ~(token[t].revoked < at - Retention)
    BY <1>1, <2>2, <2>3, <2>4
  <2> QED BY <2>1, <2>5 DEF Outdated
<1> QED
  BY <1>2, <1>3, <1>4, <1>5, <1>6, <1>7, <1>8
  DEF Next, vars, Login, AdminLogin, Refresh, CheckPrincipal, PatchRead, PatchSave, PatchReread,
      RevokeFind, Tick, RequestFails, Restart

\* Only its own refresh, logout, customer, revocation, expiry or, for the
\* administrator, a restart with another configuration ends a session.
THEOREM UndisturbedHolds == Spec => SessionsUndisturbed
<1>1. Init => FoundOwn
  BY DEF Init, FoundOwn, FoundOf, NoRequest
<1>2. TypeOK /\ FoundOwn /\ [Next]_vars => FoundOwn'
  BY FoundStep
<1>3. TypeOK /\ FoundOwn /\ [Next]_vars => \A t \in Tokens : (Usable(t) /\ ~Usable(t)') => Ends(t)
  BY UndisturbedStep
<1> QED BY <1>1, <1>2, <1>3, SessionTypes, PTL DEF Spec, SessionsUndisturbed

(***************************************************************************)
(* The life of a session: nothing comes back.                              *)
(***************************************************************************)

\* Tokens, and requests that will make one, carry epochs that were handed out.
Aged ==
    /\ \A t \in Tokens : Exists(t) => token[t].version.epoch <= epochs
    /\ \A w \in Clients :
          client[w].pc \in {"create", "principal", "rotate"} => client[w].version.epoch <= epochs

\* A token lives no longer than a new one; so a refresh, which finds one that has
\* not expired, can make one that has not.
Timely ==
    /\ \A t \in Tokens : Exists(t) => token[t].expires <= clock + Lifetime
    /\ \A w \in Clients : client[w].pc \in {"principal", "rotate"} => Lifetime > 0

\* A request that is about to issue a token of the administrator was checked
\* against the configuration there is: a restart ends all requests.
AdminCurrent ==
    \A w \in Clients :
        client[w].pc \in {"create", "rotate"} /\ client[w].who = Admin =>
            client[w].version = AdminVersion

LifeInv == FoundOwn /\ Earlier /\ Aged /\ Timely /\ AdminCurrent

\* How the time, the epochs and what sessions are bound to change in a step.
BoundMoves ==
    /\ clock' \in Nat /\ epochs' \in Nat /\ clock' >= clock /\ epochs' >= epochs
    /\ \/ adminEpoch' = adminEpoch \/ adminEpoch' = epochs + 1
       \/ <<Admin, AdminVersion'>> \in retired
    /\ \A c \in Customers :
          customer'[c] = customer[c] \/ customer'[c] = NoRow \/ customer'[c].epoch = epochs + 1

LEMMA BoundSteps == ASSUME TypeOK, Current, [Next]_vars PROVE BoundMoves
<1> USE DEF tables, bounds
<1>1. clock \in Nat /\ epochs \in Nat
  BY DEF TypeOK, Times, Epochs
<1>2. CASE UNCHANGED <<customer, adminEpoch, epochs, clock>>
  BY <1>1, <1>2 DEF BoundMoves
<1>3. ASSUME NEW e \in Editors, NEW c \in Customers, DeleteCustomer(e, c) PROVE BoundMoves
  BY <1>1, <1>3 DEF DeleteCustomer, BoundMoves, TypeOK
<1>4. ASSUME NEW e \in Editors, PatchSave(e) PROVE BoundMoves
  <2> DEFINE c == editor[e].who
             row == editor[e].row
  <2>1. PICK p \in Patched(row) :
          /\ p.row.epoch <= MaxEpoch
          /\ customer' = [customer EXCEPT ![c] = p.row]
          /\ epochs' = IF p.reset THEN epochs + 1 ELSE epochs
    BY <1>4 DEF PatchSave
  <2>2. /\ c \in Customers /\ row \in CustomerRow /\ customer[c] = row /\ epochs \in Epochs
        /\ adminEpoch' = adminEpoch /\ clock' = clock
    BY <1>4, EditorTypes DEF PatchSave, Current, TypeOK
  <2> HIDE DEF c, row
  <2>3. (~p.reset => p.row = row) /\ (p.reset => p.row.epoch = epochs + 1)
    BY <2>1, <2>2, PatchedTypes
  <2>4. customer'[c] = p.row /\ \A b \in Customers \ {c} : customer'[b] = customer[b]
    BY <2>1, <2>2 DEF TypeOK
  <2>5. customer'[c] = customer[c] \/ customer'[c].epoch = epochs + 1
    BY <2>2, <2>3, <2>4
  <2>6. epochs' \in Nat /\ epochs' >= epochs
    BY <1>1, <2>1
  <2> QED BY <1>1, <2>2, <2>4, <2>5, <2>6 DEF BoundMoves
<1>5. CASE Tick
  BY <1>1, <1>5 DEF Tick, BoundMoves
<1>6. CASE Restart
  <2>1. customer' = customer /\ clock' = clock
    BY <1>6 DEF Restart
  <2>2. CASE UNCHANGED <<adminEpoch, epochs>>
    BY <1>1, <2>1, <2>2 DEF BoundMoves
  <2>3. CASE epochs' = epochs + 1 /\ adminEpoch' = epochs + 1
    BY <1>1, <2>1, <2>3 DEF BoundMoves
  <2>4. ASSUME NEW v \in Epochs, <<Admin, Configured(v)>> \in retired, adminEpoch' = v,
               epochs' = epochs
        PROVE  BoundMoves
    <3>1. <<Admin, AdminVersion'>> \in retired
      BY <2>4 DEF AdminVersion, Configured
    <3> QED BY <1>1, <2>1, <2>4, <3>1 DEF BoundMoves
  <2> QED BY <1>6, <2>2, <2>3, <2>4 DEF Restart
<1> QED
  BY <1>2, <1>3, <1>4, <1>5, <1>6
  DEF Next, vars, Login, AdminLogin, CreateToken, Refresh, CheckPrincipal, Rotate, Logout,
      PatchRead, PatchReread, RevokeFind, RevokeApply, Cleanup, RequestFails

\* The configuration changes in restarts only.
LEMMA OnlyRestarts == ASSUME [Next]_vars, adminEpoch' # adminEpoch PROVE Restart
  BY DEF Next, vars, tables, bounds, Login, AdminLogin, CreateToken, Refresh, CheckPrincipal, Rotate,
         Logout, PatchRead, PatchSave, DeleteCustomer, PatchReread, RevokeFind, RevokeApply,
         Cleanup, Tick, RequestFails

\* An accepted version was accepted before: a change brings an epoch that no
\* version in use has, unless it is one of the configuration.
LEMMA AcceptedBefore ==
  ASSUME TypeOK, BoundMoves, adminEpoch' = adminEpoch, NEW p \in Principals, NEW v \in Version, v.epoch <= epochs,
         Accepts(p, v, clock)'
  PROVE  Accepts(p, v, clock)
<1>1. /\ clock \in Nat /\ clock' \in Nat /\ clock' >= clock
      /\ epochs \in Nat /\ v.epoch \in Nat
  BY DEF TypeOK, BoundMoves, Times, Epochs, Version
<1>2. CASE p = Admin /\ v = [creds |-> NoPassword, epoch |-> adminEpoch']
  BY <1>2 DEF Accepts, AdminVersion, Configured
<1>3. CASE /\ p \in Customers /\ customer'[p] # NoRow
           /\ CanLogin(customer'[p], clock') /\ customer'[p].creds # NoPassword
           /\ v = VersionOf(customer'[p])
  <2>1. customer'[p].epoch # epochs + 1
    BY <1>1, <1>3 DEF VersionOf
  <2>2. customer'[p] = customer[p]
    BY <1>3, <2>1 DEF BoundMoves
  <2>3. customer[p].expires \in Nat
    <3>1. customer[p] \in CustomerRow
      BY <1>3, <2>2 DEF TypeOK
    <3> QED BY <3>1 DEF CustomerRow
  <2>4. CanLogin(customer[p], clock)
    BY <1>1, <1>3, <2>2, <2>3 DEF CanLogin
  <2> QED BY <1>3, <2>2, <2>4 DEF Accepts
<1>4. \/ p = Admin /\ v = [creds |-> NoPassword, epoch |-> adminEpoch']
      \/ /\ p \in Customers /\ customer'[p] # NoRow
         /\ CanLogin(customer'[p], clock') /\ customer'[p].creds # NoPassword
         /\ v = VersionOf(customer'[p])
  BY DEF Accepts, AdminVersion, Configured, CanLogin, VersionOf
<1> QED BY <1>2, <1>3, <1>4

\* How a request goes on in a step.
ClientMoves(w) ==
    \/ client'[w] = client[w]
    \/ client'[w].pc = "idle"
    \/ /\ client'[w].pc = "create"
       /\ \/ client'[w].who = Admin /\ client'[w].version = AdminVersion
          \/ \E c \in Customers : /\ client'[w].who = c /\ customer[c] # NoRow
                                  /\ client'[w].version = VersionOf(customer[c])
    \/ /\ client'[w].pc = "principal" /\ client'[w].from \in Tokens
       /\ Live(client'[w].from) /\ token[client'[w].from].expires > clock
       /\ client'[w].version = token[client'[w].from].version
    \/ /\ client[w].pc = "principal" /\ client'[w].pc = "rotate"
       /\ client'[w].from = client[w].from /\ client'[w].version = client[w].version
       /\ client'[w].who = client[w].who /\ Accepts(client[w].who, client[w].version, clock)

LEMMA ClientSteps == ASSUME TypeOK, [Next]_vars, NEW w \in Clients PROVE ClientMoves(w)
<1> USE DEF tables, bounds
<1>1. CASE UNCHANGED client
  BY <1>1 DEF ClientMoves
<1>2. ASSUME NEW x \in Clients, Goto(x, NoRequest) PROVE ClientMoves(w)
  BY <1>2 DEF Goto, NoRequest, ClientMoves, TypeOK
<1>3. ASSUME NEW x \in Clients, NEW c \in Customers, Login(x, c) PROVE ClientMoves(w)
  BY <1>3 DEF Login, Goto, ClientMoves, TypeOK
<1>4. ASSUME NEW x \in Clients, AdminLogin(x) PROVE ClientMoves(w)
  BY <1>4 DEF AdminLogin, Goto, ClientMoves, TypeOK
<1>5. ASSUME NEW x \in Clients, NEW t \in Tokens, Refresh(x, t) PROVE ClientMoves(w)
  <2> DEFINE r == [pc |-> "principal", from |-> t, who |-> token[t].who, version |-> token[t].version]
  <2>1. client' = [client EXCEPT ![x] = r] /\ Live(t) /\ token[t].expires > clock
    BY <1>5 DEF Refresh, Goto
  <2>2. r.pc = "principal" /\ r.from = t /\ r.version = token[t].version
    OBVIOUS
  <2> HIDE DEF r
  <2>3. client'[w] = client[w] \/ client'[w] = r
    BY <2>1 DEF TypeOK
  <2> QED BY <2>1, <2>2, <2>3 DEF ClientMoves
<1>6. ASSUME NEW x \in Clients, CheckPrincipal(x) PROVE ClientMoves(w)
  <2>1. CASE Goto(x, NoRequest)
    BY <1>2, <2>1
  <2>2. CASE /\ Goto(x, [client[x] EXCEPT !.pc = "rotate"]) /\ client[x].pc = "principal"
             /\ Accepts(client[x].who, client[x].version, clock)
    <3> DEFINE r == [client[x] EXCEPT !.pc = "rotate"]
    <3>1. client[x] \in [pc: {"principal", "rotate"}, from: Tokens, who: Principals, version: Version]
      BY <2>2 DEF TypeOK, ClientStates, NoRequest
    <3>2. r.pc = "rotate" /\ r.from = client[x].from /\ r.version = client[x].version
          /\ r.who = client[x].who
      BY <3>1
    <3>3. client' = [client EXCEPT ![x] = r]
      BY <2>2 DEF Goto
    <3> HIDE DEF r
    <3>4. client'[w] = client[w] \/ (w = x /\ client'[w] = r)
      BY <3>3 DEF TypeOK
    <3> QED BY <2>2, <3>2, <3>4 DEF ClientMoves
  <2> QED BY <1>6, <2>1, <2>2 DEF CheckPrincipal
<1>7. CASE Restart
  BY <1>7 DEF Restart, NoRequest, ClientMoves
<1>8. CASE RequestFails
  BY <1>1, <1>2, <1>8 DEF RequestFails
<1> QED
  BY <1>1, <1>2, <1>3, <1>4, <1>5, <1>6, <1>7, <1>8
  DEF Next, vars, CreateToken, Rotate, Logout, PatchRead, PatchSave, DeleteCustomer, PatchReread,
      RevokeFind, RevokeApply, Cleanup, Tick

\* Where a new token comes from: a login or a rotation.
CreatedBy(w, t) ==
    /\ CreateToken(w) /\ client[w].pc = "create"
    /\ token' = [token EXCEPT ![t] = Issued(client[w].who, client[w].version, t, client[w].version)]
RotatedBy(w, t) ==
    /\ Rotate(w) /\ client[w].pc = "rotate" /\ Live(client[w].from)
    /\ token' = [token EXCEPT ![client[w].from].revoked = clock, ![t] = Successor(client[w])]

LEMMA NewToken ==
  ASSUME TypeOK, [Next]_vars, NEW t \in Tokens, token[t] = NoToken, token'[t] # NoToken
  PROVE  \E w \in Clients : CreatedBy(w, t) \/ RotatedBy(w, t)
<1> USE DEF tables, bounds
<1>1. CASE UNCHANGED token
  BY <1>1
<1>2. ASSUME NEW w \in Clients, CreateToken(w) PROVE CreatedBy(w, t)
  <2>1. PICK u \in Tokens :
          token' = [token EXCEPT ![u] = Issued(client[w].who, client[w].version, u, client[w].version)]
    BY <1>1, <1>2 DEF CreateToken
  <2>2. u = t
    BY <2>1 DEF TypeOK
  <2> QED BY <1>2, <2>1, <2>2 DEF CreateToken, CreatedBy
<1>3. ASSUME NEW w \in Clients, Rotate(w) PROVE RotatedBy(w, t)
  <2>1. PICK u \in Tokens :
          /\ Live(client[w].from)
          /\ token' = [token EXCEPT ![client[w].from].revoked = clock, ![u] = Successor(client[w])]
    BY <1>1, <1>3 DEF Rotate
  <2>2. u = t
    BY <2>1 DEF TypeOK, Live, Exists
  <2> QED BY <1>3, <2>1, <2>2 DEF Rotate, RotatedBy
<1>4. ASSUME NEW u \in Tokens, Logout(u) PROVE FALSE
  BY <1>4 DEF Logout, Live, Exists, TypeOK
<1>5. ASSUME NEW e \in Editors, NEW c \in Customers, DeleteCustomer(e, c) PROVE FALSE
  BY <1>5 DEF DeleteCustomer, Exists
<1>6. ASSUME NEW e \in Editors, RevokeApply(e) PROVE FALSE
  BY <1>6 DEF RevokeApply, Live, Exists
<1>7. CASE Cleanup
  BY <1>7 DEF Cleanup, Outdated, Exists
<1> QED
  BY <1>1, <1>2, <1>3, <1>4, <1>5, <1>6, <1>7
  DEF Next, vars, Login, AdminLogin, Refresh, CheckPrincipal, PatchRead, PatchSave, PatchReread,
      RevokeFind, Tick, RequestFails, Restart

\* What the new token says.
LEMMA NewTokenSays ==
  ASSUME TypeOK, [Next]_vars, NEW t \in Tokens, token[t] = NoToken, token'[t] # NoToken
  PROVE  \E w \in Clients :
            /\ client[w].pc \in {"create", "rotate"}
            /\ token'[t].version = client[w].version /\ token'[t].expires = clock + Lifetime
            /\ clock' = clock
<1>1. PICK w \in Clients : CreatedBy(w, t) \/ RotatedBy(w, t)
  BY NewToken
<1>2. CASE CreatedBy(w, t)
  BY <1>2 DEF CreatedBy, Issued, TypeOK, CreateToken, bounds
<1>3. CASE RotatedBy(w, t)
  <2>1. token'[t] = Successor(client[w]) /\ clock' = clock
    BY <1>3 DEF RotatedBy, TypeOK, Rotate, bounds
  <2> QED BY <1>3, <2>1 DEF Successor, Issued, RotatedBy
<1> QED BY <1>1, <1>2, <1>3

\* A token that can still be used is the one it was.
LEMMA LiveSame ==
  ASSUME TypeOK, [Next]_vars, NEW t \in Tokens, token[t] # NoToken
  PROVE  /\ Live(t)' => Live(t) /\ token'[t] = token[t]
         /\ Exists(t)' => /\ Exists(t) /\ token'[t].version = token[t].version
                          /\ token'[t].expires = token[t].expires
                          /\ token'[t].session = token[t].session
                          /\ token'[t].who = token[t].who
<1>1. Follows(t)
  BY TokensFollow
<1>2. token[t] \in Token \cup {NoToken, GoneToken} /\ clock # Never
  BY DEF TypeOK, Times, Never
<1>3. CASE token'[t] = token[t]
  BY <1>3 DEF Live, Exists
<1>4. CASE token'[t] = GoneToken
  BY <1>4 DEF Live, Exists
<1>5. CASE Exists(t) /\ token'[t] = [token[t] EXCEPT !.revoked = clock]
  <2>1. token[t] \in Token
    BY <1>2, <1>5 DEF Exists
  <2>2. /\ token'[t].revoked = clock /\ token'[t].version = token[t].version
        /\ token'[t].expires = token[t].expires /\ token'[t].session = token[t].session
        /\ token'[t].who = token[t].who
    BY <1>5, <2>1 DEF Token
  <2> QED BY <1>2, <1>5, <2>2 DEF Live, Exists
<1> QED BY <1>1, <1>3, <1>4, <1>5 DEF Follows

LEMMA EpochTypes ==
  ASSUME TypeOK
  PROVE  /\ clock \in Nat /\ epochs \in Nat
         /\ \A t \in Tokens : Exists(t) => /\ token[t].version \in Version
                                           /\ token[t].version.epoch \in Nat
                                           /\ token[t].expires \in Nat
                                           /\ token[t].who \in Principals
                                           /\ token[t].session \in Tokens
         /\ \A w \in Clients : client[w].pc \in {"create", "principal", "rotate"} =>
               client[w].version \in Version /\ client[w].version.epoch \in Nat
<1>1. clock \in Nat /\ epochs \in Nat /\ Never \in Nat
  BY DEF TypeOK, Times, Epochs, Never
<1>2. \A v \in Version : v.epoch \in Nat
  BY DEF Version, Epochs
<1>3. \A t \in Tokens : Exists(t) => token[t] \in Token
  BY DEF TypeOK, Exists
<1>4. \A r \in Token : /\ r.version \in Version /\ r.expires \in Nat
                       /\ r.who \in Principals /\ r.session \in Tokens
  BY <1>1 DEF Token
<1>5. \A w \in Clients : client[w].pc \in {"create", "principal", "rotate"} =>
         client[w].version \in Version
  BY ClientTypes
<1> QED BY <1>1, <1>2, <1>3, <1>4, <1>5

LEMMA AgedStep ==
  ASSUME TypeOK, Current, Earlier, Aged, [Next]_vars PROVE Aged'
<1>1. epochs' \in Nat /\ epochs' >= epochs /\ epochs \in Nat
  BY BoundSteps, EpochTypes DEF BoundMoves
<1>2. ASSUME NEW t \in Tokens, Exists(t)' PROVE token'[t].version.epoch <= epochs'
  <2>1. CASE token[t] # NoToken
    <3>1. Exists(t) /\ token'[t].version = token[t].version
      BY <1>2, <2>1, LiveSame
    <3>2. token[t].version.epoch <= epochs /\ token[t].version.epoch \in Nat
      BY <3>1, EpochTypes DEF Aged
    <3> QED BY <1>1, <3>1, <3>2
  <2>2. CASE token[t] = NoToken
    <3>1. PICK w \in Clients :
            /\ client[w].pc \in {"create", "rotate"} /\ token'[t].version = client[w].version
      BY <1>2, <2>2, NewTokenSays DEF Exists
    <3>2. client[w].version.epoch <= epochs /\ client[w].version.epoch \in Nat
      BY <3>1, EpochTypes DEF Aged
    <3> QED BY <1>1, <3>1, <3>2
  <2> QED BY <2>1, <2>2
<1>3. ASSUME NEW w \in Clients, client'[w].pc \in {"create", "principal", "rotate"}
      PROVE  client'[w].version.epoch <= epochs'
  <2> DEFINE v == client'[w].version
  <2>1. v.epoch \in Nat /\ v.epoch <= epochs
    <3>1. CASE client'[w] = client[w]
      BY <1>3, <3>1, EpochTypes DEF Aged
    <3>2. CASE v = AdminVersion
      <4>1. v.epoch = adminEpoch /\ adminEpoch \in Nat
        BY <3>2 DEF AdminVersion, Configured, TypeOK, Epochs
      <4> QED BY <4>1 DEF Earlier
    <3>3. ASSUME NEW c \in Customers, customer[c] # NoRow, v = VersionOf(customer[c])
          PROVE  v.epoch \in Nat /\ v.epoch <= epochs
      <4>1. customer[c] \in CustomerRow /\ v.epoch = customer[c].epoch
        BY <3>3 DEF TypeOK, VersionOf
      <4>2. v.epoch \in Nat
        BY <4>1 DEF CustomerRow, Epochs
      <4> QED BY <3>3, <4>1, <4>2 DEF Earlier
    <3>4. ASSUME client'[w].from \in Tokens, Live(client'[w].from), v = token[client'[w].from].version
          PROVE  v.epoch \in Nat /\ v.epoch <= epochs
      BY <3>4, EpochTypes DEF Live, Aged
    <3>5. CASE client[w].pc = "principal" /\ v = client[w].version
      BY <3>5, EpochTypes DEF Aged
    <3> QED BY <1>3, <3>1, <3>2, <3>3, <3>4, <3>5, ClientSteps DEF ClientMoves
  <2> QED BY <1>1, <2>1
<1> QED BY <1>2, <1>3 DEF Aged, Exists

LEMMA TimelyStep ==
  ASSUME TypeOK, Current, Timely, [Next]_vars PROVE Timely'
<1>1. clock' \in Nat /\ clock' >= clock /\ clock \in Nat
  BY BoundSteps, EpochTypes DEF BoundMoves
<1>2. Lifetime \in Nat
  OBVIOUS
<1>3. ASSUME NEW t \in Tokens, Exists(t)' PROVE token'[t].expires <= clock' + Lifetime
  <2>1. CASE token[t] # NoToken
    <3>1. Exists(t) /\ token'[t].expires = token[t].expires
      BY <1>3, <2>1, LiveSame
    <3>2. token[t].expires <= clock + Lifetime /\ token[t].expires \in Nat
      BY <3>1, EpochTypes DEF Timely
    <3> QED BY <1>1, <1>2, <3>1, <3>2
  <2>2. CASE token[t] = NoToken
    <3>1. PICK now \in Nat : now = clock'
      BY <1>1
    <3>2. token'[t].expires = now + Lifetime
      BY <1>3, <2>2, <3>1, NewTokenSays DEF Exists
    <3>3. now + Lifetime <= now + Lifetime
      BY <1>2
    <3> QED BY <3>1, <3>2, <3>3
  <2> QED BY <2>1, <2>2
<1>4. ASSUME NEW w \in Clients, client'[w].pc \in {"principal", "rotate"} PROVE Lifetime > 0
  <2>1. CASE client[w].pc \in {"principal", "rotate"}
    BY <2>1 DEF Timely
  <2>2. CASE client[w].pc \notin {"principal", "rotate"}
    <3> DEFINE f == client'[w].from
    <3>1. f \in Tokens /\ Live(f) /\ token[f].expires > clock
      BY <1>4, <2>2, ClientSteps DEF ClientMoves
    <3>2. token[f].expires <= clock + Lifetime /\ token[f].expires \in Nat
      BY <3>1, EpochTypes DEF Timely, Live
    <3> QED BY <1>1, <1>2, <3>1, <3>2
  <2> QED BY <2>1, <2>2
<1> QED BY <1>3, <1>4 DEF Timely, Exists

LEMMA AdminCurrentStep ==
  ASSUME TypeOK, AdminCurrent, [Next]_vars PROVE AdminCurrent'
<1>1. CASE adminEpoch' # adminEpoch
  BY <1>1, OnlyRestarts DEF Restart, AdminCurrent, NoRequest
<1>2. CASE adminEpoch' = adminEpoch
  <2> SUFFICES ASSUME NEW w \in Clients, client'[w].pc \in {"create", "rotate"},
                      client'[w].who = Admin
               PROVE  client'[w].version = AdminVersion'
    BY DEF AdminCurrent
  <2>1. AdminVersion' = AdminVersion
    BY <1>2 DEF AdminVersion
  <2>2. CASE client'[w] = client[w]
    BY <2>1, <2>2 DEF AdminCurrent
  <2>3. CASE client'[w].version = AdminVersion
    BY <2>1, <2>3
  <2>4. CASE /\ client'[w].version = client[w].version /\ client'[w].who = client[w].who
             /\ Accepts(client[w].who, client[w].version, clock)
    BY <2>1, <2>4 DEF Accepts
  <2> QED BY <2>2, <2>3, <2>4, ClientSteps DEF ClientMoves
<1> QED BY <1>1, <1>2

LEMMA LifeInit == Init => LifeInv
<1> SUFFICES ASSUME Init PROVE LifeInv
  OBVIOUS
<1>1. \A t \in Tokens : ~Exists(t)
  BY DEF Init, Exists
<1>2. \A w \in Clients : client[w].pc = "idle"
  BY DEF Init, NoRequest
<1>3. FoundOwn
  BY DEF Init, FoundOwn, FoundOf, NoRequest
<1> QED BY <1>1, <1>2, <1>3, EarlierInit DEF LifeInv, Aged, Timely, AdminCurrent

LEMMA LifeStep ==
  TypeOK /\ Current /\ LifeInv /\ [Next]_vars => LifeInv'
BY FoundStep, EarlierStep, AgedStep, TimelyStep, AdminCurrentStep DEF LifeInv

\* What can be continued after a step and was there before it, could be continued.
LEMMA ContinuedBefore ==
  ASSUME TypeOK, Current, LifeInv, [Next]_vars, adminEpoch' = adminEpoch,
         NEW t \in Tokens, token[t] # NoToken, Continues(t)'
  PROVE  Continues(t)
<1>1. Live(t) /\ Exists(t) /\ token'[t] = token[t]
  BY LiveSame DEF Continues, Accepted, Live
<1>2. BoundMoves
  BY BoundSteps
<1>3. /\ token[t].who \in Principals /\ token[t].version \in Version
      /\ token[t].expires \in Nat /\ token[t].version.epoch <= epochs
  BY <1>1, EpochTypes DEF LifeInv, Aged
<1>4. Accepted(t)
  <2>1. PICK q, u : q = token[t].who /\ u = token[t].version
    OBVIOUS
  <2>2. Accepts(q, u, clock)'
    BY <1>1, <2>1 DEF Continues, Accepted, Accepts, AdminVersion, Configured, CanLogin, VersionOf
  <2>3. Accepts(q, u, clock)
    BY <1>2, <1>3, <2>1, <2>2, AcceptedBefore
  <2> QED BY <1>1, <2>1, <2>3 DEF Accepted
<1>5. CASE token'[t].expires > clock'
  <2>1. token[t].expires > clock
    BY <1>1, <1>2, <1>3, <1>5, EpochTypes DEF BoundMoves
  <2> QED BY <1>4, <2>1 DEF Continues
<1>6. CASE InFlight(t)'
  <2>1. PICK w \in Clients : client'[w].pc \in {"principal", "rotate"} /\ client'[w].from = t
    BY <1>6 DEF InFlight
  <2>2. \/ client[w].pc \in {"principal", "rotate"} /\ client[w].from = t
        \/ token[t].expires > clock
    BY <2>1, ClientSteps DEF ClientMoves
  <2> QED BY <1>4, <2>2 DEF Continues, InFlight
<1> QED BY <1>5, <1>6 DEF Continues

\* A login leaves the sessions there are alone.
LEMMA CreationKeeps ==
  ASSUME TypeOK, SessionInv, NEW w \in Clients, NEW t0 \in Tokens, token[t0] = NoToken,
         CreatedBy(w, t0)
  PROVE  /\ \A t \in Tokens \ {t0} : token'[t] = token[t] /\ (Continues(t)' <=> Continues(t))
         /\ token'[t0].session = t0 /\ token'[t0].who = client[w].who
         /\ client[w].who \in Principals
         /\ Continues(t0)' => token'[t0].expires > clock
         /\ UNCHANGED <<customer, adminEpoch, clock>>
<1> DEFINE r == Issued(client[w].who, client[w].version, t0, client[w].version)
<1>1. /\ client[w].pc = "create" /\ token' = [token EXCEPT ![t0] = r]
      /\ client' = [client EXCEPT ![w] = NoRequest]
      /\ UNCHANGED <<customer, adminEpoch, clock>>
  BY DEF CreatedBy, CreateToken, Goto, bounds
<1>2. r.session = t0 /\ r.who = client[w].who /\ client[w].who \in Principals
  BY <1>1, ClientTypes DEF Issued
<1> HIDE DEF r
<1>3. token'[t0] = r /\ \A t \in Tokens \ {t0} : token'[t] = token[t]
  BY <1>1 DEF TypeOK
<1>4. \A x \in Clients \ {w} : client'[x] = client[x]
  BY <1>1 DEF TypeOK
<1>5. client'[w].pc = "idle"
  BY <1>1 DEF TypeOK, NoRequest
<1>6. ASSUME NEW t \in Tokens PROVE InFlight(t)' <=> InFlight(t)
  BY <1>1, <1>4, <1>5 DEF InFlight
<1>7. ASSUME NEW t \in Tokens \ {t0} PROVE Continues(t)' <=> Continues(t)
  <2>1. Accepted(t)' <=> Accepted(t)
    BY <1>1, <1>3 DEF Accepted, Live, Exists, Accepts, AdminVersion, Configured, CanLogin, VersionOf
  <2> QED BY <1>1, <1>3, <1>6, <2>1 DEF Continues
<1>8. ~InFlight(t0)
  BY DEF InFlight, SessionInv, Carried, Carries
<1>9. Continues(t0)' => token'[t0].expires > clock
  BY <1>1, <1>6, <1>8 DEF Continues
<1> QED BY <1>1, <1>2, <1>3, <1>7, <1>9

\* A refresh hands the session on: the new token goes on where the old one did.
LEMMA RotationKeeps ==
  ASSUME TypeOK, SessionInv, LifeInv, NEW w \in Clients, NEW t0 \in Tokens, token[t0] = NoToken,
         RotatedBy(w, t0), NEW f, f = client[w].from
  PROVE  /\ f \in Tokens \ {t0}
         /\ \A t \in Tokens \ {t0, f} :
               token'[t] = token[t] /\ (Continues(t)' <=> Continues(t))
         /\ token'[f] # NoToken /\ ~Continues(f)'
         /\ Continues(t0)' <=> Continues(f)
         /\ token'[t0].session = token[f].session
         /\ token'[t0].who = token[f].who
         /\ token'[t0].expires > clock
         /\ UNCHANGED <<customer, adminEpoch, clock>>
<1> DEFINE r == Successor(client[w])
           old == [token[f] EXCEPT !.revoked = clock]
<1>1. /\ client[w].pc = "rotate" /\ Live(f)
      /\ token' = [token EXCEPT ![f].revoked = clock, ![t0] = r]
      /\ client' = [client EXCEPT ![w] = NoRequest]
      /\ UNCHANGED <<customer, adminEpoch, clock>>
  BY DEF RotatedBy, Rotate, Goto, bounds
<1>2. f \in Tokens /\ f # t0 /\ token[f] \in Token
  BY <1>1, ClientTypes DEF Live, Exists, TypeOK
<1>3. token[f].who = client[w].who /\ token[f].version = client[w].version
  BY <1>1 DEF SessionInv, Carried, Carries, Live
<1>4. /\ r.who = token[f].who /\ r.version = token[f].version
      /\ r.session = token[f].session /\ r.expires = clock + Lifetime /\ r.revoked = Never
  BY <1>3 DEF Successor, Issued
<1>5. clock \in Nat /\ Lifetime > 0 /\ Lifetime \in Nat /\ clock # Never
  BY <1>1 DEF LifeInv, Timely, TypeOK, Times, Never
<1>6. r.expires > clock
  BY <1>4, <1>5
<1>7. r \in Token
  <2>1. token[f].version \in Version /\ token[f].session \in Tokens
        /\ token[f].born \in Version /\ token[f].who \in Principals
    BY <1>2 DEF Token
  <2>2. clock \in Times
    BY DEF TypeOK
  <2> QED BY <1>3, <2>1, <2>2, IssuedTypes DEF Successor
<1>8. old.revoked = clock /\ old \in Token
  <2>1. clock \in Times \cup {Never}
    BY DEF TypeOK
  <2> QED BY <1>2, <2>1 DEF Token
<1> HIDE DEF r, old
<1>9. /\ token'[t0] = r
      /\ \A t \in Tokens \ {t0, f} : token'[t] = token[t]
  BY <1>1, <1>2 DEF TypeOK
<1>10. token'[f] = old
  BY <1>1, <1>2 DEF TypeOK, old
<1>11. \A x \in Clients \ {w} : client'[x] = client[x]
  BY <1>1 DEF TypeOK
<1>12. client'[w].pc = "idle"
  BY <1>1 DEF TypeOK, NoRequest
<1>13. ASSUME NEW t \in Tokens, t # f PROVE InFlight(t)' <=> InFlight(t)
  BY <1>1, <1>11, <1>12, <1>13 DEF InFlight
<1>14. ASSUME NEW t \in Tokens \ {t0, f} PROVE Continues(t)' <=> Continues(t)
  <2>1. Accepted(t)' <=> Accepted(t)
    BY <1>1, <1>9 DEF Accepted, Live, Exists, Accepts, AdminVersion, Configured, CanLogin, VersionOf
  <2>2. InFlight(t)' <=> InFlight(t)
    BY <1>13, <1>14
  <2> QED BY <1>1, <1>9, <2>1, <2>2 DEF Continues
<1>15. ~Continues(f)' /\ token'[f] # NoToken
  <2>1. token'[f].revoked # Never /\ token'[f] \in Token
    BY <1>5, <1>8, <1>10
  <2> QED BY <2>1 DEF Continues, Accepted, Live
<1>16. Continues(t0)' <=> Continues(f)
  <2>1. InFlight(f)
    BY <1>1 DEF InFlight
  <2>2. Exists(t0)' /\ Live(t0)'
    BY <1>4, <1>7, <1>9 DEF Exists, Live
  <2>3. Accepted(t0)' <=> Accepted(f)
    BY <1>1, <1>4, <1>9, <2>2 DEF Accepted, Accepts, AdminVersion, Configured, CanLogin, VersionOf
  <2> QED BY <1>1, <1>6, <1>9, <2>1, <2>3 DEF Continues
<1> QED BY <1>1, <1>2, <1>4, <1>6, <1>9, <1>14, <1>15, <1>16

\* What can be continued after a restart is not expired, and of a customer who was
\* accepted, or bound to the configuration there is now.
LEMMA RestartContinues ==
  ASSUME TypeOK, Restart, NEW t \in Tokens
  PROVE  /\ token'[t] = token[t]
         /\ Continues(t)' <=>
               /\ Live(t) /\ token[t].expires > clock
               /\ IF token[t].who = Admin THEN token[t].version = AdminVersion'
                                         ELSE Accepts(token[t].who, token[t].version, clock)
<1>1. UNCHANGED <<token, customer, clock>> /\ \A w \in Clients : client'[w].pc = "idle"
  BY DEF Restart, NoRequest
<1>2. ~InFlight(t)'
  BY <1>1 DEF InFlight
<1>3. Live(t)' <=> Live(t)
  BY <1>1 DEF Live, Exists
<1>4. CASE token[t].who = Admin
  BY <1>1, <1>2, <1>3, <1>4 DEF Continues, Accepted, Accepts
<1>5. CASE token[t].who # Admin
  <2>1. PICK p, v : p = token[t].who /\ v = token[t].version
    OBVIOUS
  <2>2. Accepts(p, v, clock)' <=> Accepts(p, v, clock)
    BY <1>1, <1>5, <2>1 DEF Accepts, CanLogin, VersionOf
  <2>3. Continues(t)' <=> Live(t) /\ token[t].expires > clock /\ Accepts(p, v, clock)'
    BY <1>1, <1>2, <1>3, <2>1
    DEF Continues, Accepted, Accepts, AdminVersion, Configured, CanLogin, VersionOf
  <2> QED BY <1>1, <1>5, <2>1, <2>2, <2>3
<1> QED BY <1>4, <1>5

LEMMA ReconfiguredKeeps ==
  ASSUME TypeOK, Current, LifeInv, [Next]_vars, adminEpoch' # adminEpoch,
         NEW t \in Tokens, Continues(t)'
  PROVE  token'[t] = token[t] /\ (Continues(t) \/ Returns(t))
<1>1. Restart /\ BoundMoves
  BY OnlyRestarts, BoundSteps
<1>2. token'[t] = token[t] /\ Live(t) /\ token[t].expires > clock
  BY <1>1, RestartContinues
<1>3. CASE token[t].who # Admin
  BY <1>1, <1>2, <1>3, RestartContinues DEF Continues, Accepted
<1>4. CASE token[t].who = Admin
  <2>1. token[t].version = AdminVersion'
    BY <1>1, <1>4, RestartContinues
  <2>2. token[t].version.epoch <= epochs /\ token[t].version.epoch \in Nat /\ epochs \in Nat
    BY <1>2, EpochTypes DEF LifeInv, Aged, Live
  <2>3. adminEpoch' # epochs + 1
    BY <2>1, <2>2 DEF AdminVersion, Configured
  <2>4. <<Admin, AdminVersion'>> \in retired
    BY <1>1, <2>3 DEF BoundMoves
  <2> QED BY <1>2, <1>4, <2>1, <2>4 DEF Returns
<1> QED BY <1>2, <1>3, <1>4

LEMMA NoRevivalStep ==
  ASSUME TypeOK, SessionInv, Current, LifeInv, [Next]_vars, NEW t \in Tokens, Continues(t)'
  PROVE  \/ \E u \in Tokens : /\ Continues(u)
                              /\ token[u].session = token'[t].session
                              /\ token[u].who = token'[t].who
         \/ token[t] = NoToken /\ token'[t].session = t
         \/ Returns(t)
<1>1. CASE token[t] # NoToken
  <2>1. CASE adminEpoch' = adminEpoch
    BY <1>1, <2>1, ContinuedBefore, LiveSame DEF Continues, Accepted
  <2>2. CASE adminEpoch' # adminEpoch
    BY <2>2, ReconfiguredKeeps
  <2> QED BY <2>1, <2>2
<1>2. CASE token[t] = NoToken
  <2>1. token'[t] # NoToken
    BY DEF Continues, Accepted, Live, Exists
  <2>2. PICK w \in Clients : CreatedBy(w, t) \/ RotatedBy(w, t)
    BY <1>2, <2>1, NewToken
  <2>3. CASE CreatedBy(w, t)
    BY <1>2, <2>3, CreationKeeps
  <2>4. CASE RotatedBy(w, t)
    <3>1. PICK f : f = client[w].from
      OBVIOUS
    <3> QED BY <1>2, <2>4, <3>1, RotationKeeps
  <2> QED BY <2>2, <2>3, <2>4
<1> QED BY <1>1, <1>2

LEMMA LifeHolds == Spec /\ []Current => []LifeInv
<1>1. Init => LifeInv
  BY LifeInit
<1>2. TypeOK /\ Current /\ LifeInv /\ [Next]_vars => LifeInv'
  BY LifeStep
<1> QED BY <1>1, <1>2, SessionTypes, PTL DEF Spec

\* A session that is over comes back by nothing but the save of a stale row, or,
\* for the administrator, the return of the configuration it is bound to.
THEOREM NoRevivalUnlessStale == Spec /\ []Current => NoRevival
<1> DEFINE Kept ==
      \A t \in Tokens :
          Continues(t)' =>
             \/ \E u \in Tokens : /\ Continues(u)
                                  /\ token[u].session = token'[t].session
                                  /\ token[u].who = token'[t].who
             \/ token[t] = NoToken /\ token'[t].session = t
             \/ Returns(t)
<1>1. TypeOK /\ SessionInv /\ Current /\ LifeInv /\ [Next]_vars => Kept
  BY NoRevivalStep
<1>2. NoRevival <=> [][Kept]_vars
  BY PTL DEF NoRevival
<1> HIDE DEF Kept
<1> QED BY <1>1, <1>2, SessionsHold, LifeHolds, PTL DEF Spec

\* Nothing else comes back when PATCHes and DELETEs of customers do not meet.
THEOREM NoRevivalHolds == ASSUME OneEditor PROVE Spec => NoRevival
BY NoRevivalUnlessStale, OneEditorCurrent, PTL

(***************************************************************************)
(* The life of a session: AuthSessions implements SessionLife.             *)
(***************************************************************************)
LEMMA OpenIs ==
  ASSUME TypeOK
  PROVE  /\ \A q, s : s \in OpenOf(q) <=>
               \E t \in Tokens : Continues(t) /\ token[t].who = q /\ token[t].session = s
         /\ \A s : s \in Lapsed <=>
               \E t \in Tokens : Continues(t) /\ token[t].expires <= clock /\ token[t].session = s
         /\ \A s : s \in Suspended <=> \E t \in Tokens : Standby(t) /\ token[t].session = s
         /\ \A s : s \in Life!Opened <=>
               \E t \in Tokens : Continues(t) /\ token[t].session = s
         /\ \A t \in Tokens : Continues(t) =>
               token[t].session \in Tokens /\ token[t].who \in Principals
<1>1. \A t \in Tokens : Continues(t) => token[t].who \in Principals /\ token[t].session \in Tokens
  BY EpochTypes DEF Continues, Accepted, Live
<1>2. \A s : s \in Life!Opened <=> \E q \in Principals : s \in OpenOf(q)
  BY DEF Life!Opened
<1> QED BY <1>1, <1>2 DEF OpenOf, Lapsed, Suspended

LEMMA OpenIsNext ==
  ASSUME TypeOK'
  PROVE  /\ \A q, s : s \in OpenOf(q)' <=>
               \E t \in Tokens : Continues(t)' /\ token'[t].who = q /\ token'[t].session = s
         /\ \A s : s \in Lapsed' <=>
               \E t \in Tokens : Continues(t)' /\ token'[t].expires <= clock' /\ token'[t].session = s
         /\ \A s : s \in Suspended' <=> \E t \in Tokens : Standby(t)' /\ token'[t].session = s
         /\ \A s : s \in Life!Opened' <=>
               \E t \in Tokens : Continues(t)' /\ token'[t].session = s
         /\ \A t \in Tokens : Continues(t)' =>
               token'[t].session \in Tokens /\ token'[t].who \in Principals
<1>1. \A t \in Tokens : Continues(t)' => token'[t] \in Token
  BY DEF Continues, Accepted, Live, Exists, TypeOK
<1>2. \A r \in Token : r.who \in Principals /\ r.session \in Tokens
  BY DEF Token
<1>3. \A s : s \in Life!Opened' <=> \E q \in Principals : s \in OpenOf(q)'
  BY DEF Life!Opened
<1> QED BY <1>1, <1>2, <1>3 DEF OpenOf, Lapsed, Suspended

\* A step that uses no id of a token opens nothing.
NothingNew == \A t \in Tokens : token[t] = NoToken => token'[t] = NoToken

LEMMA OpenShrinks ==
  ASSUME TypeOK, SessionInv, Current, LifeInv, [Next]_vars, NothingNew, adminEpoch' = adminEpoch
  PROVE  /\ \A t \in Tokens : Continues(t)' => Continues(t) /\ token'[t] = token[t]
         /\ [p \in Principals |-> OpenOf(p)]' \in [Principals -> SUBSET Tokens]
         /\ \A q \in Principals : OpenOf(q)' \subseteq OpenOf(q)
         /\ {t \in Tokens : token[t] = NoToken}' = {t \in Tokens : token[t] = NoToken}
         /\ Suspended' \subseteq Suspended
         /\ Lapsed \cap Life!Opened' \subseteq {token[t].session : t \in
               {u \in Tokens : Continues(u)' /\ token[u].expires <= clock}}
<1>1. TypeOK'
  BY StepInv
<1>2. ASSUME NEW t \in Tokens, Continues(t)' PROVE Continues(t) /\ token'[t] = token[t]
  <2>1. token[t] # NoToken
    BY <1>2 DEF Continues, Accepted, Live, Exists, NothingNew
  <2> QED BY <1>2, <2>1, ContinuedBefore, LiveSame DEF Continues, Accepted
<1>3. \A q \in Principals : OpenOf(q)' \subseteq OpenOf(q)
  BY <1>1, <1>2, OpenIs, OpenIsNext
<1>4. \A q \in Principals : OpenOf(q)' \subseteq Tokens
  BY <1>1, OpenIsNext
<1>5. [p \in Principals |-> OpenOf(p)]' \in [Principals -> SUBSET Tokens]
  BY <1>4
<1>6. \A t \in Tokens : token[t] = NoToken <=> token'[t] = NoToken
  BY TokensFollow, FollowsExists DEF NothingNew
<1>7. ASSUME NEW s \in Lapsed, s \in Life!Opened'
      PROVE  \E t \in Tokens : Continues(t)' /\ token[t].expires <= clock /\ token[t].session = s
  <2>1. PICK t \in Tokens : Continues(t) /\ token[t].expires <= clock /\ token[t].session = s
    BY <1>7, OpenIs
  <2>2. PICK u \in Tokens : Continues(u)' /\ token'[u].session = s
    BY <1>1, <1>7, OpenIsNext
  <2>3. Continues(u) /\ token[u].session = s
    BY <1>2, <2>2
  <2>4. t = u
    BY <2>1, <2>3 DEF SessionInv, OneLivePerSession, Continues, Accepted
  <2> QED BY <2>1, <2>2, <2>4
<1>8. ASSUME NEW t \in Tokens, Standby(t)' PROVE Standby(t) /\ token'[t] = token[t]
  <2>1. token[t] # NoToken /\ Live(t)'
    BY <1>8 DEF Standby, Live, Exists, NothingNew
  <2>2. Live(t) /\ token'[t] = token[t] /\ AdminVersion' = AdminVersion
    BY <2>1, LiveSame DEF AdminVersion
  <2>3. clock' \in Nat /\ clock' >= clock /\ clock \in Nat /\ token[t].expires \in Nat
    BY <2>2, BoundSteps, EpochTypes DEF BoundMoves, Live
  <2> QED BY <1>8, <2>2, <2>3 DEF Standby
<1>9. Suspended' \subseteq Suspended
  BY <1>1, <1>8, OpenIs, OpenIsNext
<1> QED BY <1>2, <1>3, <1>5, <1>6, <1>7, <1>9

\* What a principal's sessions are bound to changes only with all of them over.
LEMMA ChangedClosed ==
  ASSUME TypeOK, SessionInv, Current, LifeInv, [Next]_vars, NothingNew, adminEpoch' = adminEpoch,
         NEW p \in Principals, BoundOf(p)' # BoundOf(p)
  PROVE  OpenOf(p)' = {}
<1> SUFFICES ASSUME NEW t \in Tokens, Continues(t)', token'[t].who = p PROVE FALSE
  BY DEF OpenOf
<1>1. Continues(t) /\ token'[t] = token[t] /\ token[t].who = p
  BY OpenShrinks
<1>2. token[t].version.epoch \in Nat /\ token[t].version.epoch <= epochs /\ epochs \in Nat
  BY <1>1, EpochTypes DEF LifeInv, Aged, Continues, Accepted, Live
<1>3. \/ p = Admin /\ token[t].version.epoch = adminEpoch'
      \/ /\ p \in Customers /\ customer'[p] # NoRow
         /\ token[t].version.epoch = customer'[p].epoch
  BY <1>1 DEF Continues, Accepted, Accepts, AdminVersion, Configured, VersionOf
<1>4. BoundMoves
  BY BoundSteps
<1>5. CASE p = Admin
  BY <1>5 DEF BoundOf
<1>6. CASE /\ p \in Customers /\ customer'[p] # NoRow
           /\ token[t].version.epoch = customer'[p].epoch
  <2>1. customer'[p] # customer[p]
    BY <1>6 DEF BoundOf
  <2>2. customer'[p].epoch = epochs + 1
    BY <1>4, <1>6, <2>1 DEF BoundMoves
  <2> QED BY <1>2, <1>6, <2>2
<1> QED BY <1>3, <1>5, <1>6

\* A step that touches the tokens and the row of one principal, and otherwise
\* tokens that nobody can use.
Fit(t) == Live(t) /\ token[t].expires > clock

LEMMA EndOrChange ==
  ASSUME TypeOK, SessionInv, Current, LifeInv, [Next]_vars, NothingNew, clock' = clock,
         adminEpoch' = adminEpoch,
         NEW p \in Principals,
         \A q \in Principals \ {p} : BoundOf(q)' = BoundOf(q),
         \A t \in Tokens : Fit(t) /\ token[t].who # p => token'[t] = token[t]
  PROVE  Life!End(p) \/ Life!Change(p)
<1>1. TypeOK'
  BY StepInv
<1>2. ASSUME NEW q \in Principals, q # p PROVE OpenOf(q) \ OpenOf(q)' \subseteq Lapsed
  <2> SUFFICES ASSUME NEW s \in OpenOf(q), s \notin OpenOf(q)' PROVE s \in Lapsed
    OBVIOUS
  <2>1. PICK t \in Tokens : Continues(t) /\ token[t].who = q /\ token[t].session = s
    BY OpenIs
  <2>2. CASE token[t].expires <= clock
    BY <2>1, <2>2, OpenIs
  <2>3. CASE token[t].expires > clock
    <3>1. Usable(t) /\ Fit(t)
      BY <2>1, <2>3 DEF Continues, Accepted, Usable, Fit
    <3>2. token'[t] = token[t]
      BY <1>2, <2>1, <3>1
    <3>3. \/ token[t].who = Admin /\ adminEpoch' = adminEpoch
          \/ token[t].who \in Customers /\ customer'[token[t].who] = customer[token[t].who]
      BY <1>2, <2>1 DEF BoundOf, Principals
    <3>4. Usable(t)'
      BY <3>1, <3>2, <3>3, StaysUsable
    <3>5. Continues(t)'
      BY <3>4 DEF Continues, Accepted, Usable
    <3> QED BY <1>1, <2>1, <3>2, <3>5, OpenIsNext
  <2>4. token[t].expires \in Nat /\ clock \in Nat
    BY <2>1, EpochTypes DEF Continues, Accepted, Live
  <2> QED BY <2>2, <2>3, <2>4
<1>3. Lapsed' = Lapsed \cap Life!Opened'
  <2>1. ASSUME NEW s \in Lapsed' PROVE s \in Lapsed /\ s \in Life!Opened'
    <3>1. PICK t \in Tokens : Continues(t)' /\ token'[t].expires <= clock' /\ token'[t].session = s
      BY <1>1, <2>1, OpenIsNext
    <3>2. Continues(t) /\ token'[t] = token[t]
      BY <3>1, OpenShrinks
    <3> QED BY <1>1, <3>1, <3>2, OpenIs, OpenIsNext
  <2>2. ASSUME NEW s \in Lapsed, s \in Life!Opened' PROVE s \in Lapsed'
    <3>1. PICK t \in Tokens : Continues(t)' /\ token[t].expires <= clock /\ token[t].session = s
      BY <2>2, OpenShrinks
    <3>2. token'[t] = token[t]
      BY <3>1, OpenShrinks
    <3> QED BY <1>1, <3>1, <3>2, OpenIsNext
  <2> QED BY <2>1, <2>2
<1>4. Life!OthersStay(p) /\ OpenOf(p)' \subseteq OpenOf(p) /\ Suspended' \subseteq Suspended
  BY <1>2, <1>3, OpenShrinks DEF Life!OthersStay
<1>5. p # Admin => Suspended' = Suspended
  <2> SUFFICES ASSUME p # Admin, NEW s \in Suspended PROVE s \in Suspended'
    BY <1>4
  <2>1. PICK t \in Tokens : Standby(t) /\ token[t].session = s
    BY OpenIs
  <2>2. token'[t] = token[t]
    BY <2>1 DEF Standby, Fit
  <2>3. Standby(t)'
    BY <2>1, <2>2 DEF Standby, Live, Exists, AdminVersion
  <2> QED BY <1>1, <2>1, <2>2, <2>3, OpenIsNext
<1>6. CASE BoundOf(p)' = BoundOf(p)
  <2>1. \A q \in Principals : BoundOf(q)' = BoundOf(q)
    BY <1>6
  <2>2. [q \in Principals |-> BoundOf(q)]' = [q \in Principals |-> BoundOf(q)]
    BY <2>1
  <2> QED BY <1>4, <1>5, <2>2 DEF Life!End
<1>7. CASE BoundOf(p)' # BoundOf(p)
  <2>1. OpenOf(p)' = {} /\ p # Admin
    BY <1>7, ChangedClosed DEF BoundOf
  <2> QED BY <1>4, <1>5, <2>1 DEF Life!Change
<1> QED BY <1>6, <1>7

LEMMA MappedInit == Init => Life!Init
<1> SUFFICES ASSUME Init PROVE Life!Init
  OBVIOUS
<1>1. \A t \in Tokens : token[t] = NoToken /\ ~Continues(t) /\ ~Standby(t)
  BY DEF Init, Continues, Accepted, Standby, Live, Exists
<1>2. \A p \in Principals : OpenOf(p) = {}
  BY <1>1 DEF OpenOf
<1>3. Lapsed = {} /\ Suspended = {}
  BY <1>1 DEF Lapsed, Suspended
<1>4. [p \in Principals |-> OpenOf(p)] = [p \in Principals |-> {}]
  BY <1>2
<1> QED BY <1>1, <1>3, <1>4 DEF Life!Init

\* The cleanup takes away nothing that can be used.
LEMMA CleanupSpares ==
  ASSUME TypeOK, Cleanup, NEW t \in Tokens, Fit(t) PROVE token'[t] = token[t]
<1>1. PICK at \in 0 .. clock :
        token' = [u \in Tokens |-> IF Outdated(u, at) THEN GoneToken ELSE token[u]]
  BY DEF Cleanup
<1>2. token[t] \in Token /\ token[t].revoked = Never /\ token[t].expires > clock
  BY DEF Fit, Live, Exists, TypeOK
<1>3. clock \in Nat /\ at \in Nat /\ at <= clock /\ Never \in Nat /\ clock < Never
  BY DEF TypeOK, Times, Never
<1>4. token[t].expires \in Nat /\ Retention \in Nat
  BY <1>2, <1>3 DEF Token
<1>5. ~(token[t].expires < at - Retention) /\ ~(token[t].revoked < at - Retention)
  BY <1>2, <1>3, <1>4
<1> QED BY <1>1, <1>5 DEF Outdated

\* What a revocation is about to change belongs to its customer.
LEMMA RevokeSpares ==
  ASSUME TypeOK, FoundOwn, NEW e \in Editors, RevokeApply(e), NEW t \in Tokens, Fit(t),
         token[t].who # editor[e].who
  PROVE  token'[t] = token[t]
<1>1. editor[e].pc = "revoking"
  BY DEF RevokeApply
<1>2. t \notin editor[e].found
  BY <1>1 DEF FoundOwn, FoundOf, Fit, Live
<1> QED BY <1>2 DEF RevokeApply

\* Time passes.
LEMMA MappedTick ==
  ASSUME TypeOK, SessionInv, Current, LifeInv, Tick, [Next]_vars PROVE Life!Pass
<1>1. TypeOK' /\ clock' = clock + 1 /\ clock \in Nat
  BY StepInv, EpochTypes DEF Tick
<1>2. UNCHANGED <<token, adminEpoch, customer>>
  BY DEF Tick, tables
<1>3. NothingNew
  BY <1>2 DEF NothingNew
<1>4. ASSUME NEW s \in Lapsed, s \in Life!Opened' PROVE s \in Lapsed'
  <2>1. PICK t \in Tokens : Continues(t)' /\ token[t].expires <= clock /\ token[t].session = s
    BY <1>2, <1>3, <1>4, OpenShrinks
  <2>2. token[t].expires <= clock' /\ token'[t] = token[t]
    <3>1. Continues(t)
      BY <1>2, <1>3, <2>1, OpenShrinks
    <3>2. token[t].expires \in Nat
      BY <3>1, EpochTypes DEF Continues, Accepted, Live
    <3> QED BY <1>1, <1>2, <2>1, <3>2
  <2> QED BY <1>1, <2>1, <2>2, OpenIsNext
<1>5. Lapsed' \subseteq Life!Opened'
  BY <1>1, OpenIsNext
<1>6. [p \in Principals |-> BoundOf(p)]' = [p \in Principals |-> BoundOf(p)]
  BY <1>2 DEF BoundOf
<1> QED BY <1>2, <1>3, <1>4, <1>5, <1>6, OpenShrinks DEF Life!Pass

\* A request that issues no token leaves the tokens alone.
LEMMA NoneIssued ==
  ASSUME TypeOK, SessionInv, NothingNew, NEW w \in Clients, CreateToken(w) \/ Rotate(w)
  PROVE  UNCHANGED token
<1>1. ASSUME NEW t \in Tokens, NEW r \in Token, token[t] = NoToken, token'[t] = r PROVE FALSE
  BY <1>1 DEF NothingNew
<1>2. clock \in Times
  BY DEF TypeOK
<1>3. CASE CreateToken(w)
  <2> DEFINE new(t) == Issued(client[w].who, client[w].version, t, client[w].version)
  <2>1. \A t \in Tokens : new(t) \in Token
    BY <1>2, <1>3, ClientTypes, IssuedTypes DEF CreateToken
  <2>2. \/ UNCHANGED token
        \/ \E t \in Tokens : token[t] = NoToken /\ token' = [token EXCEPT ![t] = new(t)]
    BY <1>3 DEF CreateToken
  <2> HIDE DEF new
  <2>3. ASSUME NEW t \in Tokens, token[t] = NoToken, token' = [token EXCEPT ![t] = new(t)] PROVE FALSE
    <3>1. token'[t] = new(t)
      BY <2>3 DEF TypeOK
    <3> QED BY <1>1, <2>1, <2>3, <3>1
  <2> QED BY <2>2, <2>3
<1>4. CASE Rotate(w)
  <2> DEFINE f == client[w].from
             new == Successor(client[w])
  <2>1. client[w].pc = "rotate" /\ f \in Tokens
    BY <1>4, ClientTypes DEF Rotate
  <2>2. \/ UNCHANGED token
        \/ /\ Live(f)
           /\ \E t \in Tokens :
                 token[t] = NoToken /\ token' = [token EXCEPT ![f].revoked = clock, ![t] = new]
    BY <1>4 DEF Rotate
  <2>3. Live(f) => new \in Token
    <3>1. Live(f) => token[f] \in Token
      BY <2>1 DEF Live, Exists, TypeOK
    <3>2. \A r \in Token : r.session \in Tokens /\ r.born \in Version
      BY DEF Token
    <3> QED BY <1>2, <2>1, <3>1, <3>2, ClientTypes, IssuedTypes DEF Successor
  <2> HIDE DEF new, f
  <2>4. ASSUME Live(f), NEW t \in Tokens, token[t] = NoToken,
               token' = [token EXCEPT ![f].revoked = clock, ![t] = new]
        PROVE  FALSE
    <3>1. token'[t] = new
      BY <2>4 DEF TypeOK
    <3> QED BY <1>1, <2>3, <2>4, <3>1
  <2> QED BY <2>2, <2>4
<1> QED BY <1>3, <1>4

\* Every other step that creates no token ends sessions of one principal, or none.
LEMMA MappedEnd ==
  ASSUME TypeOK, SessionInv, Current, LifeInv, Next, NothingNew, ~Tick, adminEpoch' = adminEpoch
  PROVE  \E p \in Principals : Life!End(p) \/ Life!Change(p)
<1> USE DEF tables, bounds
<1>1. [Next]_vars /\ FoundOwn /\ Admin \in Principals
  BY DEF LifeInv, Principals
<1>2. CASE UNCHANGED <<customer, adminEpoch, clock>>
           /\ \A t \in Tokens : Fit(t) => token'[t] = token[t]
  <2>1. \A q \in Principals \ {Admin} : BoundOf(q)' = BoundOf(q)
    BY <1>2 DEF BoundOf
  <2>2. Life!End(Admin) \/ Life!Change(Admin)
    BY <1>1, <1>2, <2>1, EndOrChange
  <2> QED BY <1>1, <2>2
<1>3. ASSUME NEW u \in Tokens, Logout(u) PROVE \E p \in Principals : Life!End(p) \/ Life!Change(p)
  <2>1. /\ UNCHANGED <<customer, adminEpoch, clock>>
        /\ \A t \in Tokens \ {u} : token'[t] = token[t]
    BY <1>3 DEF Logout, TypeOK
  <2>2. token[u].who \in Principals
    BY <1>3, EpochTypes DEF Logout, Live
  <2>3. \A q \in Principals : BoundOf(q)' = BoundOf(q)
    BY <2>1 DEF BoundOf
  <2>4. Life!End(token[u].who) \/ Life!Change(token[u].who)
    <3>1. \A t \in Tokens : Fit(t) /\ token[t].who # token[u].who => token'[t] = token[t]
      BY <2>1
    <3>2. clock' = clock
      BY <2>1
    <3> QED BY <1>1, <2>2, <2>3, <3>1, <3>2, EndOrChange
  <2> QED BY <2>2, <2>4
<1>4. ASSUME NEW e \in Editors, NEW c \in Customers, DeleteCustomer(e, c)
      PROVE  \E p \in Principals : Life!End(p) \/ Life!Change(p)
  <2>1. /\ adminEpoch' = adminEpoch /\ clock' = clock
        /\ \A b \in Customers \ {c} : customer'[b] = customer[b]
    BY <1>4 DEF DeleteCustomer, TypeOK
  <2>2. \A t \in Tokens : Fit(t) /\ token[t].who # c => token'[t] = token[t]
    BY <1>4 DEF DeleteCustomer
  <2>3. \A q \in Principals \ {c} : BoundOf(q)' = BoundOf(q)
    BY <2>1 DEF BoundOf, Principals
  <2>4. c \in Principals
    BY DEF Principals
  <2>5. Life!End(c) \/ Life!Change(c)
    BY <1>1, <2>1, <2>2, <2>3, <2>4, EndOrChange
  <2> QED BY <2>4, <2>5
<1>5. ASSUME NEW e \in Editors, PatchSave(e)
      PROVE  \E p \in Principals : Life!End(p) \/ Life!Change(p)
  <2>1. PICK c \in Customers : c = editor[e].who
    BY <1>5, EditorTypes DEF PatchSave
  <2>2. /\ adminEpoch' = adminEpoch /\ clock' = clock /\ token' = token
        /\ \A b \in Customers \ {c} : customer'[b] = customer[b]
    BY <1>5, <2>1 DEF PatchSave, TypeOK
  <2>3. \A q \in Principals \ {c} : BoundOf(q)' = BoundOf(q)
    BY <2>2 DEF BoundOf, Principals
  <2>4. c \in Principals /\ \A t \in Tokens : token'[t] = token[t]
    BY <2>2 DEF Principals
  <2>5. Life!End(c) \/ Life!Change(c)
    BY <1>1, <2>2, <2>3, <2>4, EndOrChange
  <2> QED BY <2>4, <2>5
<1>6. ASSUME NEW e \in Editors, RevokeApply(e)
      PROVE  \E p \in Principals : Life!End(p) \/ Life!Change(p)
  <2>1. PICK c \in Customers : c = editor[e].who
    BY <1>6, EditorTypes DEF RevokeApply
  <2>2. UNCHANGED <<customer, adminEpoch, clock>>
    BY <1>6 DEF RevokeApply
  <2>3. \A t \in Tokens : Fit(t) /\ token[t].who # c => token'[t] = token[t]
    BY <1>1, <1>6, <2>1, RevokeSpares
  <2>4. \A q \in Principals : BoundOf(q)' = BoundOf(q)
    BY <2>2 DEF BoundOf
  <2>5. c \in Principals
    BY DEF Principals
  <2>6. Life!End(c) \/ Life!Change(c)
    <3>1. clock' = clock
      BY <2>2
    <3> QED BY <1>1, <2>3, <2>4, <2>5, <3>1, EndOrChange
  <2> QED BY <2>5, <2>6
<1>7. CASE Restart
  <2>1. clock' = clock /\ customer' = customer /\ token' = token
    BY <1>7 DEF Restart
  <2>2. \A q \in Principals \ {Admin} : BoundOf(q)' = BoundOf(q)
    BY <2>1 DEF BoundOf
  <2>3. Life!End(Admin) \/ Life!Change(Admin)
    <3>1. \A t \in Tokens : token'[t] = token[t]
      BY <2>1
    <3> QED BY <1>1, <2>1, <2>2, <3>1, EndOrChange
  <2> QED BY <1>1, <2>3
<1>8. CASE Cleanup
  <2>1. UNCHANGED <<customer, adminEpoch, clock>>
    BY <1>8 DEF Cleanup
  <2>2. \A t \in Tokens : Fit(t) => token'[t] = token[t]
    BY <1>8, CleanupSpares
  <2> QED BY <1>2, <2>1, <2>2
<1>9. ASSUME NEW w \in Clients, CreateToken(w) \/ Rotate(w) PROVE UNCHANGED token
  BY <1>9, NoneIssued
<1> QED
  BY <1>2, <1>3, <1>4, <1>5, <1>6, <1>7, <1>8, <1>9
  DEF Next, Login, AdminLogin, Refresh, CheckPrincipal, CreateToken, Rotate, PatchRead, PatchReread,
      RevokeFind, RequestFails

\* A restart with another configuration.
LEMMA MappedReconfigure ==
  ASSUME TypeOK, SessionInv, Current, LifeInv, [Next]_vars, adminEpoch' # adminEpoch
  PROVE  Life!Reconfigure
<1>1. Restart /\ TypeOK'
  BY OnlyRestarts, StepInv
<1>2. UNCHANGED <<token, customer, clock>> /\ AdminVersion' # AdminVersion /\ Admin \in Principals
  BY <1>1 DEF Restart, AdminVersion, Configured, Principals
<1>3. /\ \A t \in Tokens : Continues(t)' => (Fit(t) /\ token'[t] = token[t])
      /\ \A t \in Tokens : (Continues(t)' /\ token[t].who # Admin) => Continues(t)
      /\ \A t \in Tokens : token[t].who = Admin =>
            (Continues(t)' <=> (Fit(t) /\ token[t].version = AdminVersion'))
  BY <1>1, RestartContinues DEF Fit, Continues, Accepted
<1>4. \A t \in Tokens : Continues(t) /\ token[t].who # Admin /\ Fit(t) => Continues(t)'
  BY <1>1, RestartContinues DEF Fit, Continues, Accepted
<1>5. /\ \A t \in Tokens : (token[t].who = Admin /\ Continues(t)) => token[t].version = AdminVersion
      /\ \A t \in Tokens :
            (token[t].who = Admin /\ Fit(t) /\ token[t].version = AdminVersion) => Continues(t)
  BY DEF Continues, Accepted, Accepts, Fit, Live
<1>6. \A t \in Tokens : Standby(t)' <=>
         Fit(t) /\ token[t].who = Admin /\ token[t].version # AdminVersion'
  BY <1>2 DEF Standby, Fit, Live, Exists
<1>7. \A t \in Tokens : Standby(t) <=>
         Fit(t) /\ token[t].who = Admin /\ token[t].version # AdminVersion
  BY DEF Standby, Fit
<1>8. \A t, u \in Tokens : Live(t) /\ Live(u) /\ token[t].session = token[u].session => t = u
  BY DEF SessionInv, OneLivePerSession
<1>9. /\ \A t \in Tokens : Continues(t) => (Live(t) /\ token[t].expires \in Nat)
      /\ \A t \in Tokens :
            Fit(t) => (Live(t) /\ token[t].expires \in Nat /\ token[t].expires > clock)
      /\ \A t \in Tokens : (Continues(t) /\ ~(token[t].expires <= clock)) => Fit(t)
  BY EpochTypes DEF Continues, Accepted, Fit, Live
<1>10. clock \in Nat
  BY EpochTypes
<1>11. Lapsed' = Lapsed \cap Life!Opened'
  <2>1. ASSUME NEW s \in Lapsed' PROVE FALSE
    <3>1. PICK t \in Tokens : Continues(t)' /\ token'[t].expires <= clock'
      BY <1>1, OpenIsNext
    <3> QED BY <1>2, <1>3, <1>9, <1>10, <3>1
  <2>2. ASSUME NEW s \in Lapsed, s \in Life!Opened' PROVE FALSE
    <3>1. PICK t \in Tokens : Continues(t) /\ token[t].expires <= clock /\ token[t].session = s
      BY OpenIs
    <3>2. PICK u \in Tokens : Continues(u)' /\ token'[u].session = s
      BY <1>1, <2>2, OpenIsNext
    <3>3. t = u
      BY <1>3, <1>8, <1>9, <3>1, <3>2
    <3> QED BY <1>3, <1>9, <1>10, <3>1, <3>2, <3>3
  <2> QED BY <2>1, <2>2
<1>12. ASSUME NEW q \in Principals \ {Admin}
       PROVE  OpenOf(q)' \subseteq OpenOf(q) /\ OpenOf(q) \ OpenOf(q)' \subseteq Lapsed
  <2>1. OpenOf(q)' \subseteq OpenOf(q)
    BY <1>1, <1>3, OpenIs, OpenIsNext
  <2>2. ASSUME NEW s \in OpenOf(q), s \notin OpenOf(q)' PROVE s \in Lapsed
    <3>1. PICK t \in Tokens : Continues(t) /\ token[t].who = q /\ token[t].session = s
      BY OpenIs
    <3>2. ~Fit(t)
      BY <1>1, <1>2, <1>4, <2>2, <3>1, OpenIsNext
    <3> QED BY <1>9, <3>1, <3>2, OpenIs
  <2> QED BY <2>1, <2>2
<1>13. OpenOf(Admin)' \subseteq Suspended
  <2> SUFFICES ASSUME NEW s \in OpenOf(Admin)' PROVE s \in Suspended
    OBVIOUS
  <2>1. PICK t \in Tokens : Continues(t)' /\ token'[t].who = Admin /\ token'[t].session = s
    BY <1>1, OpenIsNext
  <2>2. Standby(t) /\ token[t].session = s
    BY <1>2, <1>3, <1>7, <2>1
  <2> QED BY <2>2, OpenIs
<1>14. Suspended' = (Suspended \cup (OpenOf(Admin) \ Lapsed)) \ OpenOf(Admin)'
  <2>1. ASSUME NEW s \in Suspended'
        PROVE  s \in Suspended \cup (OpenOf(Admin) \ Lapsed) /\ s \notin OpenOf(Admin)'
    <3>1. PICK t \in Tokens : Standby(t)' /\ token'[t].session = s
      BY <1>1, OpenIsNext
    <3>2. Fit(t) /\ token[t].who = Admin /\ token[t].version # AdminVersion' /\ token[t].session = s
      BY <1>2, <1>6, <3>1
    <3>3. s \notin OpenOf(Admin)'
      <4>1. ASSUME NEW u \in Tokens, Continues(u)', token'[u].session = s PROVE t = u
        BY <1>3, <1>8, <1>9, <3>2, <4>1
      <4>2. ~Continues(t)'
        BY <1>3, <3>2
      <4> QED BY <1>1, <4>1, <4>2, OpenIsNext
    <3>4. CASE token[t].version # AdminVersion
      BY <1>7, <3>2, <3>3, <3>4, OpenIs
    <3>5. CASE token[t].version = AdminVersion
      <4>1. s \in OpenOf(Admin)
        BY <1>5, <3>2, <3>5, OpenIs
      <4>2. ASSUME NEW u \in Tokens, Continues(u), token[u].session = s PROVE t = u
        BY <1>8, <1>9, <3>2, <4>2
      <4>3. s \notin Lapsed
        BY <1>9, <1>10, <3>2, <4>2, OpenIs
      <4> QED BY <3>3, <4>1, <4>3
    <3> QED BY <3>4, <3>5
  <2>2. ASSUME NEW s \in Suspended, s \notin OpenOf(Admin)' PROVE s \in Suspended'
    <3>1. PICK t \in Tokens : Standby(t) /\ token[t].session = s
      BY OpenIs
    <3>2. ~Continues(t)'
      BY <1>1, <1>2, <1>7, <2>2, <3>1, OpenIsNext
    <3>3. Standby(t)'
      BY <1>3, <1>6, <1>7, <3>1, <3>2
    <3> QED BY <1>1, <1>2, <3>1, <3>3, OpenIsNext
  <2>3. ASSUME NEW s \in OpenOf(Admin), s \notin Lapsed PROVE s \in Suspended'
    <3>1. PICK t \in Tokens : Continues(t) /\ token[t].who = Admin /\ token[t].session = s
      BY OpenIs
    <3>2. Fit(t) /\ token[t].version # AdminVersion'
      BY <1>2, <1>5, <1>9, <2>3, <3>1, OpenIs
    <3>3. Standby(t)'
      BY <1>6, <3>1, <3>2
    <3> QED BY <1>1, <1>2, <3>1, <3>3, OpenIsNext
  <2> QED BY <2>1, <2>2, <2>3
<1>15. \A q \in Principals \ {Admin} : BoundOf(q)' = BoundOf(q)
  BY <1>2 DEF BoundOf
<1>16. \A q \in Principals : OpenOf(q)' \subseteq Tokens
  BY <1>1, OpenIsNext
<1>17. [p \in Principals |-> OpenOf(p)]' \in [Principals -> SUBSET Tokens]
  BY <1>16
<1>18. {t \in Tokens : token[t] = NoToken}' = {t \in Tokens : token[t] = NoToken}
  BY <1>2
<1>19. Life!OthersStay(Admin)
  BY <1>2, <1>11, <1>12, <1>17, <1>18 DEF Life!OthersStay
<1> QED BY <1>2, <1>13, <1>14, <1>15, <1>19 DEF Life!Reconfigure

\* An id is used, and nothing of what sessions are bound to changes.
LEMMA IdUsed ==
  ASSUME NEW t0 \in Tokens, token[t0] = NoToken, token'[t0] # NoToken,
         \A t \in Tokens \ {t0} : token'[t] = NoToken <=> token[t] = NoToken,
         UNCHANGED <<customer, adminEpoch>>
  PROVE  /\ t0 \in {t \in Tokens : token[t] = NoToken}
         /\ {t \in Tokens : token[t] = NoToken}' = {t \in Tokens : token[t] = NoToken} \ {t0}
         /\ UNCHANGED [p \in Principals |-> BoundOf(p)]
<1>1. \A p \in Principals : BoundOf(p)' = BoundOf(p)
  BY DEF BoundOf
<1>2. [p \in Principals |-> BoundOf(p)]' = [p \in Principals |-> BoundOf(p)]
  BY <1>1
<1> QED BY <1>2

\* A login begins a session.
LEMMA MappedCreation ==
  ASSUME TypeOK, SessionInv, LifeInv, [Next]_vars, NEW w \in Clients, NEW t0 \in Tokens,
         token[t0] = NoToken, token'[t0] # NoToken, CreatedBy(w, t0)
  PROVE  Life!Begin(t0)
<1>1. TypeOK'
  BY StepInv
<1>2. PICK p \in Principals : p = client[w].who
  BY CreationKeeps
<1>3. /\ \A t \in Tokens \ {t0} : token'[t] = token[t] /\ (Continues(t)' <=> Continues(t))
      /\ token'[t0].session = t0 /\ token'[t0].who = p
      /\ Continues(t0)' => token'[t0].expires > clock
      /\ UNCHANGED <<customer, adminEpoch, clock>>
  BY <1>2, CreationKeeps
<1>4. ~Continues(t0)
  BY DEF Continues, Accepted, Live, Exists
<1>5. Lapsed' = Lapsed
  <2>1. Continues(t0)' => ~(token'[t0].expires <= clock')
    <3>1. Continues(t0)' => token'[t0] \in Token
      BY <1>1 DEF Continues, Accepted, Live, Exists, TypeOK
    <3>2. clock \in Nat /\ Never \in Nat
      BY EpochTypes DEF Never
    <3>3. \A r \in Token : r.expires \in Nat
      BY <3>2 DEF Token
    <3> QED BY <1>3, <3>1, <3>2, <3>3
  <2>2. \A s : s \in Lapsed' <=> s \in Lapsed
    BY <1>1, <1>3, <1>4, <2>1, OpenIs, OpenIsNext
  <2> QED BY <2>2 DEF Lapsed
<1>11. Suspended' = Suspended
  <2>1. ~Standby(t0)' /\ ~Standby(t0)
    <3>1. client[w].pc = "create" /\ AdminVersion' = AdminVersion
      BY <1>3 DEF CreatedBy, AdminVersion
    <3>2. token'[t0].version = client[w].version
      BY DEF CreatedBy, Issued, TypeOK
    <3>3. p = Admin => client[w].version = AdminVersion
      BY <1>2, <3>1 DEF LifeInv, AdminCurrent
    <3> QED BY <1>3, <3>1, <3>2, <3>3 DEF Standby, Live, Exists
  <2>2. \A t \in Tokens \ {t0} : Standby(t)' <=> Standby(t)
    BY <1>3 DEF Standby, Live, Exists, AdminVersion
  <2>3. \A s : s \in Suspended' <=> s \in Suspended
    BY <1>1, <1>3, <2>1, <2>2, OpenIs, OpenIsNext
  <2> QED BY <2>3 DEF Suspended
<1>6. \A q \in Principals : q # p => OpenOf(q)' = OpenOf(q)
  <2>1. ASSUME NEW q \in Principals, q # p PROVE \A s : s \in OpenOf(q)' <=> s \in OpenOf(q)
    BY <1>1, <1>3, <1>4, <2>1, OpenIs, OpenIsNext
  <2> QED BY <2>1 DEF OpenOf
<1>7. ~Continues(t0)' => OpenOf(p)' = OpenOf(p)
  <2>1. ASSUME ~Continues(t0)' PROVE \A s : s \in OpenOf(p)' <=> s \in OpenOf(p)
    BY <1>1, <1>3, <1>4, <2>1, OpenIs, OpenIsNext
  <2> QED BY <2>1 DEF OpenOf
<1>8. Continues(t0)' => OpenOf(p)' = OpenOf(p) \cup {t0}
  <2>1. ASSUME Continues(t0)' PROVE \A s : s \in OpenOf(p)' <=> s \in OpenOf(p) \/ s = t0
    BY <1>1, <1>3, <1>4, <2>1, OpenIs, OpenIsNext
  <2> QED BY <2>1 DEF OpenOf
<1> DEFINE o == [q \in Principals |-> OpenOf(q)]
<1>9. CASE ~Continues(t0)'
  <2>1. \A q \in Principals : OpenOf(q)' = OpenOf(q)
    BY <1>6, <1>7, <1>9
  <2>2. o' = o
    BY <2>1
  <2> QED BY <1>3, <1>5, <1>11, <2>2, IdUsed DEF Life!Begin
<1>10. CASE Continues(t0)'
  <2>1. \A q \in Principals : OpenOf(q)' = IF q = p THEN OpenOf(q) \cup {t0} ELSE OpenOf(q)
    BY <1>6, <1>8, <1>10
  <2>2. o' = [o EXCEPT ![p] = @ \cup {t0}]
    BY <2>1
  <2> QED BY <1>3, <1>5, <1>11, <2>2, IdUsed DEF Life!Begin
<1> QED BY <1>9, <1>10

\* A refresh renews the session of its token, if that is still open.
LEMMA MappedRotation ==
  ASSUME TypeOK, SessionInv, LifeInv, [Next]_vars, NEW w \in Clients, NEW t0 \in Tokens,
         token[t0] = NoToken, token'[t0] # NoToken, RotatedBy(w, t0)
  PROVE  Life!Begin(t0) \/ \E s \in Tokens : Life!Renew(s, t0)
<1>1. TypeOK'
  BY StepInv
<1>2. PICK f \in Tokens \ {t0} : f = client[w].from
  <2>1. client[w].pc = "rotate" /\ Live(client[w].from)
    BY DEF RotatedBy
  <2> QED BY <2>1, ClientTypes DEF Live, Exists
<1>3. /\ \A t \in Tokens \ {t0, f} : token'[t] = token[t] /\ (Continues(t)' <=> Continues(t))
      /\ token'[f] # NoToken /\ ~Continues(f)'
      /\ Continues(t0)' <=> Continues(f)
      /\ token'[t0].session = token[f].session /\ token'[t0].who = token[f].who
      /\ token'[t0].expires > clock
      /\ UNCHANGED <<customer, adminEpoch, clock>>
  BY <1>2, RotationKeeps
<1>4. ~Continues(t0) /\ token[f] # NoToken
  BY <1>2 DEF Continues, Accepted, Live, Exists, RotatedBy
<1>5. Continues(t0)' => ~(token'[t0].expires <= clock')
  <2>1. Continues(t0)' => token'[t0] \in Token
    BY <1>1 DEF Continues, Accepted, Live, Exists, TypeOK
  <2>2. clock \in Nat /\ Never \in Nat
    BY EpochTypes DEF Never
  <2>3. \A r \in Token : r.expires \in Nat
    BY <2>2 DEF Token
  <2> QED BY <1>3, <2>1, <2>2, <2>3
<1>6. ASSUME NEW q \in Principals PROVE OpenOf(q)' = OpenOf(q)
  <2>1. \A s : s \in OpenOf(q)' <=> s \in OpenOf(q)
    BY <1>1, <1>3, <1>4, OpenIs, OpenIsNext
  <2> QED BY <2>1 DEF OpenOf
<1>7. [q \in Principals |-> OpenOf(q)]' = [q \in Principals |-> OpenOf(q)]
  BY <1>6
<1>8. \A t \in Tokens \ {t0} : token'[t] = NoToken <=> token[t] = NoToken
  BY <1>3, <1>4
<1>11. Suspended' = Suspended
  <2>1. /\ client[w].pc = "rotate" /\ AdminVersion' = AdminVersion
        /\ token[f].who = client[w].who /\ token[f].version = client[w].version
    BY <1>2, <1>3 DEF RotatedBy, AdminVersion, SessionInv, Carried, Carries, Live
  <2>2. token[f].who = Admin => token[f].version = AdminVersion
    BY <2>1 DEF LifeInv, AdminCurrent
  <2>3. ~Standby(f) /\ ~Standby(t0)
    BY <2>2 DEF Standby, Live, Exists
  <2>4. token'[t0].version = token[f].version
    BY <2>1 DEF RotatedBy, Successor, Issued, TypeOK
  <2>5. ~Standby(t0)'
    BY <1>3, <2>1, <2>2, <2>4 DEF Standby
  <2>6. ~Standby(f)'
    <3>1. token'[f] = [token[f] EXCEPT !.revoked = clock] /\ token[f] \in Token
      BY <1>2 DEF RotatedBy, TypeOK, Live, Exists
    <3>2. token'[f].revoked = clock /\ clock # Never
      BY <3>1 DEF Token, TypeOK, Times, Never
    <3> QED BY <3>2 DEF Standby, Live
  <2>7. \A t \in Tokens \ {t0, f} : Standby(t)' <=> Standby(t)
    BY <1>3, <2>1 DEF Standby, Live, Exists
  <2>8. \A s : s \in Suspended' <=> s \in Suspended
    BY <1>1, <1>3, <2>3, <2>5, <2>6, <2>7, OpenIs, OpenIsNext
  <2> QED BY <2>8 DEF Suspended
<1>9. CASE ~Continues(f)
  <2>1. \A s : s \in Lapsed' <=> s \in Lapsed
    BY <1>1, <1>3, <1>4, <1>9, OpenIs, OpenIsNext
  <2>2. Lapsed' = Lapsed
    BY <2>1 DEF Lapsed
  <2> QED BY <1>3, <1>7, <1>8, <1>11, <2>2, IdUsed DEF Life!Begin
<1>10. CASE Continues(f)
  <2>1. PICK s0 \in Tokens : s0 = token[f].session
    BY <1>10, OpenIs
  <2>2. \A t \in Tokens \ {f} : Continues(t) => token[t].session # s0
    BY <1>10, <2>1 DEF SessionInv, OneLivePerSession, Continues, Accepted
  <2>3. \A s : s \in Lapsed' <=> s \in Lapsed /\ s # s0
    BY <1>1, <1>3, <1>4, <1>5, <2>1, <2>2, OpenIs, OpenIsNext
  <2>4. Lapsed' = Lapsed \ {s0}
    BY <2>3 DEF Lapsed
  <2>5. s0 \in Life!Opened
    BY <1>10, <2>1, OpenIs
  <2>6. Life!Renew(s0, t0)
    BY <1>3, <1>7, <1>8, <1>11, <2>4, <2>5, IdUsed DEF Life!Renew
  <2> QED BY <2>6
<1> QED BY <1>9, <1>10

\* Every step is one of the life of sessions.
LEMMA MappedNext ==
  TypeOK /\ SessionInv /\ Current /\ LifeInv /\ [Next]_vars => [Life!Next]_(Life!lifeVars)
<1> SUFFICES ASSUME TypeOK, SessionInv, Current, LifeInv, [Next]_vars
             PROVE  Life!Next \/ UNCHANGED Life!lifeVars
  OBVIOUS
<1>1. CASE UNCHANGED vars
  <2>1. UNCHANGED <<token, client, customer, adminEpoch, clock>>
    BY <1>1 DEF vars
  <2>2. \A t \in Tokens : Continues(t)' <=> Continues(t)
    BY <2>1 DEF Continues, Accepted, Live, Exists, Accepts, AdminVersion, Configured, CanLogin, VersionOf, InFlight
  <2>3. \A q : OpenOf(q)' = OpenOf(q)
    BY <2>1, <2>2 DEF OpenOf
  <2>4. Lapsed' = Lapsed /\ Suspended' = Suspended
    <3>1. \A t \in Tokens : Standby(t)' <=> Standby(t)
      BY <2>1 DEF Standby, Live, Exists, AdminVersion
    <3> QED BY <2>1, <2>2, <3>1 DEF Lapsed, Suspended
  <2>5. \A q : BoundOf(q)' = BoundOf(q)
    BY <2>1 DEF BoundOf
  <2>6. /\ [q \in Principals |-> OpenOf(q)]' = [q \in Principals |-> OpenOf(q)]
        /\ [q \in Principals |-> BoundOf(q)]' = [q \in Principals |-> BoundOf(q)]
        /\ {t \in Tokens : token[t] = NoToken}' = {t \in Tokens : token[t] = NoToken}
    BY <2>1, <2>3, <2>5
  <2> QED BY <2>4, <2>6 DEF Life!lifeVars
<1>2. CASE Tick
  BY <1>2, MappedTick DEF Life!Next
<1>3. CASE Next /\ NothingNew /\ ~Tick /\ adminEpoch' = adminEpoch
  BY <1>3, MappedEnd DEF Life!Next
<1>5. CASE adminEpoch' # adminEpoch
  BY <1>5, MappedReconfigure DEF Life!Next
<1>4. CASE ~NothingNew
  <2>1. PICK t0 \in Tokens : token[t0] = NoToken /\ token'[t0] # NoToken
    BY <1>4 DEF NothingNew
  <2>2. PICK w \in Clients : CreatedBy(w, t0) \/ RotatedBy(w, t0)
    BY <2>1, NewToken
  <2>3. Life!Begin(t0) \/ \E s \in Tokens : Life!Renew(s, t0)
    BY <2>1, <2>2, MappedCreation, MappedRotation
  <2> QED BY <2>3 DEF Life!Next
<1> QED BY <1>1, <1>2, <1>3, <1>4, <1>5

\* Logins, refreshes, logouts, resets, the cleanup, failures and restarts are
\* together no more than SessionLife says, as long as no stale row is saved.
THEOREM LifecycleUnlessStale == Spec /\ []Current => Lifecycle
<1>1. Init => Life!Init
  BY MappedInit
<1>2. TypeOK /\ SessionInv /\ Current /\ LifeInv /\ [Next]_vars => [Life!Next]_(Life!lifeVars)
  BY MappedNext
<1> QED BY <1>1, <1>2, SessionsHold, LifeHolds, PTL DEF Spec, Lifecycle, Life!Spec

\* They implement it when PATCHes and DELETEs of customers do not meet.
THEOREM LifecycleHolds == ASSUME OneEditor PROVE Spec => Lifecycle
BY LifecycleUnlessStale, OneEditorCurrent, PTL
=============================================================================
