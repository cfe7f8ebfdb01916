---------------------------- MODULE Subscriptions ----------------------------
(***************************************************************************)
(* Subscription tokens (internal/httpapi, internal/store, internal/cli).   *)
(* A token row holds the digest of a secret link, /sub/<token>, and the    *)
(* same link encrypted, which the customer portal shows.  Administrators   *)
(* create, PATCH and rotate tokens; the command line creates the first one *)
(* of a customer (ensure) and adds the encrypted link to rows that are     *)
(* older than that column (encrypt); clients open links.                   *)
(*                                                                         *)
(* A digest stands for the link it digests, and an encrypted link for the  *)
(* link it decrypts to.  Links are random: a new one was never used.       *)
(***************************************************************************)
EXTENDS Integers, FiniteSets

CONSTANTS
    Customers,
    Tokens,        \* ids of subscription_tokens
    Links,         \* the secrets
    NoLink,        \* encrypted_token is empty
    NoToken,       \* no row yet
    GoneToken,     \* the row is deleted: ids are random and never come back
    Editors,       \* concurrent PATCH requests and encrypt commands
    Clients,       \* concurrent requests of a link
    Ensurers,      \* concurrent ensure commands
    ExpiryTimes,   \* values of expires_at; one beyond MaxClock is NULL
    InitTokens,    \* the tables to start from
    MaxClock,      \* bound: the time
    MaxFaults      \* bound: failed statements and stopped processes

Row == [owner: Customers, link: Links, cipher: Links \cup {NoLink}, enabled: BOOLEAN,
        expires: ExpiryTimes, used: BOOLEAN]

ASSUME SubscriptionsAssumption ==
    /\ NoToken \notin Row /\ GoneToken \notin Row /\ NoToken # GoneToken /\ NoLink \notin Links
    /\ InitTokens \subseteq [Tokens -> Row \cup {NoToken}]
    /\ \A table \in InitTokens : \A t \in Tokens : table[t] # NoToken =>
          /\ table[t].cipher \in {NoLink, table[t].link}
          /\ \A s \in Tokens \ {t} : table[s] # NoToken => table[s].link # table[t].link
    /\ MaxClock \in Nat /\ MaxFaults \in Nat
    /\ ExpiryTimes \subseteq Nat /\ (MaxClock + 1) \in ExpiryTimes

VARIABLES
    customers,   \* those that exist
    token,       \* subscription_tokens
    issued,      \* the links that were ever given out
    editor, client, ensurer,   \* requests and commands between their statements
    clock, faults

requests == <<editor, client, ensurer>>
vars == <<customers, token, issued, editor, client, ensurer, clock, faults>>

NoRequest == [pc |-> "idle"]
Exists(t) == token[t] \notin {NoToken, GoneToken}
TokensOf(c) == {t \in Tokens : Exists(t) /\ token[t].owner = c}

TypeOK ==
    /\ customers \subseteq Customers
    /\ token \in [Tokens -> Row \cup {NoToken, GoneToken}]
    /\ \A t \in Tokens : Exists(t) => token[t].owner \in customers
    /\ \A s, t \in Tokens : (Exists(s) /\ Exists(t) /\ s # t) => token[s].link # token[t].link
    /\ \A t \in Tokens : Exists(t) => token[t].link \in issued
    /\ issued \subseteq Links
    /\ editor \in [Editors -> {NoRequest} \cup [pc: {"patch", "encrypt"}, id: Tokens, row: Row]]
    /\ client \in [Clients -> {NoRequest} \cup [pc: {"mark"}, id: Tokens, row: Row]]
    /\ ensurer \in [Ensurers -> {NoRequest} \cup [pc: {"create"}, who: Customers]]
    /\ clock \in 0 .. MaxClock /\ faults \in 0 .. MaxFaults

Init ==
    /\ customers = Customers
    /\ token \in InitTokens
    /\ issued = {token[t].link : t \in {s \in Tokens : Exists(s)}}
    /\ editor = [e \in Editors |-> NoRequest]
    /\ client = [w \in Clients |-> NoRequest]
    /\ ensurer = [w \in Ensurers |-> NoRequest]
    /\ clock = 0 /\ faults = 0

(***************************************************************************)
(* Creation.                                                               *)
(***************************************************************************)

\* CreateSubscriptionToken: without the customer it is refused, by its look at the
\* row or by the foreign key.
Insert(c, expiry) ==
    /\ c \in customers
    /\ \E t \in Tokens, l \in Links \ issued :
          /\ token[t] = NoToken
          /\ token' = [token EXCEPT ![t] =
                [owner |-> c, link |-> l, cipher |-> l, enabled |-> TRUE,
                 expires |-> expiry, used |-> FALSE]]
          /\ issued' = issued \cup {l}

\* POST /admin/subscription-tokens.
Create(c) ==
    /\ \E x \in ExpiryTimes : Insert(c, x)
    /\ UNCHANGED <<customers, requests, clock, faults>>

\* subscription token ensure lists the customer's tokens and is done if any...
EnsureList(w, c) ==
    /\ ensurer[w] = NoRequest
    /\ c \in customers /\ TokensOf(c) = {}
    /\ ensurer' = [ensurer EXCEPT ![w] = [pc |-> "create", who |-> c]]
    /\ UNCHANGED <<customers, token, issued, editor, client, clock, faults>>

\* ...or creates one.
EnsureCreate(w) ==
    /\ ensurer[w].pc = "create"
    /\ IF ensurer[w].who \in customers THEN Insert(ensurer[w].who, MaxClock + 1)
                                       ELSE UNCHANGED <<token, issued>>
    /\ ensurer' = [ensurer EXCEPT ![w] = NoRequest]
    /\ UNCHANGED <<customers, editor, client, clock, faults>>

(***************************************************************************)
(* Changes.                                                                *)
(***************************************************************************)

\* PATCH /admin/subscription-tokens/{id} reads the row, and so does encrypt, which
\* has checked that the link it was given has the digest of the row.
Read(e, t, kind) ==
    /\ editor[e] = NoRequest /\ Exists(t)
    /\ editor' = [editor EXCEPT ![e] = [pc |-> kind, id |-> t, row |-> token[t]]]
    /\ UNCHANGED <<customers, token, issued, client, ensurer, clock, faults>>
PatchRead(e, t) == Read(e, t, "patch")
EncryptRead(e, t) == Read(e, t, "encrypt")

\* UpdateSubscriptionToken saves every column as it was read and changed.  The row
\* of a deleted customer's token is not found, or refused by the foreign key.
Save(e, row) ==
    /\ token' = [token EXCEPT ![editor[e].id] = IF Exists(editor[e].id) THEN row ELSE @]
    /\ editor' = [editor EXCEPT ![e] = NoRequest]
    /\ UNCHANGED <<customers, issued, client, ensurer, clock, faults>>
\* A PATCH may also leave both as they are.
PatchSave(e) ==
    /\ editor[e].pc = "patch"
    /\ \E b \in BOOLEAN, x \in ExpiryTimes :
          Save(e, [editor[e].row EXCEPT !.enabled = b, !.expires = x])
\* Mutant: encrypt writes its column alone.
EncryptColumn(e) ==
    /\ editor[e].pc = "encrypt"
    /\ token' = [token EXCEPT ![editor[e].id] =
                   IF Exists(editor[e].id) THEN [@ EXCEPT !.cipher = editor[e].row.link] ELSE @]
    /\ editor' = [editor EXCEPT ![e] = NoRequest]
    /\ UNCHANGED <<customers, issued, client, ensurer, clock, faults>>
EncryptSave(e) ==
    /\ editor[e].pc = "encrypt"
    /\ Save(e, [editor[e].row EXCEPT !.cipher = editor[e].row.link])

\* RotateSubscriptionToken: one UPDATE of the link and of what was known of its use.
Rotate(t) ==
    /\ Exists(t)
    /\ \E l \in Links \ issued :
          /\ token' = [token EXCEPT ![t] = [@ EXCEPT !.link = l, !.cipher = l, !.used = FALSE]]
          /\ issued' = issued \cup {l}
    /\ UNCHANGED <<customers, requests, clock, faults>>

\* Mutant: the foreign key of subscription_tokens does not cascade.
DeleteCustomerOnly(c) ==
    /\ c \in customers
    /\ customers' = customers \ {c}
    /\ UNCHANGED <<token, issued, requests, clock, faults>>
\* DELETE /admin/customers/{id} takes the tokens with it.
DeleteCustomer(c) ==
    /\ c \in customers
    /\ customers' = customers \ {c}
    /\ token' = [t \in Tokens |-> IF t \in TokensOf(c) THEN GoneToken ELSE token[t]]
    /\ UNCHANGED <<issued, requests, clock, faults>>

(***************************************************************************)
(* Use.                                                                    *)
(***************************************************************************)

\* getSubscription serves an enabled token until its expiry, inclusively.
Opens(l) ==
    \E t \in Tokens :
        Exists(t) /\ token[t].link = l /\ token[t].enabled /\ token[t].expires >= clock

\* activeSubscriptionToken: the portal lists it before its expiry, exclusively.
Shown(t) == Exists(t) /\ token[t].enabled /\ token[t].expires > clock

\* The row is looked up by digest; what is served is then read and built...
Open(w, t) ==
    /\ client[w] = NoRequest
    /\ Exists(t) /\ Opens(token[t].link)
    /\ client' = [client EXCEPT ![w] = [pc |-> "mark", id |-> t, row |-> token[t]]]
    /\ UNCHANGED <<customers, token, issued, editor, ensurer, clock, faults>>

\* Mutant: the use is noted by saving the row that was looked up.
MarkUsedRow(w) ==
    /\ client[w].pc = "mark"
    /\ token' = [token EXCEPT ![client[w].id] =
                   IF Exists(client[w].id) THEN [client[w].row EXCEPT !.used = TRUE] ELSE @]
    /\ client' = [client EXCEPT ![w] = NoRequest]
    /\ UNCHANGED <<customers, issued, editor, ensurer, clock, faults>>
\* ...and MarkSubscriptionUsed notes time and place in the row with this id.
MarkUsed(w) ==
    /\ client[w].pc = "mark"
    /\ token' = [token EXCEPT ![client[w].id] =
                   IF Exists(client[w].id) THEN [@ EXCEPT !.used = TRUE] ELSE @]
    /\ client' = [client EXCEPT ![w] = NoRequest]
    /\ UNCHANGED <<customers, issued, editor, ensurer, clock, faults>>

\* A statement fails, a body is refused, or the process stops.
RequestFails ==
    /\ faults < MaxFaults /\ faults' = faults + 1
    /\ \/ \E e \in Editors : /\ editor[e] # NoRequest
                             /\ editor' = [editor EXCEPT ![e] = NoRequest]
                             /\ UNCHANGED <<client, ensurer>>
       \/ \E w \in Clients : /\ client[w] # NoRequest
                             /\ client' = [client EXCEPT ![w] = NoRequest]
                             /\ UNCHANGED <<editor, ensurer>>
       \/ \E w \in Ensurers : /\ ensurer[w] # NoRequest
                              /\ ensurer' = [ensurer EXCEPT ![w] = NoRequest]
                              /\ UNCHANGED <<editor, client>>
    /\ UNCHANGED <<customers, token, issued, clock>>

Tick ==
    /\ clock < MaxClock /\ clock' = clock + 1
    /\ UNCHANGED <<customers, token, issued, requests, faults>>

Next ==
    \/ \E c \in Customers :
          Create(c) \/ DeleteCustomer(c) \/ \E w \in Ensurers : EnsureList(w, c)
    \/ \E w \in Ensurers : EnsureCreate(w)
    \/ \E e \in Editors :
          \/ \E t \in Tokens : PatchRead(e, t) \/ EncryptRead(e, t)
          \/ PatchSave(e) \/ EncryptSave(e)
    \/ \E t \in Tokens : Rotate(t)
    \/ \E w \in Clients : MarkUsed(w) \/ \E t \in Tokens : Open(w, t)
    \/ RequestFails \/ Tick

Spec == Init /\ [][Next]_vars

(***************************************************************************)
(* Properties.                                                             *)
(***************************************************************************)

\* What the portal shows opens, whatever PATCH,
\* encrypt and rotation overlap: digest and encrypted link of a row never part
\* (server.go:519-537 decrypts the one, 1295 looks up the other).
ShownLinkWorks ==
    \A t \in Tokens :
        (Shown(t) /\ token[t].cipher # NoLink)
            => Opens(token[t].cipher)

\* A link that does not open, because it was rotated away, disabled or has
\* expired, opens again only by a PATCH or an encrypt that saves a row read with
\* that link: no use, creation or rotation brings one back.
RevivedOnlyBySave ==
    [][\A l \in issued :
          (~Opens(l) /\ Opens(l)')
              => \E e \in Editors : /\ editor[e] # NoRequest /\ editor'[e] = NoRequest
                                    /\ editor[e].row.link = l]_vars
=============================================================================
