------------------------- MODULE SubscriptionsProofs -------------------------
(***************************************************************************)
(* Theorems about Subscriptions, for all sets of customers, tokens, links  *)
(* and requests, all tables to start from and all bounds.                  *)
(***************************************************************************)
EXTENDS Subscriptions, TLAPS

Edits(e) == editor[e] # NoRequest

\* What TypeOK says of the table.
TableOK ==
    /\ token \in [Tokens -> Row \cup {NoToken, GoneToken}]
    /\ \A t \in Tokens : Exists(t) => token[t].owner \in customers
    /\ \A s, t \in Tokens : (Exists(s) /\ Exists(t) /\ s # t) => token[s].link # token[t].link
    /\ \A t \in Tokens : Exists(t) => token[t].link \in issued

\* Digest and encrypted link of a row never part.
Paired(row) == row.cipher \in {NoLink, row.link}

\* What a request that has read a row may rely on when it saves the row.
Safe(e) ==
    /\ Paired(editor[e].row)
    /\ editor[e].row.link \in issued
    /\ token[editor[e].id] # NoToken
    /\ Exists(editor[e].id) => token[editor[e].id].owner = editor[e].row.owner
    /\ \A t \in Tokens \ {editor[e].id} : Exists(t) => token[t].link # editor[e].row.link

\* No link was ever that of two tokens.
Apart(e, f) == editor[e].id # editor[f].id => editor[e].row.link # editor[f].row.link

TokenInv ==
    /\ \A t \in Tokens : Exists(t) => Paired(token[t])
    /\ \A e \in Editors : Edits(e) => Safe(e)
    /\ \A e, f \in Editors : (Edits(e) /\ Edits(f)) => Apart(e, f)

USE SubscriptionsAssumption

LEMMA InitInv == Init => TypeOK /\ TokenInv
  BY DEF Init, TypeOK, TokenInv, Edits, Safe, Apart, Paired, Exists, NoRequest, Row

\* A new row has a new link and an id that no request holds.
LEMMA InsertInv ==
  ASSUME TypeOK, TokenInv, NEW c \in Customers, NEW x \in ExpiryTimes, Insert(c, x),
         UNCHANGED <<customers, editor>>
  PROVE  TableOK' /\ issued' \subseteq Links /\ TokenInv'
<1>1. PICK t \in Tokens, l \in Links \ issued :
        /\ token[t] = NoToken
        /\ token' = [token EXCEPT ![t] =
              [owner |-> c, link |-> l, cipher |-> l, enabled |-> TRUE,
               expires |-> x, used |-> FALSE]]
        /\ issued' = issued \cup {l}
  BY DEF Insert
<1>2. c \in customers
  BY DEF Insert
<1> DEFINE row == [owner |-> c, link |-> l, cipher |-> l, enabled |-> TRUE,
                   expires |-> x, used |-> FALSE]
<1>3. row \in Row /\ row.link = l /\ row.cipher = l /\ row.owner = c
  BY DEF Row
<1> HIDE DEF row
<1>4. token' = [token EXCEPT ![t] = row]
  BY <1>1 DEF row
<1>5. token' \in [Tokens -> Row \cup {NoToken, GoneToken}]
  BY <1>3, <1>4 DEF TypeOK
<1>6. \A s \in Tokens : Exists(s)' => \/ s = t /\ token'[s] = row
                                      \/ s # t /\ Exists(s) /\ token'[s] = token[s]
  BY <1>4, <1>5 DEF TypeOK, Exists
<1>7. \A s \in Tokens : Exists(s) => token[s].link \in issued
  BY DEF TypeOK
<1>8. TokenInv'
  <2>1. \A s \in Tokens : Exists(s)' => Paired(token[s])'
    BY <1>6, <1>3 DEF TokenInv, Paired
  <2>2. ASSUME NEW e \in Editors, Edits(e)' PROVE Safe(e)'
    <3>1. Edits(e) /\ editor'[e] = editor[e] /\ editor[e].id \in Tokens
      BY <2>2 DEF Edits, TypeOK
    <3>2. Safe(e)
      BY <3>1 DEF TokenInv
    <3>3. editor[e].id # t /\ token'[editor[e].id] = token[editor[e].id]
      BY <3>1, <3>2, <1>1 DEF Safe, TypeOK
    <3>4. \A s \in Tokens \ {editor[e].id} : Exists(s)' => token'[s].link # editor[e].row.link
      BY <3>2, <1>6, <1>3 DEF Safe
    <3> QED BY <3>1, <3>2, <3>3, <3>4, <1>1 DEF Safe, Exists
  <2>3. (\A e, f \in Editors : (Edits(e) /\ Edits(f)) => Apart(e, f))'
    BY DEF TokenInv, Edits, Apart
  <2> QED BY <2>1, <2>2, <2>3 DEF TokenInv
<1>9. issued' \subseteq Links
  BY <1>1 DEF TypeOK
<1>10. (\A s \in Tokens : Exists(s) => token[s].owner \in customers)'
  BY <1>6, <1>3, <1>2 DEF TypeOK
<1>11. (\A s \in Tokens : Exists(s) => token[s].link \in issued)'
  BY <1>6, <1>3, <1>1 DEF TypeOK
<1>12. (\A r, s \in Tokens :
            (Exists(r) /\ Exists(s) /\ r # s) => token[r].link # token[s].link)'
  BY <1>6, <1>3, <1>7 DEF TypeOK
<1> QED BY <1>5, <1>8, <1>9, <1>10, <1>11, <1>12 DEF TableOK

\* A statement that changes one row, and nothing the editors hold: the row keeps
\* its owner, and its link is its own or new.
LEMMA UpdateInv ==
  ASSUME TypeOK, TokenInv, NEW t \in Tokens, NEW row \in Row, Exists(t),
         token' = [token EXCEPT ![t] = row],
         row.owner = token[t].owner, Paired(row), row.link \in issued',
         issued \subseteq issued', issued' \subseteq Links, customers' = customers,
         \A s \in Tokens \ {t} : Exists(s) => token[s].link # row.link,
         \A e \in Editors : Edits(e)' => editor'[e] = editor[e],
         \A e \in Editors : Edits(e)' /\ editor[e].id # t => editor[e].row.link # row.link
  PROVE  TableOK' /\ TokenInv'
<1>1. token' \in [Tokens -> Row \cup {NoToken, GoneToken}]
  BY DEF TypeOK
<1>2. \A s \in Tokens : token'[s] = IF s = t THEN row ELSE token[s]
  BY DEF TypeOK
<1>3. \A s \in Tokens : Exists(s)' <=> Exists(s)
  BY <1>2 DEF Exists
<1>4. (\A s \in Tokens : Exists(s) => token[s].owner \in customers)'
  BY <1>2, <1>3 DEF TypeOK
<1>5. (\A r, s \in Tokens :
            (Exists(r) /\ Exists(s) /\ r # s) => token[r].link # token[s].link)'
  BY <1>2, <1>3 DEF TypeOK
<1>6. (\A s \in Tokens : Exists(s) => token[s].link \in issued)'
  BY <1>2, <1>3 DEF TypeOK
<1>7. TokenInv'
  <2>1. (\A s \in Tokens : Exists(s) => Paired(token[s]))'
    BY <1>2, <1>3 DEF TokenInv, Paired
  <2>2. ASSUME NEW e \in Editors, Edits(e)'
        PROVE  Edits(e) /\ editor'[e] = editor[e] /\ editor[e].id \in Tokens
    BY <2>2 DEF Edits, TypeOK
  <2>3. ASSUME NEW e \in Editors, Edits(e)' PROVE Safe(e)'
    <3>1. Safe(e) /\ editor'[e] = editor[e] /\ editor[e].id \in Tokens
      BY <2>2, <2>3 DEF TokenInv
    <3>2. \A s \in Tokens \ {editor[e].id} : Exists(s)' => token'[s].link # editor[e].row.link
      BY <3>1, <1>2, <1>3, <2>3 DEF Safe
    <3>3. Exists(editor[e].id)' => token'[editor[e].id].owner = editor[e].row.owner
      BY <3>1, <1>2, <1>3 DEF Safe
    <3>4. token'[editor[e].id] # NoToken
      BY <3>1, <1>2 DEF Safe
    <3> QED BY <3>1, <3>2, <3>3, <3>4 DEF Safe, Paired
  <2>4. (\A e, f \in Editors : (Edits(e) /\ Edits(f)) => Apart(e, f))'
    BY <2>2 DEF TokenInv, Apart
  <2> QED BY <2>1, <2>3, <2>4 DEF TokenInv
<1> QED BY <1>1, <1>4, <1>5, <1>6, <1>7 DEF TableOK

\* A step that leaves tables and links alone.
LEMMA QuietInv ==
  ASSUME TypeOK, TokenInv, UNCHANGED <<customers, token, issued>>,
         \A e \in Editors : Edits(e)' => editor'[e] = editor[e]
  PROVE  TableOK' /\ TokenInv'
<1>1. ASSUME NEW e \in Editors, Edits(e)' PROVE Safe(e)' /\ Edits(e) /\ editor'[e] = editor[e]
  BY <1>1 DEF Edits, TokenInv, Safe, Exists, Paired
<1>2. (\A t \in Tokens : Exists(t) => Paired(token[t]))'
  BY DEF TokenInv, Exists, Paired
<1>3. (\A e, f \in Editors : (Edits(e) /\ Edits(f)) => Apart(e, f))'
  BY <1>1 DEF TokenInv, Apart
<1>4. TokenInv'
  BY <1>1, <1>2, <1>3 DEF TokenInv
<1> QED BY <1>4 DEF TypeOK, TableOK, Exists

LEMMA ReadInv ==
  ASSUME TypeOK, TokenInv, NEW e \in Editors, NEW t \in Tokens, NEW kind \in {"patch", "encrypt"},
         Read(e, t, kind)
  PROVE  TypeOK' /\ TokenInv'
<1>1. /\ Exists(t) /\ token[t] \in Row
      /\ editor' = [editor EXCEPT ![e] = [pc |-> kind, id |-> t, row |-> token[t]]]
      /\ UNCHANGED <<customers, token, issued, client, ensurer, clock, faults>>
  BY DEF Read, TypeOK, Exists
<1>2. TypeOK'
  BY <1>1 DEF TypeOK, Exists
<1>3. /\ editor'[e] = [pc |-> kind, id |-> t, row |-> token[t]]
      /\ \A f \in Editors \ {e} : editor'[f] = editor[f]
  BY <1>1 DEF TypeOK
<1>4. ASSUME NEW f \in Editors, Edits(f)' PROVE Safe(f)'
  <2>1. CASE f = e
    BY <2>1, <1>1, <1>3 DEF TypeOK, TokenInv, Safe, Paired, Exists
  <2>2. CASE f # e
    <3>1. Safe(f) /\ editor'[f] = editor[f]
      BY <2>2, <1>3, <1>4 DEF TokenInv, Edits
    <3> QED BY <3>1, <1>1 DEF Safe, Exists, Paired
  <2> QED BY <2>1, <2>2
<1>5. ASSUME NEW f \in Editors, NEW g \in Editors, Edits(f)', Edits(g)' PROVE Apart(f, g)'
  <2>1. \A h \in Editors \ {e} : Edits(h)' => Edits(h) /\ editor'[h] = editor[h] /\ Safe(h)
    BY <1>3 DEF Edits, TokenInv
  <2>2. CASE f # e /\ g # e
    BY <2>1, <2>2, <1>5 DEF TokenInv, Apart
  <2>3. CASE f = e /\ g = e
    BY <2>3 DEF Apart
  <2>4. CASE f = e /\ g # e
    BY <2>1, <2>4, <1>5, <1>1, <1>3 DEF Apart, Safe
  <2>5. CASE f # e /\ g = e
    BY <2>1, <2>5, <1>5, <1>1, <1>3 DEF Apart, Safe
  <2> QED BY <2>2, <2>3, <2>4, <2>5
<1>6. (\A s \in Tokens : Exists(s) => Paired(token[s]))'
  BY <1>1 DEF TokenInv, Exists, Paired
<1> QED BY <1>2, <1>4, <1>5, <1>6 DEF TokenInv

\* Saving the row as it was read, but for its expiry, its flags and, if it is the
\* link of the row, its encrypted link.
LEMMA SaveInv ==
  ASSUME TypeOK, TokenInv, NEW e \in Editors, Edits(e), NEW row \in Row, Save(e, row),
         row.owner = editor[e].row.owner, row.link = editor[e].row.link, Paired(row)
  PROVE  TypeOK' /\ TokenInv'
<1> DEFINE id == editor[e].id
<1>1. /\ Safe(e) /\ id \in Tokens /\ editor[e].row \in Row
      /\ token' = [token EXCEPT ![id] = IF Exists(id) THEN row ELSE @]
      /\ editor' = [editor EXCEPT ![e] = NoRequest]
      /\ UNCHANGED <<customers, issued, client, ensurer, clock, faults>>
  BY DEF Save, TypeOK, TokenInv, Edits
<1>2. /\ \A f \in Editors : Edits(f)' => Edits(f) /\ editor'[f] = editor[f]
      /\ editor' \in [Editors -> {NoRequest} \cup [pc: {"patch", "encrypt"}, id: Tokens, row: Row]]
  BY <1>1 DEF Edits, TypeOK
<1>3. CASE Exists(id)
  <2>1. \A f \in Editors : Edits(f)' /\ editor[f].id # id => editor[f].row.link # row.link
    BY <1>2 DEF TokenInv, Apart
  <2>2. token' = [token EXCEPT ![id] = row] /\ row.owner = token[id].owner
        /\ \A s \in Tokens \ {id} : Exists(s) => token[s].link # row.link
    BY <1>1, <1>3 DEF Safe
  <2>3. row.link \in issued' /\ issued \subseteq issued' /\ issued' \subseteq Links
    BY <1>1 DEF Safe, TypeOK
  <2> HIDE DEF id
  <2> QED BY <1>1, <1>2, <1>3, <2>1, <2>2, <2>3, UpdateInv DEF TypeOK, TableOK
<1>4. CASE ~Exists(id)
  <2>1. token' = token
    BY <1>1, <1>4 DEF TypeOK
  <2> QED BY <2>1, <1>1, <1>2, QuietInv DEF TypeOK, TableOK
<1> QED BY <1>3, <1>4

LEMMA RotateInv ==
  ASSUME TypeOK, TokenInv, NEW t \in Tokens, Rotate(t)
  PROVE  TypeOK' /\ TokenInv'
<1>1. PICK l \in Links \ issued :
        /\ token' = [token EXCEPT ![t] = [@ EXCEPT !.link = l, !.cipher = l, !.used = FALSE]]
        /\ issued' = issued \cup {l}
  BY DEF Rotate
<1>2. Exists(t) /\ token[t] \in Row /\ UNCHANGED <<customers, requests, clock, faults>>
  BY DEF Rotate, TypeOK, Exists
<1> DEFINE row == [token[t] EXCEPT !.link = l, !.cipher = l, !.used = FALSE]
<1>3. row \in Row /\ row.link = l /\ row.owner = token[t].owner /\ Paired(row)
  BY <1>2 DEF Row, Paired
<1>4. token' = [token EXCEPT ![t] = row]
  BY <1>1
<1> HIDE DEF row
<1>5. \A s \in Tokens \ {t} : Exists(s) => token[s].link # row.link
  BY <1>1, <1>3 DEF TypeOK
<1>6. \A e \in Editors : Edits(e)' => editor'[e] = editor[e] /\ editor[e].row.link # row.link
  BY <1>1, <1>2, <1>3 DEF requests, Edits, TokenInv, Safe
<1>7. row.link \in issued' /\ issued \subseteq issued' /\ issued' \subseteq Links
  BY <1>1, <1>3 DEF TypeOK
<1> QED BY <1>2, <1>3, <1>4, <1>5, <1>6, <1>7, UpdateInv DEF TypeOK, TableOK, requests

LEMMA MarkInv ==
  ASSUME TypeOK, TokenInv, NEW w \in Clients, MarkUsed(w)
  PROVE  TypeOK' /\ TokenInv'
<1> DEFINE id == client[w].id
<1>1. /\ id \in Tokens
      /\ token' = [token EXCEPT ![id] = IF Exists(id) THEN [@ EXCEPT !.used = TRUE] ELSE @]
      /\ client' = [client EXCEPT ![w] = NoRequest]
      /\ UNCHANGED <<customers, issued, editor, ensurer, clock, faults>>
  BY DEF MarkUsed, TypeOK, NoRequest
<1>2. client' \in [Clients -> {NoRequest} \cup [pc: {"mark"}, id: Tokens, row: Row]]
  BY <1>1 DEF TypeOK
<1>3. \A e \in Editors : Edits(e)' => Edits(e) /\ editor'[e] = editor[e]
  BY <1>1 DEF Edits
<1>4. CASE Exists(id)
  <2> DEFINE row == [token[id] EXCEPT !.used = TRUE]
  <2>1. token[id] \in Row /\ Paired(token[id])
    BY <1>1, <1>4 DEF TypeOK, TokenInv, Exists
  <2>2. row \in Row /\ row.link = token[id].link /\ row.owner = token[id].owner /\ Paired(row)
    BY <2>1 DEF Row, Paired
  <2>3. token' = [token EXCEPT ![id] = row]
    BY <1>1, <1>4
  <2> HIDE DEF row
  <2>4. \A s \in Tokens \ {id} : Exists(s) => token[s].link # row.link
    BY <1>1, <1>4, <2>2 DEF TypeOK
  <2>5. \A e \in Editors : Edits(e)' /\ editor[e].id # id => editor[e].row.link # row.link
    BY <1>1, <1>3, <1>4, <2>2 DEF TokenInv, Safe
  <2>6. row.link \in issued' /\ issued \subseteq issued' /\ issued' \subseteq Links
    BY <1>1, <1>4, <2>2 DEF TypeOK
  <2> HIDE DEF id
  <2> QED BY <1>1, <1>2, <1>3, <1>4, <2>2, <2>3, <2>4, <2>5, <2>6, UpdateInv DEF TypeOK, TableOK
<1>5. CASE ~Exists(id)
  <2>1. token' = token
    BY <1>1, <1>5 DEF TypeOK
  <2> QED BY <2>1, <1>1, <1>2, <1>3, QuietInv DEF TypeOK, TableOK
<1> QED BY <1>4, <1>5

LEMMA DeleteInv ==
  ASSUME TypeOK, TokenInv, NEW c \in Customers, DeleteCustomer(c)
  PROVE  TypeOK' /\ TokenInv'
<1>1. /\ customers' = customers \ {c}
      /\ token' = [t \in Tokens |-> IF t \in TokensOf(c) THEN GoneToken ELSE token[t]]
      /\ UNCHANGED <<issued, editor, client, ensurer, clock, faults>>
  BY DEF DeleteCustomer, requests
<1>2. \A t \in Tokens : Exists(t)' => Exists(t) /\ token'[t] = token[t] /\ token[t].owner # c
  BY <1>1 DEF Exists, TokensOf
<1>3. TypeOK'
  BY <1>1, <1>2 DEF TypeOK
<1>4. ASSUME NEW e \in Editors, Edits(e)' PROVE Safe(e)' /\ Edits(e)
  <2>1. Edits(e) /\ Safe(e) /\ editor[e].id \in Tokens /\ editor' = editor
    BY <1>1, <1>4 DEF Edits, TokenInv, TypeOK
  <2>2. token'[editor[e].id] # NoToken
    BY <2>1, <1>1 DEF Safe
  <2> QED BY <2>1, <2>2, <1>1, <1>2 DEF Safe, Paired
<1>5. (\A e, f \in Editors : (Edits(e) /\ Edits(f)) => Apart(e, f))'
  BY <1>1, <1>4 DEF TokenInv, Apart
<1>6. (\A t \in Tokens : Exists(t) => Paired(token[t]))'
  BY <1>2 DEF TokenInv, Paired
<1> QED BY <1>3, <1>4, <1>5, <1>6 DEF TokenInv

LEMMA StepInv ==
  ASSUME TypeOK, TokenInv, [Next]_vars
  PROVE  TypeOK' /\ TokenInv'
<1>1. ASSUME NEW c \in Customers, Create(c) PROVE TypeOK' /\ TokenInv'
  <2>1. PICK x \in ExpiryTimes : Insert(c, x)
    BY <1>1 DEF Create
  <2>2. UNCHANGED <<customers, editor, client, ensurer, clock, faults>>
    BY <1>1 DEF Create, requests
  <2> QED BY <2>1, <2>2, InsertInv DEF TypeOK, TableOK
<1>2. ASSUME NEW c \in Customers, DeleteCustomer(c) PROVE TypeOK' /\ TokenInv'
  BY <1>2, DeleteInv
<1>3. ASSUME NEW c \in Customers, NEW w \in Ensurers, EnsureList(w, c) PROVE TypeOK' /\ TokenInv'
  <2>1. /\ ensurer' = [ensurer EXCEPT ![w] = [pc |-> "create", who |-> c]]
        /\ UNCHANGED <<customers, token, issued, editor, client, clock, faults>>
    BY <1>3 DEF EnsureList
  <2> QED BY <2>1, QuietInv DEF TypeOK, TableOK
<1>4. ASSUME NEW w \in Ensurers, EnsureCreate(w) PROVE TypeOK' /\ TokenInv'
  <2>1. /\ ensurer' = [ensurer EXCEPT ![w] = NoRequest]
        /\ UNCHANGED <<customers, editor, client, clock, faults>>
        /\ ensurer[w].who \in Customers /\ MaxClock + 1 \in ExpiryTimes
    BY <1>4 DEF EnsureCreate, TypeOK, NoRequest
  <2>2. ensurer' \in [Ensurers -> {NoRequest} \cup [pc: {"create"}, who: Customers]]
    BY <2>1 DEF TypeOK
  <2>3. CASE Insert(ensurer[w].who, MaxClock + 1)
    BY <2>1, <2>2, <2>3, InsertInv DEF TypeOK, TableOK
  <2>4. CASE UNCHANGED <<token, issued>>
    BY <2>1, <2>2, <2>4, QuietInv DEF TypeOK, TableOK
  <2> QED BY <1>4, <2>3, <2>4 DEF EnsureCreate
<1>5. ASSUME NEW e \in Editors, NEW t \in Tokens, PatchRead(e, t) \/ EncryptRead(e, t)
      PROVE TypeOK' /\ TokenInv'
  BY <1>5, ReadInv DEF PatchRead, EncryptRead
<1>6. ASSUME NEW e \in Editors, PatchSave(e) PROVE TypeOK' /\ TokenInv'
  <2>1. Edits(e) /\ editor[e].row \in Row /\ Safe(e)
    BY <1>6 DEF PatchSave, Edits, TypeOK, NoRequest, TokenInv
  <2>2. PICK b \in BOOLEAN, x \in ExpiryTimes :
           Save(e, [editor[e].row EXCEPT !.enabled = b, !.expires = x])
    BY <1>6 DEF PatchSave
  <2> DEFINE row == [editor[e].row EXCEPT !.enabled = b, !.expires = x]
  <2>3. /\ row \in Row /\ row.owner = editor[e].row.owner /\ row.link = editor[e].row.link
        /\ Paired(row)
    BY <2>1 DEF Row, Safe, Paired
  <2>4. Save(e, row)
    BY <2>2
  <2> HIDE DEF row
  <2> QED BY <2>1, <2>3, <2>4, SaveInv
<1>7. ASSUME NEW e \in Editors, EncryptSave(e) PROVE TypeOK' /\ TokenInv'
  <2> DEFINE row == [editor[e].row EXCEPT !.cipher = editor[e].row.link]
  <2>1. Edits(e) /\ editor[e].row \in Row /\ Save(e, row)
    BY <1>7 DEF EncryptSave, Edits, TypeOK, NoRequest
  <2>2. /\ row \in Row /\ row.owner = editor[e].row.owner /\ row.link = editor[e].row.link
        /\ Paired(row)
    BY <2>1 DEF Row, Paired
  <2> HIDE DEF row
  <2> QED BY <2>1, <2>2, SaveInv
<1>8. ASSUME NEW t \in Tokens, Rotate(t) PROVE TypeOK' /\ TokenInv'
  BY <1>8, RotateInv
<1>9. ASSUME NEW w \in Clients, MarkUsed(w) PROVE TypeOK' /\ TokenInv'
  BY <1>9, MarkInv
<1>10. ASSUME NEW w \in Clients, NEW t \in Tokens, Open(w, t) PROVE TypeOK' /\ TokenInv'
  <2>1. /\ client' = [client EXCEPT ![w] = [pc |-> "mark", id |-> t, row |-> token[t]]]
        /\ UNCHANGED <<customers, token, issued, editor, ensurer, clock, faults>>
        /\ token[t] \in Row
    BY <1>10 DEF Open, Exists, TypeOK
  <2> QED BY <2>1, QuietInv DEF TypeOK, TableOK
<1>11. CASE RequestFails
  <2>1. /\ UNCHANGED <<customers, token, issued, clock>>
        /\ faults' = faults + 1 /\ faults < MaxFaults
        /\ \A e \in Editors : Edits(e)' => editor'[e] = editor[e]
        /\ editor' \in [Editors -> {NoRequest} \cup [pc: {"patch", "encrypt"}, id: Tokens, row: Row]]
        /\ client' \in [Clients -> {NoRequest} \cup [pc: {"mark"}, id: Tokens, row: Row]]
        /\ ensurer' \in [Ensurers -> {NoRequest} \cup [pc: {"create"}, who: Customers]]
    BY <1>11 DEF RequestFails, Edits, TypeOK
  <2> QED BY <2>1, QuietInv DEF TypeOK, TableOK
<1>12. CASE Tick
  <2>1. clock < MaxClock /\ clock' = clock + 1
        /\ UNCHANGED <<customers, token, issued, editor, client, ensurer, faults>>
    BY <1>12 DEF Tick, requests
  <2> QED BY <2>1, QuietInv DEF TypeOK, TableOK
<1>13. CASE UNCHANGED vars
  BY <1>13, QuietInv DEF vars, requests, TypeOK, TableOK
<1> QED BY <1>1, <1>2, <1>3, <1>4, <1>5, <1>6, <1>7, <1>8, <1>9, <1>10, <1>11, <1>12, <1>13 DEF Next

\* A row whose two links are the same opens wherever it is shown.
LEMMA PairedOpens == TypeOK /\ TokenInv => ShownLinkWorks
<1> SUFFICES ASSUME TypeOK, TokenInv, NEW t \in Tokens, Shown(t), token[t].cipher # NoLink
             PROVE  Opens(token[t].cipher)
  BY DEF ShownLinkWorks
<1>1. Exists(t) /\ token[t].enabled /\ token[t].expires > clock
  BY DEF Shown
<1>2. token[t].link = token[t].cipher
  BY <1>1 DEF TokenInv, Paired
<1>3. token[t] \in Row
  BY <1>1 DEF TypeOK, Exists
<1>4. token[t].expires \in ExpiryTimes
  BY <1>3 DEF Row
<1>5. ExpiryTimes \subseteq Nat /\ MaxClock \in Nat
  BY DEF SubscriptionsAssumption
<1>6. token[t].expires \in Nat
  BY <1>4, <1>5
<1>7. clock \in Nat
  BY <1>5 DEF TypeOK
<1> QED BY <1>1, <1>2, <1>6, <1>7 DEF Opens

\* Tokens and requests keep their types; no two tokens share a digest; and every
\* request between its statements holds a row that it may save.
THEOREM TokensHold == Spec => [](TypeOK /\ TokenInv)
<1>1. TypeOK /\ TokenInv /\ [Next]_vars => (TypeOK /\ TokenInv)'
  BY StepInv
<1> QED BY InitInv, <1>1, PTL DEF Spec

\* The types of Subscriptions, with the uniqueness of digests and the owners' existence.
THEOREM TokenTypes == Spec => []TypeOK
  BY TokensHold, PTL

\* What the customer portal shows opens, however PATCH, encrypt and rotation overlap.
THEOREM ShownLinkWorksHolds == Spec => []ShownLinkWorks
  BY TokensHold, PairedOpens, PTL

\* A row that is served for a link now was served for it before.
SameService(t) ==
    Exists(t)' => /\ Exists(t)
                  /\ token'[t].link = token[t].link
                  /\ token'[t].enabled = token[t].enabled
                  /\ token'[t].expires = token[t].expires

LEMMA SameServiceOpens ==
  ASSUME TypeOK, TypeOK', clock <= clock', NEW l \in issued, ~Opens(l), Opens(l)'
  PROVE  \E t \in Tokens : ~SameService(t) /\ Exists(t)' /\ token'[t].link = l
<1>1. PICK t \in Tokens : Exists(t)' /\ token'[t].link = l /\ token'[t].enabled
                          /\ token'[t].expires >= clock'
  BY DEF Opens
<1>2. token'[t].expires \in Nat
  BY <1>1, SubscriptionsAssumption DEF TypeOK, Exists, Row
<1>3. token'[t].expires >= clock
  BY <1>1, <1>2 DEF TypeOK
<1>4. SameService(t) => Opens(l)
  BY <1>1, <1>3 DEF SameService, Opens
<1> QED BY <1>1, <1>4

\* A link that stopped working comes back only by a request that saves a row it
\* read with that link (the Save of store.go:673 in PATCH and encrypt).
THEOREM RevivedHolds == Spec => RevivedOnlyBySave
<1> DEFINE Saved(l) == \E e \in Editors : /\ editor[e] # NoRequest /\ editor'[e] = NoRequest
                                          /\ editor[e].row.link = l
<1>1. ASSUME TypeOK, TokenInv, TypeOK', [Next]_vars, NEW l \in issued, ~Opens(l), Opens(l)'
      PROVE  Saved(l)
  <2>c. clock <= clock'
    <3>1. clock' = clock \/ clock' = clock + 1
      BY <1>1 DEF Next, vars, requests, Create, DeleteCustomer, EnsureList, EnsureCreate, PatchRead,
         EncryptRead, Read, PatchSave, EncryptSave, Save, Rotate, MarkUsed, Open, RequestFails, Tick
    <3> QED BY <1>1, <3>1 DEF TypeOK
  <2>1. PICK t \in Tokens : ~SameService(t) /\ Exists(t)' /\ token'[t].link = l
    BY <1>1, <2>c, SameServiceOpens
  <2>2. ASSUME NEW c \in Customers, NEW x, Insert(c, x) PROVE FALSE
    <3>1. PICK s \in Tokens, k \in Links \ issued :
             /\ token' = [token EXCEPT ![s] =
                   [owner |-> c, link |-> k, cipher |-> k, enabled |-> TRUE,
                    expires |-> x, used |-> FALSE]]
      BY <2>2 DEF Insert
    <3>2. token'[s].link = k /\ \A r \in Tokens \ {s} : token'[r] = token[r]
      BY <1>1, <3>1 DEF TypeOK
    <3> QED BY <1>1, <2>1, <3>1, <3>2 DEF SameService, Exists
  <2>3. ASSUME NEW s \in Tokens, Rotate(s) PROVE FALSE
    <3>1. token[s] \in Row /\ Exists(s)
      BY <1>1, <2>3 DEF Rotate, TypeOK, Exists
    <3>2. PICK k \in Links \ issued :
            token' = [token EXCEPT ![s] = [@ EXCEPT !.link = k, !.cipher = k, !.used = FALSE]]
      BY <2>3 DEF Rotate
    <3>3. token'[s].link = k /\ \A r \in Tokens \ {s} : token'[r] = token[r]
      BY <1>1, <3>1, <3>2 DEF TypeOK, Row
    <3> QED BY <1>1, <2>1, <3>2, <3>3 DEF SameService, Exists
  <2>4. ASSUME NEW c \in Customers, DeleteCustomer(c) PROVE FALSE
    BY <2>1, <2>4 DEF DeleteCustomer, SameService, Exists
  <2>5. ASSUME NEW w \in Clients, MarkUsed(w) PROVE FALSE
    <3> DEFINE id == client[w].id
    <3>1. /\ id \in Tokens
          /\ token' = [token EXCEPT ![id] = IF Exists(id) THEN [@ EXCEPT !.used = TRUE] ELSE @]
      BY <1>1, <2>5 DEF MarkUsed, TypeOK, NoRequest
    <3>2. \A r \in Tokens \ {id} : token'[r] = token[r]
      BY <1>1, <3>1 DEF TypeOK
    <3>3. CASE Exists(id)
      <4>1. token[id] \in Row
        BY <1>1, <3>1, <3>3 DEF TypeOK, Exists
      <4> DEFINE row == [token[id] EXCEPT !.used = TRUE]
      <4>2. /\ row.link = token[id].link /\ row.enabled = token[id].enabled
            /\ row.expires = token[id].expires
        BY <4>1 DEF Row
      <4>3. token' = [token EXCEPT ![id] = row]
        BY <3>1, <3>3
      <4> HIDE DEF row, id
      <4>4. token'[id] = row
        BY <1>1, <3>1, <4>3 DEF TypeOK
      <4> QED BY <2>1, <3>2, <3>3, <4>2, <4>4 DEF SameService, Exists
    <3>4. CASE ~Exists(id)
      BY <1>1, <2>1, <3>1, <3>2, <3>4 DEF SameService, Exists, TypeOK
    <3> QED BY <3>3, <3>4
  <2>6. ASSUME NEW e \in Editors, Edits(e), NEW row \in Row, Save(e, row),
               row.link = editor[e].row.link
        PROVE  Saved(l)
    <3> DEFINE id == editor[e].id
    <3>1. /\ id \in Tokens
          /\ token' = [token EXCEPT ![id] = IF Exists(id) THEN row ELSE @]
          /\ editor' = [editor EXCEPT ![e] = NoRequest]
      BY <1>1, <2>6 DEF Save, TypeOK, Edits, NoRequest
    <3>2. editor[e] # NoRequest /\ editor'[e] = NoRequest
      BY <1>1, <2>6, <3>1 DEF TypeOK, Edits, NoRequest
    <3>3. \A r \in Tokens \ {id} : token'[r] = token[r]
      BY <1>1, <3>1 DEF TypeOK
    <3>4. t = id /\ Exists(id) /\ token'[id] = row
      BY <1>1, <2>1, <3>1, <3>3 DEF SameService, Exists, TypeOK
    <3> QED BY <2>1, <2>6, <3>2, <3>4
  <2>7. ASSUME NEW e \in Editors, PatchSave(e) \/ EncryptSave(e)
        PROVE  Saved(l)
    <3>1. Edits(e) /\ editor[e].row \in Row
      <4>1. editor[e].pc # "idle"
        BY <2>7 DEF PatchSave, EncryptSave
      <4>2. editor[e] \in {NoRequest} \cup [pc: {"patch", "encrypt"}, id: Tokens, row: Row]
        BY <1>1 DEF TypeOK
      <4> QED BY <4>1, <4>2 DEF Edits, NoRequest
    <3>a. editor[e].row.link \in Links
      BY <3>1 DEF Row
    <3>2. CASE PatchSave(e)
      <4>1. PICK b \in BOOLEAN, x \in ExpiryTimes :
               Save(e, [editor[e].row EXCEPT !.enabled = b, !.expires = x])
        BY <3>2 DEF PatchSave
      <4>2. /\ [editor[e].row EXCEPT !.enabled = b, !.expires = x] \in Row
            /\ [editor[e].row EXCEPT !.enabled = b, !.expires = x].link = editor[e].row.link
        BY <3>1 DEF Row
      <4> QED BY <2>6, <3>1, <4>1, <4>2
    <3>3. CASE EncryptSave(e)
      <4>1. /\ [editor[e].row EXCEPT !.cipher = editor[e].row.link] \in Row
            /\ [editor[e].row EXCEPT !.cipher = editor[e].row.link].link = editor[e].row.link
        BY <3>1, <3>a DEF Row
      <4> QED BY <2>6, <3>1, <3>3, <4>1 DEF EncryptSave
    <3> QED BY <2>7, <3>2, <3>3
  <2>8. CASE UNCHANGED token
    BY <2>1, <2>8 DEF SameService, Exists
  <2> QED BY <1>1, <2>2, <2>3, <2>4, <2>5, <2>7, <2>8
     DEF Next, vars, Create, EnsureList, EnsureCreate, PatchRead, EncryptRead, Read, Open,
         RequestFails, Tick, TypeOK, NoRequest
<1> DEFINE BySave ==
      \A l \in issued :
         (~Opens(l) /\ Opens(l)')
             => \E e \in Editors : /\ editor[e] # NoRequest /\ editor'[e] = NoRequest
                                   /\ editor[e].row.link = l
<1>2. TypeOK /\ TokenInv /\ TypeOK' /\ [Next]_vars => BySave
  BY <1>1
<1> QED BY <1>2, TokensHold, PTL DEF Spec, RevivedOnlyBySave
=============================================================================
