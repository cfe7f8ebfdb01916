--------------------------- MODULE CatalogueProofs ---------------------------
(***************************************************************************)
(* Theorems about Catalogue, for all customers, accounts, nodes, bodies    *)
(* and bounds and for any number of requests at once.                      *)
(***************************************************************************)
EXTENDS Catalogue, TLAPS

USE CatalogueAssumption DEF CatalogueAssumption

(***************************************************************************)
(* The invariant.                                                          *)
(***************************************************************************)

Distinct(rows) ==
    \A m, n \in Nodes : (m # n /\ Exists(rows[m]) /\ Exists(rows[n])) => rows[m].name # rows[n].name

WrittenBy(q) == {n \in Nodes : q.writes[n] # None}

\* What a request is about to write as an account.
HasRow(q) ==
    /\ q.id \in Accounts /\ q.row \in AccountRow
    /\ \A n \in q.row.nodes : q.loaded[n] \in NodeRow
    /\ \A m, n \in q.row.nodes : m # n => q.loaded[m].name # q.loaded[n].name

Fits(row, item) ==
    /\ row \in NodeRow
    /\ row.name = item.name /\ row.config = item.config
    /\ item.enabled \in {Unset, row.enabled}

\* A sync has written the items before the next one, and nothing else.
Entered(q) ==
    /\ q.body \in Bodies
    /\ q.at \in 1 .. Len(q.body) + 1
    /\ \A i \in 1 .. q.at - 1 : \E n \in Nodes : Fits(q.writes[n], q.body[i])
    /\ \A n \in WrittenBy(q) : \E i \in 1 .. q.at - 1 : q.writes[n].name = q.body[i].name

\* What a request knows in each phase.
Sound(q) ==
    /\ q.pc \in {"idle", "patch", "save", "insert", "node"} => WrittenBy(q) = {}
    /\ q.pc = "patch" => q.id \in Accounts /\ q.old \in AccountRow
    /\ q.pc \in {"save", "insert"} => HasRow(q)
    /\ q.pc = "save" =>
          q.old \in AccountRow /\ \A c \in Columns \ q.named : q.row[c] = q.old[c]
    /\ q.pc = "node" => q.id \in Nodes
    /\ q.pc \in {"look", "write", "commit"} => Entered(q)
    /\ q.pc \in {"look", "write"} => q.at <= Len(q.body)
    /\ q.pc = "commit" => q.at = Len(q.body) + 1
    /\ q.pc = "write" =>
          \/ q.found = None /\ q.was = Unset
          \/ q.found \in Nodes \ WrittenBy(q) /\ q.was \in BOOLEAN

\* Open transactions have rows and names of their own.
ApartFrom(p, q) ==
    /\ WrittenBy(p) \cap WrittenBy(q) = {}
    /\ \A m \in WrittenBy(p), n \in WrittenBy(q) : p.writes[m].name # q.writes[n].name
Apart == \A r, q \in Requests : r # q => ApartFrom(request[r], request[q])

Overlaid(rows, q) == [n \in Nodes |-> IF n \in WrittenBy(q) THEN q.writes[n] ELSE rows[n]]
NamesKept == \A r \in Requests : Distinct(Overlaid(node, request[r]))

\* What is written without a word about enabled is what the row has.
KeepsEnabled(rows, q) ==
    \A n \in WrittenBy(q) \ q.moved, i \in DOMAIN q.body :
       /\ q.body[i].enabled = Unset
       /\ q.writes[n].name = q.body[i].name
       /\ Exists(rows[n])
       => q.writes[n].enabled = rows[n].enabled

CatalogueInv ==
    /\ \A r \in Requests : Sound(request[r]) /\ KeepsEnabled(node, request[r])
    /\ Apart /\ NamesKept /\ AsRequested

(***************************************************************************)
(* The initial states.                                                     *)
(***************************************************************************)

LEMMA IdleIsSound ==
    /\ Idle \in Request /\ WrittenBy(Idle) = {} /\ Sound(Idle)
    /\ \A rows : KeepsEnabled(rows, Idle)
<1>1. Idle \in Request
  BY DEF Idle, Request
<1>2. WrittenBy(Idle) = {}
  BY DEF Idle, WrittenBy
<1> QED BY <1>1, <1>2 DEF Idle, Sound, KeepsEnabled

LEMMA InitInv == Init => TypeOK /\ CatalogueInv
<1> SUFFICES ASSUME Init PROVE TypeOK /\ CatalogueInv
  OBVIOUS
<1>1. /\ node \in [Nodes -> NodeRow \cup {None, Gone}]
      /\ account \in [Accounts -> AccountRow \cup {None, Gone}]
      /\ asked \in [Accounts -> AccountRow \cup {None, Gone, Muddled}]
  BY DEF Init
<1>2. Distinct(node)
  BY DEF Init, Distinct, Exists
<1>3. request \in [Requests -> Request] /\ \A r \in Requests : request[r] = Idle
  BY IdleIsSound DEF Init
<1>4. \A a \in Accounts : Exists(account[a]) =>
         account[a].owner \in customers /\ \A n \in account[a].nodes : Exists(node[n])
  <2>1. ASSUME NEW a \in Accounts, Exists(account[a]) PROVE account[a] \in AccountRow
    BY <2>1, <1>1 DEF Exists
  <2>2. ASSUME NEW a \in Accounts, Exists(account[a]), NEW n \in account[a].nodes
        PROVE  Exists(node[n])
    BY <2>1, <2>2 DEF Init, Exists, AccountRow
  <2> QED BY <2>1, <2>2 DEF Init, AccountRow
<1>5. TypeOK
  BY <1>1, <1>2, <1>3, <1>4 DEF TypeOK, Init, Distinct
<1>6. Apart
  BY <1>3, IdleIsSound DEF Apart, ApartFrom
<1>7. NamesKept
  BY <1>2, <1>3, IdleIsSound DEF NamesKept, Overlaid, Distinct
<1>8. AsRequested
  BY DEF Init, AsRequested
<1> QED BY <1>3, <1>5, <1>6, <1>7, <1>8, IdleIsSound DEF CatalogueInv

(***************************************************************************)
(* Steps that leave the rows alone.                                        *)
(***************************************************************************)

LEMMA GotoIs ==
  ASSUME TypeOK, NEW r \in Requests, NEW s, Goto(r, s)
  PROVE  /\ request'[r] = s /\ \A q \in Requests \ {r} : request'[q] = request[q]
         /\ s \in Request => request' \in [Requests -> Request]
  BY DEF Goto, TypeOK

LEMMA QuietInv ==
  ASSUME TypeOK, CatalogueInv, NEW r \in Requests, NEW s \in Request, Goto(r, s),
         UNCHANGED <<customers, node, account, asked>>,
         begun' \in 0 .. MaxRequests, faults' \in 0 .. MaxFaults,
         Sound(s), KeepsEnabled(node, s),
         s.writes = request[r].writes \/ WrittenBy(s) = {}
  PROVE  TypeOK' /\ CatalogueInv'
<1>1. /\ request'[r] = s /\ \A q \in Requests \ {r} : request'[q] = request[q]
      /\ request' \in [Requests -> Request]
  BY GotoIs
<1>2. TypeOK'
  BY <1>1 DEF TypeOK
<1>3. \A q \in Requests : Sound(request'[q]) /\ KeepsEnabled(node', request'[q])
  BY <1>1 DEF CatalogueInv
<1>4. \A q \in Requests :
         \/ request'[q].writes = request[q].writes /\ WrittenBy(request'[q]) = WrittenBy(request[q])
         \/ WrittenBy(request'[q]) = {}
  BY <1>1 DEF WrittenBy
<1>5. Apart'
  <2> SUFFICES ASSUME NEW p \in Requests, NEW q \in Requests, p # q
               PROVE  ApartFrom(request'[p], request'[q])
    BY DEF Apart
  <2>1. ApartFrom(request[p], request[q])
    BY DEF CatalogueInv, Apart
  <2> QED BY <1>4, <2>1 DEF ApartFrom
<1>6. NamesKept'
  <2> SUFFICES ASSUME NEW q \in Requests PROVE Distinct(Overlaid(node, request'[q]))
    BY DEF NamesKept
  <2>1. CASE WrittenBy(request'[q]) = {}
    BY <2>1 DEF Overlaid, Distinct, TypeOK
  <2>2. CASE request'[q].writes = request[q].writes /\ WrittenBy(request'[q]) = WrittenBy(request[q])
    <3>1. Overlaid(node, request'[q]) = Overlaid(node, request[q])
      BY <2>2 DEF Overlaid
    <3> QED BY <3>1 DEF CatalogueInv, NamesKept
  <2> QED BY <2>1, <2>2, <1>4
<1>7. AsRequested'
  BY DEF CatalogueInv, AsRequested
<1> QED BY <1>2, <1>3, <1>5, <1>6, <1>7 DEF CatalogueInv

LEMMA RequestTypes ==
  ASSUME TypeOK, NEW r \in Requests
  PROVE  request[r] \in Request
  BY DEF TypeOK

\* The request ends and what it has not committed is gone.
LEMMA EndInv ==
  ASSUME TypeOK, CatalogueInv, NEW r \in Requests, End(r),
         UNCHANGED <<customers, node, account, asked>>,
         begun' \in 0 .. MaxRequests, faults' \in 0 .. MaxFaults
  PROVE  TypeOK' /\ CatalogueInv'
  BY QuietInv, IdleIsSound DEF End

LEMMA BeginTypes == TypeOK /\ Begin => begun' \in 0 .. MaxRequests
  BY DEF TypeOK, Begin

LEMMA PatchReadInv ==
  ASSUME TypeOK, CatalogueInv, NEW r \in Requests, NEW a \in Accounts, PatchRead(r, a)
  PROVE  TypeOK' /\ CatalogueInv'
<1> DEFINE s == [Idle EXCEPT !.pc = "patch", !.id = a, !.old = account[a]]
<1>1. account[a] \in AccountRow
  BY DEF PatchRead, Exists, TypeOK
<1>2. s \in Request
  BY <1>1, IdleIsSound DEF Request
<1>3. s.pc = "patch" /\ s.id = a /\ s.old = account[a] /\ WrittenBy(s) = {}
  BY DEF Idle, WrittenBy
<1>4. Sound(s) /\ KeepsEnabled(node, s)
  <2> HIDE DEF s
  <2> QED BY <1>1, <1>3 DEF Sound, KeepsEnabled
<1>5. begun' \in 0 .. MaxRequests /\ faults' \in 0 .. MaxFaults
  BY BeginTypes DEF PatchRead, TypeOK
<1>6. Goto(r, s) /\ UNCHANGED <<customers, node, account, asked>>
  BY DEF PatchRead
<1> HIDE DEF s
<1> QED BY <1>2, <1>3, <1>4, <1>5, <1>6, QuietInv

\* The rows that were loaded have names of their own.
LEMMA LoadedRows ==
  ASSUME TypeOK, NEW row \in AccountRow, Loadable(row)
  PROVE  /\ Loaded(row) \in [Nodes -> NodeRow \cup {None}]
         /\ \A n \in row.nodes : Loaded(row)[n] \in NodeRow
         /\ \A m, n \in row.nodes : m # n => Loaded(row)[m].name # Loaded(row)[n].name
<1>1. row.nodes \subseteq Nodes
  BY DEF AccountRow
<1>2. \A n \in row.nodes : node[n] \in NodeRow /\ Exists(node[n])
  BY <1>1 DEF Loadable, Exists, TypeOK
<1> QED BY <1>1, <1>2 DEF Loaded, TypeOK

LEMMA PatchedIsTheBody ==
  ASSUME NEW old \in AccountRow, NEW body \in AccountRow
  PROVE  /\ Patched(old, {c \in Columns : body[c] # old[c]}, body) \in AccountRow
         /\ \A c \in Columns :
               Patched(old, {d \in Columns : body[d] # old[d]}, body)[c] = body[c]
<1> DEFINE row == Patched(old, {c \in Columns : body[c] # old[c]}, body)
<1>1. row = [c \in Columns |-> body[c]]
  BY DEF Patched
<1>2. body = [c \in Columns |-> body[c]]
  BY DEF AccountRow, Columns
<1> QED BY <1>1, <1>2

LEMMA PatchLoadInv ==
  ASSUME TypeOK, CatalogueInv, NEW r \in Requests, PatchLoad(r)
  PROVE  TypeOK' /\ CatalogueInv'
<1> DEFINE q == request[r]
<1>1. q \in Request /\ Sound(q) /\ q.pc = "patch"
  BY RequestTypes DEF PatchLoad, CatalogueInv
<1>2. q.id \in Accounts /\ q.old \in AccountRow /\ WrittenBy(q) = {}
  BY <1>1 DEF Sound
<1>3. begun' \in 0 .. MaxRequests /\ faults' \in 0 .. MaxFaults
      /\ UNCHANGED <<customers, node, account, asked>>
  BY DEF PatchLoad, TypeOK
<1>4. CASE End(r)
  BY <1>3, <1>4, EndInv
<1>5. ASSUME NEW body \in AccountRow, NEW named, NEW row,
             named = {c \in Columns : body[c] # q.old[c]},
             row = Patched(q.old, named, body), Loadable(row),
             Goto(r, [q EXCEPT !.pc = "save", !.row = row, !.named = named, !.loaded = Loaded(row)])
      PROVE  TypeOK' /\ CatalogueInv'
  <2> DEFINE s == [q EXCEPT !.pc = "save", !.row = row, !.named = named, !.loaded = Loaded(row)]
  <2>1. row \in AccountRow /\ named \subseteq Columns
        /\ \A c \in Columns \ named : row[c] = q.old[c]
    BY <1>2, <1>5, PatchedIsTheBody
  <2>2. /\ Loaded(row) \in [Nodes -> NodeRow \cup {None}]
        /\ \A n \in row.nodes : Loaded(row)[n] \in NodeRow
        /\ \A m, n \in row.nodes : m # n => Loaded(row)[m].name # Loaded(row)[n].name
    BY <1>5, <2>1, LoadedRows
  <2>3. s \in Request
    BY <1>1, <2>1, <2>2 DEF Request
  <2>4. /\ s.pc = "save" /\ s.id = q.id /\ s.old = q.old /\ s.row = row /\ s.named = named
        /\ s.loaded = Loaded(row) /\ s.writes = q.writes
    BY <1>1 DEF Request
  <2>5. Goto(r, s)
    BY <1>5
  <2> HIDE DEF s
  <2>6. WrittenBy(s) = {}
    BY <1>2, <2>4 DEF WrittenBy
  <2>7. HasRow(s)
    BY <1>2, <2>1, <2>2, <2>4 DEF HasRow
  <2>8. Sound(s) /\ KeepsEnabled(node, s)
    BY <1>2, <2>1, <2>4, <2>6, <2>7 DEF Sound, KeepsEnabled
  <2> QED BY <1>3, <2>3, <2>5, <2>6, <2>8, QuietInv
<1> QED BY <1>4, <1>5 DEF PatchLoad

LEMMA CreateLoadInv ==
  ASSUME TypeOK, CatalogueInv, NEW r \in Requests, NEW a \in Accounts, CreateLoad(r, a)
  PROVE  TypeOK' /\ CatalogueInv'
<1>1. PICK row \in AccountRow :
         /\ Loadable(row)
         /\ Goto(r, [Idle EXCEPT !.pc = "insert", !.id = a, !.row = row, !.loaded = Loaded(row)])
  BY DEF CreateLoad
<1> DEFINE s == [Idle EXCEPT !.pc = "insert", !.id = a, !.row = row, !.loaded = Loaded(row)]
<1>2. /\ Loaded(row) \in [Nodes -> NodeRow \cup {None}]
      /\ \A n \in row.nodes : Loaded(row)[n] \in NodeRow
      /\ \A m, n \in row.nodes : m # n => Loaded(row)[m].name # Loaded(row)[n].name
  BY <1>1, LoadedRows
<1>3. s \in Request
  BY <1>2, IdleIsSound DEF Request
<1>4. /\ s.pc = "insert" /\ s.id = a /\ s.row = row /\ s.loaded = Loaded(row)
      /\ WrittenBy(s) = {}
  BY DEF Idle, WrittenBy
<1>5. begun' \in 0 .. MaxRequests /\ faults' \in 0 .. MaxFaults
      /\ UNCHANGED <<customers, node, account, asked>>
  BY BeginTypes DEF CreateLoad, TypeOK
<1>6. Goto(r, s)
  BY <1>1
<1> HIDE DEF s
<1>7. HasRow(s)
  BY <1>2, <1>4 DEF HasRow
<1>8. Sound(s) /\ KeepsEnabled(node, s)
  BY <1>4, <1>7 DEF Sound, KeepsEnabled
<1> QED BY <1>3, <1>4, <1>5, <1>6, <1>8, QuietInv

LEMMA NodeReadInv ==
  ASSUME TypeOK, CatalogueInv, NEW r \in Requests, NEW n \in Nodes, NodeRead(r, n)
  PROVE  TypeOK' /\ CatalogueInv'
<1> DEFINE s == [Idle EXCEPT !.pc = "node", !.id = n]
<1>1. s \in Request
  BY IdleIsSound DEF Request
<1>2. s.pc = "node" /\ s.id = n /\ WrittenBy(s) = {}
  BY DEF Idle, WrittenBy
<1>3. begun' \in 0 .. MaxRequests /\ faults' \in 0 .. MaxFaults
      /\ UNCHANGED <<customers, node, account, asked>> /\ Goto(r, s)
  BY BeginTypes DEF NodeRead, TypeOK
<1> HIDE DEF s
<1>4. Sound(s) /\ KeepsEnabled(node, s)
  BY <1>2 DEF Sound, KeepsEnabled
<1> QED BY <1>1, <1>2, <1>3, <1>4, QuietInv

LEMMA BodyFacts ==
  ASSUME NEW body \in Bodies
  PROVE  /\ DOMAIN body = 1 .. Len(body) /\ Len(body) \in Nat /\ Len(body) >= 1
         /\ \A i \in 1 .. Len(body) : body[i] \in Item
         /\ \A i, j \in 1 .. Len(body) : body[i].name = body[j].name => i = j
<1>1. body \in Seq(Item) /\ body # <<>>
      /\ \A i, j \in DOMAIN body : body[i].name = body[j].name => i = j
  OBVIOUS
<1> QED BY <1>1

LEMMA SyncNodesInv ==
  ASSUME TypeOK, CatalogueInv, NEW r \in Requests, SyncNodes(r)
  PROVE  TypeOK' /\ CatalogueInv'
<1>1. PICK body \in Bodies : Goto(r, [Idle EXCEPT !.pc = "look", !.body = body])
  BY DEF SyncNodes
<1> DEFINE s == [Idle EXCEPT !.pc = "look", !.body = body]
<1>2. s \in Request
  BY IdleIsSound DEF Request
<1>3. s.pc = "look" /\ s.body = body /\ s.at = 1 /\ WrittenBy(s) = {}
  BY DEF Idle, WrittenBy
<1>4. begun' \in 0 .. MaxRequests /\ faults' \in 0 .. MaxFaults
      /\ UNCHANGED <<customers, node, account, asked>> /\ Goto(r, s)
  BY <1>1, BeginTypes DEF SyncNodes, TypeOK
<1> HIDE DEF s
<1>5. Entered(s)
  BY <1>3, BodyFacts DEF Entered
<1>6. Sound(s) /\ KeepsEnabled(node, s)
  BY <1>3, <1>5, BodyFacts DEF Sound, KeepsEnabled
<1> QED BY <1>2, <1>3, <1>4, <1>6, QuietInv

LEMMA SeenIsOverlaid ==
  ASSUME NEW r \in Requests
  PROVE  Seen(r) = Overlaid(node, request[r]) /\ Written(r) = WrittenBy(request[r])
  BY DEF Seen, Overlaid, Written, WrittenBy

\* A node that has the name of the next item has not been written yet.
LEMMA FoundUnwritten ==
  ASSUME TypeOK, CatalogueInv, NEW r \in Requests, request[r].pc \in {"look", "write"},
         NEW n \in Nodes, Seen(r)[n].name = TheItem(request[r]).name
  PROVE  n \notin WrittenBy(request[r])
<1> DEFINE q == request[r]
<1>1. Entered(q) /\ q.at <= Len(q.body)
  BY DEF CatalogueInv, Sound
<1>2. SUFFICES ASSUME n \in WrittenBy(q) PROVE FALSE
  OBVIOUS
<1>3. PICK i \in 1 .. q.at - 1 : q.writes[n].name = q.body[i].name
  BY <1>1, <1>2 DEF Entered
<1>4. q.body[i].name = q.body[q.at].name
  BY <1>2, <1>3, SeenIsOverlaid DEF Overlaid, TheItem
<1>5. q.body \in Bodies /\ Len(q.body) \in Nat /\ q.at \in 1 .. Len(q.body)
      /\ i \in 1 .. Len(q.body) /\ i # q.at
  BY <1>1, BodyFacts DEF Entered
<1> QED BY <1>4, <1>5, BodyFacts

LEMMA LookInv ==
  ASSUME TypeOK, CatalogueInv, NEW r \in Requests, Look(r)
  PROVE  TypeOK' /\ CatalogueInv'
<1> DEFINE q == request[r]
<1>1. q \in Request /\ q.pc = "look" /\ Sound(q) /\ KeepsEnabled(node, q)
  BY RequestTypes DEF Look, CatalogueInv
<1>2. begun' \in 0 .. MaxRequests /\ faults' \in 0 .. MaxFaults
      /\ UNCHANGED <<customers, node, account, asked>>
  BY DEF Look, TypeOK
<1>3. ASSUME NEW found, NEW was,
             Goto(r, [q EXCEPT !.pc = "write", !.found = found, !.was = was]),
             \/ found = None /\ was = Unset
             \/ found \in Nodes \ WrittenBy(q) /\ was \in BOOLEAN
      PROVE  TypeOK' /\ CatalogueInv'
  <2> DEFINE s == [q EXCEPT !.pc = "write", !.found = found, !.was = was]
  <2>1. s \in Request
    BY <1>1, <1>3 DEF Request
  <2>2. /\ s.pc = "write" /\ s.found = found /\ s.was = was
        /\ s.writes = q.writes /\ s.body = q.body /\ s.at = q.at /\ s.moved = q.moved
    BY <1>1 DEF Request
  <2>3. Goto(r, s)
    BY <1>3
  <2> HIDE DEF s
  <2> HIDE DEF q
  <2>a. WrittenBy(s) = WrittenBy(q)
    BY <2>2 DEF WrittenBy
  <2>b. Entered(s) /\ s.at <= Len(s.body)
    BY <1>1, <2>2, <2>a DEF Entered, Sound
  <2>c. KeepsEnabled(node, s)
    BY <1>1, <2>2, <2>a DEF KeepsEnabled
  <2>4. Entered(s) /\ KeepsEnabled(node, s) /\ WrittenBy(s) = WrittenBy(q) /\ s.at <= Len(s.body)
    BY <2>a, <2>b, <2>c
  <2>5. Sound(s)
    BY <1>3, <2>2, <2>4 DEF Sound
  <2> QED BY <1>2, <2>1, <2>2, <2>3, <2>4, <2>5, QuietInv DEF q
<1>4. ASSUME NEW n \in Nodes, Exists(Seen(r)[n]), Seen(r)[n].name = TheItem(q).name
      PROVE  n \notin WrittenBy(q) /\ Seen(r)[n].enabled \in BOOLEAN
  <2>1. n \notin WrittenBy(q)
    BY <1>1, <1>4, FoundUnwritten
  <2>2. Seen(r)[n] \in NodeRow
    BY <1>4, <2>1, SeenIsOverlaid DEF Overlaid, Exists, TypeOK
  <2> QED BY <2>1, <2>2 DEF NodeRow
<1>5. CASE Goto(r, [q EXCEPT !.pc = "write", !.found = None, !.was = Unset])
  BY <1>3, <1>5
<1>6. ASSUME NEW n \in Nodes, Exists(Seen(r)[n]), Seen(r)[n].name = TheItem(q).name,
             Goto(r, [q EXCEPT !.pc = "write", !.found = n, !.was = Seen(r)[n].enabled])
      PROVE  TypeOK' /\ CatalogueInv'
  BY <1>3, <1>4, <1>6
<1> QED BY <1>5, <1>6 DEF Look

LEMMA GiveUpInv ==
  ASSUME TypeOK, CatalogueInv, NEW r \in Requests, WriteRefused(r) \/ Deadlock(r) \/ Fail(r)
  PROVE  TypeOK' /\ CatalogueInv'
<1>1. begun' \in 0 .. MaxRequests /\ faults' \in 0 .. MaxFaults
      /\ UNCHANGED <<customers, node, account, asked>> /\ End(r)
  BY DEF WriteRefused, Deadlock, Fail, TypeOK
<1> QED BY <1>1, EndInv

(***************************************************************************)
(* Writing a node of a sync, and committing.                               *)
(***************************************************************************)

\* What is written is what the item says, and enabled as it was read or given.
LEMMA UpsertedFits ==
  ASSUME TypeOK, CatalogueInv, NEW r \in Requests, request[r].pc = "write"
  PROVE  /\ Fits(Upserted(request[r]), TheItem(request[r]))
         /\ TheItem(request[r]).enabled = Unset /\ request[r].was # Unset
               => Upserted(request[r]).enabled = request[r].was
<1> DEFINE q == request[r]
<1>1. Entered(q) /\ q.at <= Len(q.body) /\ q.was \in BOOLEAN \cup {Unset}
  BY DEF CatalogueInv, Sound
<1>2. q.body \in Bodies /\ q.at \in 1 .. Len(q.body)
  BY <1>1, BodyFacts DEF Entered
<1>3. TheItem(q) \in Item
  BY <1>2, BodyFacts DEF TheItem
<1> QED BY <1>1, <1>3 DEF Upserted, Enabled, Fits, Item, NodeRow

LEMMA WriteInv ==
  ASSUME TypeOK, CatalogueInv, NEW r \in Requests, Write(r)
  PROVE  TypeOK' /\ CatalogueInv'
<1> DEFINE q == request[r]
           row == Upserted(q)
<1>1. q \in Request /\ q.pc = "write" /\ Sound(q) /\ KeepsEnabled(node, q) /\ Entered(q)
      /\ q.at <= Len(q.body)
  BY RequestTypes DEF Write, CatalogueInv, Sound
<1>2. begun' \in 0 .. MaxRequests /\ faults' \in 0 .. MaxFaults
      /\ UNCHANGED <<customers, node, account, asked>>
  BY DEF Write, TypeOK
<1>3. PICK n \in Targets(r) :
         /\ Settled(r, n, TheItem(q).name)
         /\ FreeName(Seen(r), n, TheItem(q).name)
         /\ Goto(r, [AfterWrite(r, n, q) EXCEPT !.writes[n] = Upserted(q)])
  BY DEF Write
<1> DEFINE s == [AfterWrite(r, n, q) EXCEPT !.writes[n] = Upserted(q)]
<1>4. Fits(row, TheItem(q)) /\ row \in NodeRow
  BY <1>1, UpsertedFits DEF Fits
<1>5. n \in Nodes \ WrittenBy(q)
  BY <1>1, <1>3, SeenIsOverlaid DEF Targets, Sound, Overlaid, WrittenBy
<1>6. q.body \in Bodies /\ q.at \in 1 .. Len(q.body) /\ Len(q.body) \in Nat
  BY <1>1, BodyFacts DEF Entered
<1>7. /\ s.pc = IF q.at < Len(q.body) THEN "look" ELSE "commit"
      /\ s.at = q.at + 1 /\ s.body = q.body
      /\ s.writes = [q.writes EXCEPT ![n] = row]
      /\ s.moved = IF q.was # Unset /\ Exists(node[n]) /\ node[n].enabled # q.was
                   THEN q.moved \cup {n} ELSE q.moved
  BY <1>1 DEF AfterWrite, Request
<1>8. s \in Request
  <2> DEFINE t == AfterWrite(r, n, q)
  <2>1. t \in Request
    <3> DEFINE pc == IF q.at < Len(q.body) THEN "look" ELSE "commit"
               moved == IF q.was # Unset /\ Exists(node[n]) /\ node[n].enabled # q.was
                        THEN q.moved \cup {n} ELSE q.moved
    <3>1. pc \in {"look", "commit"} /\ q.at + 1 \in Nat \ {0}
      BY <1>6
    <3>2. moved \in SUBSET Nodes
      BY <1>1, <1>5 DEF Request
    <3>3. t = [q EXCEPT !.pc = pc, !.at = q.at + 1, !.found = None, !.was = Unset,
                        !.moved = moved]
      BY DEF AfterWrite
    <3> HIDE DEF pc, moved, t, q
    <3> QED BY <1>1, <3>1, <3>2, <3>3 DEF Request
  <2>2. s = [t EXCEPT !.writes[n] = row]
    OBVIOUS
  <2> HIDE DEF t, s, row
  <2>3. [t.writes EXCEPT ![n] = row] \in [Nodes -> NodeRow \cup {None}]
    BY <2>1, <1>4 DEF Request
  <2> QED BY <2>1, <2>2, <2>3 DEF Request
<1>9. Goto(r, s)
  BY <1>3
<1> HIDE DEF s
<1> HIDE DEF row
<1>10. WrittenBy(s) = WrittenBy(q) \cup {n}
  BY <1>1, <1>4, <1>5, <1>7 DEF WrittenBy, Request
<1>11. s.writes[n] = row /\ \A m \in Nodes \ {n} : s.writes[m] = q.writes[m]
  BY <1>1, <1>5, <1>7 DEF Request
<1>12. Entered(s)
  <2>1. ASSUME NEW i \in 1 .. s.at - 1
        PROVE  \E m \in Nodes : Fits(s.writes[m], s.body[i])
    <3>1. CASE i = q.at
      BY <3>1, <1>4, <1>5, <1>7, <1>11 DEF TheItem
    <3>2. CASE i # q.at
      <4>1. i \in 1 .. q.at - 1
        BY <3>2, <1>6, <1>7
      <4>2. PICK m \in Nodes : Fits(q.writes[m], q.body[i])
        BY <4>1, <1>1 DEF Entered
      <4>3. m # n
        BY <4>2, <1>5 DEF Fits, WrittenBy
      <4> QED BY <4>2, <4>3, <1>7, <1>11
    <3> QED BY <3>1, <3>2
  <2>2. ASSUME NEW m \in WrittenBy(s)
        PROVE  \E i \in 1 .. s.at - 1 : s.writes[m].name = s.body[i].name
    <3>1. CASE m = n
      <4>1. q.at \in 1 .. s.at - 1
        BY <1>6, <1>7
      <4> QED BY <3>1, <4>1, <1>4, <1>7, <1>11 DEF Fits, TheItem
    <3>2. CASE m # n
      <4>1. PICK i \in 1 .. q.at - 1 : q.writes[m].name = q.body[i].name
        BY <3>2, <1>1, <1>10 DEF Entered
      <4>2. i \in 1 .. s.at - 1
        BY <1>6, <1>7
      <4> QED BY <3>2, <4>1, <4>2, <1>7, <1>10, <1>11 DEF WrittenBy
    <3> QED BY <3>1, <3>2
  <2>3. s.body \in Bodies /\ s.at \in 1 .. Len(s.body) + 1
    BY <1>6, <1>7
  <2> QED BY <2>1, <2>2, <2>3 DEF Entered
<1>13. Sound(s)
  <2>1. s.pc \in {"look", "commit"} /\ (s.pc = "look" => s.at <= Len(s.body))
        /\ (s.pc = "commit" => s.at = Len(s.body) + 1)
    BY <1>6, <1>7
  <2> QED BY <2>1, <1>12 DEF Sound
<1>14. KeepsEnabled(node, s)
  <2> SUFFICES ASSUME NEW m \in WrittenBy(s) \ s.moved, NEW i \in DOMAIN s.body,
                      s.body[i].enabled = Unset, s.writes[m].name = s.body[i].name,
                      Exists(node[m])
               PROVE  s.writes[m].enabled = node[m].enabled
    BY DEF KeepsEnabled
  <2>1. CASE m # n
    <3>1. m \in WrittenBy(q) \ q.moved
      BY <2>1, <1>7, <1>10
    <3> QED BY <2>1, <3>1, <1>1, <1>7, <1>11 DEF KeepsEnabled, WrittenBy
  <2>2. CASE m = n
    <3>1. q.body[i].name = q.body[q.at].name /\ i \in 1 .. Len(q.body)
      BY <2>2, <1>4, <1>6, <1>7, <1>11, BodyFacts DEF Fits, TheItem
    <3>2. i = q.at
      BY <3>1, <1>6, BodyFacts
    <3>3. TheItem(q).enabled = Unset
      BY <3>2, <1>7 DEF TheItem
    <3>4. q.was # Unset
      <4>1. q.found # None
        BY <1>3, <2>2, <1>5, SeenIsOverlaid DEF Targets, Overlaid, Exists
      <4> QED BY <4>1, <1>1 DEF Sound
    <3>5. node[n].enabled = q.was
      BY <2>2, <3>4, <1>7
    <3> QED BY <2>2, <3>3, <3>4, <3>5, <1>1, <1>11, UpsertedFits DEF row
  <2> QED BY <2>1, <2>2
<1>15. /\ request'[r] = s /\ \A p \in Requests \ {r} : request'[p] = request[p]
       /\ request' \in [Requests -> Request]
  BY <1>8, <1>9, GotoIs
<1>16. TypeOK'
  BY <1>2, <1>15 DEF TypeOK
<1>17. ASSUME NEW p \in Requests \ {r}, NEW m \in WrittenBy(request[p])
       PROVE  m # n /\ request[p].writes[m].name # row.name
  BY <1>3, <1>4, <1>17, SeenIsOverlaid DEF Settled, Waits, Fits, WrittenBy
<1>18. Apart'
  <2> SUFFICES ASSUME NEW p1 \in Requests, NEW p2 \in Requests, p1 # p2
               PROVE  ApartFrom(request'[p1], request'[p2])
    BY DEF Apart
  <2>1. ApartFrom(request[p1], request[p2])
    BY DEF CatalogueInv, Apart
  <2>2. CASE p1 # r /\ p2 # r
    BY <2>1, <2>2, <1>15
  <2>3. CASE p1 = r
    BY <2>1, <2>3, <1>10, <1>11, <1>15, <1>17 DEF ApartFrom, WrittenBy
  <2>4. CASE p2 = r
    BY <2>1, <2>4, <1>10, <1>11, <1>15, <1>17 DEF ApartFrom, WrittenBy
  <2> QED BY <2>2, <2>3, <2>4
<1>19. NamesKept'
  <2> SUFFICES ASSUME NEW p \in Requests PROVE Distinct(Overlaid(node, request'[p]))
    BY <1>2 DEF NamesKept
  <2>1. Distinct(Overlaid(node, request[p]))
    BY DEF CatalogueInv, NamesKept
  <2>2. CASE p # r
    BY <2>1, <2>2, <1>15
  <2>3. CASE p = r
    <3>1. Overlaid(node, s) = [Overlaid(node, q) EXCEPT ![n] = row]
      BY <1>5, <1>10, <1>11 DEF Overlaid
    <3>2. \A m \in Nodes \ {n} : Exists(Overlaid(node, q)[m]) => Overlaid(node, q)[m].name # row.name
      BY <1>3, <1>4, SeenIsOverlaid DEF FreeName, Fits
    <3>3. DOMAIN Overlaid(node, q) = Nodes
      BY DEF Overlaid
    <3> DEFINE rows == Overlaid(node, q)
    <3>4. Distinct(rows) /\ DOMAIN rows = Nodes
          /\ \A m \in Nodes \ {n} : Exists(rows[m]) => rows[m].name # row.name
      BY <2>1, <2>3, <3>2, <3>3
    <3> HIDE DEF rows
    <3>5. Distinct([rows EXCEPT ![n] = row])
      BY <3>4, <1>5 DEF Distinct
    <3> QED BY <2>3, <3>1, <3>5, <1>15 DEF rows
  <2> QED BY <2>2, <2>3
<1>20. \A p \in Requests : Sound(request'[p]) /\ KeepsEnabled(node', request'[p])
  BY <1>2, <1>13, <1>14, <1>15 DEF CatalogueInv
<1>21. AsRequested'
  BY <1>2 DEF CatalogueInv, AsRequested
<1> QED BY <1>16, <1>18, <1>19, <1>20, <1>21 DEF CatalogueInv

(***************************************************************************)
(* Steps that change the rows outside the open transactions.               *)
(***************************************************************************)

LEMMA RowsInv ==
  ASSUME TypeOK, CatalogueInv, Distinct(node'),
         \A q \in Requests : request'[q] \in {request[q], Idle},
         \A n \in Nodes, q \in Requests : node'[n] # node[n] =>
            /\ n \notin WrittenBy(request[q])
            /\ Exists(node'[n]) =>
                  \A m \in WrittenBy(request[q]) : request[q].writes[m].name # node'[n].name
  PROVE  Apart' /\ NamesKept' /\ \A q \in Requests : Sound(request'[q]) /\ KeepsEnabled(node', request'[q])
<1>1. ASSUME NEW q \in Requests
      PROVE  Sound(request'[q]) /\ KeepsEnabled(node', request'[q])
  <2>1. CASE request'[q] = Idle
    BY <2>1, IdleIsSound
  <2>2. CASE request'[q] = request[q]
    <3>1. Sound(request[q]) /\ KeepsEnabled(node, request[q])
      BY DEF CatalogueInv
    <3>2. \A n \in WrittenBy(request[q]) : node'[n] = node[n]
      BY DEF WrittenBy
    <3> QED BY <2>2, <3>1, <3>2 DEF KeepsEnabled
  <2> QED BY <2>1, <2>2
<1>2. Apart'
  <2> SUFFICES ASSUME NEW p \in Requests, NEW q \in Requests, p # q
               PROVE  ApartFrom(request'[p], request'[q])
    BY DEF Apart
  <2>1. ApartFrom(request[p], request[q])
    BY DEF CatalogueInv, Apart
  <2> QED BY <2>1, IdleIsSound DEF ApartFrom
<1>3. NamesKept'
  <2> SUFFICES ASSUME NEW q \in Requests PROVE Distinct(Overlaid(node', request'[q]))
    BY DEF NamesKept
  <2>1. CASE request'[q] = Idle
    BY <2>1, IdleIsSound DEF Overlaid, Distinct
  <2>2. CASE request'[q] = request[q]
    <3>1. Distinct(Overlaid(node, request[q]))
      BY DEF CatalogueInv, NamesKept
    <3> SUFFICES ASSUME NEW m \in Nodes, NEW n \in Nodes, m # n,
                        Exists(Overlaid(node', request[q])[m]),
                        Exists(Overlaid(node', request[q])[n])
                 PROVE  Overlaid(node', request[q])[m].name # Overlaid(node', request[q])[n].name
      BY <2>2 DEF Distinct
    <3>2. CASE m \notin WrittenBy(request[q]) /\ n \notin WrittenBy(request[q])
      BY <3>2 DEF Overlaid, Distinct
    <3>3. CASE m \in WrittenBy(request[q]) /\ n \in WrittenBy(request[q])
      BY <3>1, <3>3 DEF Overlaid, Distinct
    <3>4. ASSUME NEW v \in WrittenBy(request[q]), NEW w \in Nodes \ WrittenBy(request[q]),
                 Exists(node'[w]), Exists(request[q].writes[v])
          PROVE  request[q].writes[v].name # node'[w].name
      <4>1. CASE node'[w] # node[w]
        BY <3>4, <4>1
      <4>2. CASE node'[w] = node[w]
        <5>1. v \in Nodes
          BY DEF WrittenBy
        <5> QED BY <3>1, <3>4, <4>2, <5>1 DEF Overlaid, Distinct
      <4> QED BY <4>1, <4>2
    <3> QED BY <3>2, <3>3, <3>4 DEF Overlaid
  <2> QED BY <2>1, <2>2
<1> QED BY <1>1, <1>2, <1>3

\* The owner and the nodes of every account.
References ==
    \A a \in Accounts : Exists(account[a]) =>
       account[a].owner \in customers /\ \A n \in account[a].nodes : Exists(node[n])

\* The rows that WriteAccount leaves behind.
LEMMA WriteAccountInv ==
  ASSUME TypeOK, CatalogueInv, NEW r \in Requests, request[r].pc \in {"save", "insert"},
         WriteAccount(r), UNCHANGED <<customers, begun, faults>>
  PROVE  /\ account' \in [Accounts -> AccountRow \cup {None, Gone}]
         /\ node' \in [Nodes -> NodeRow \cup {None, Gone}]
         /\ Distinct(node') /\ References'
         /\ request' \in [Requests -> Request]
         /\ Apart' /\ NamesKept'
         /\ \A q \in Requests : Sound(request'[q]) /\ KeepsEnabled(node', request'[q])
         /\ account' # account => account' = [account EXCEPT ![request[r].id] = request[r].row]
<1> DEFINE q == request[r]
<1>1. WrittenBy(q) = {} /\ HasRow(q)
  BY DEF CatalogueInv, Sound
<1>2. request' \in [Requests -> Request] /\ \A p \in Requests : request'[p] \in {request[p], Idle}
  BY GotoIs, IdleIsSound DEF WriteAccount, End
<1>3. Distinct(node) /\ References
  BY DEF TypeOK, Distinct, References
<1>4. CASE UNCHANGED <<account, node>>
  <2>1. Apart' /\ NamesKept' /\ \A p \in Requests : Sound(request'[p]) /\ KeepsEnabled(node', request'[p])
    BY <1>2, <1>3, <1>4, RowsInv
  <2> QED BY <1>2, <1>3, <1>4, <2>1 DEF TypeOK, References
<1>5. CASE /\ q.row.owner \in customers /\ Replaceable(r)
           /\ account' = [account EXCEPT ![q.id] = q.row] /\ Replace(q)
  <2>1. /\ Missing(q) \subseteq q.row.nodes /\ q.row.nodes \subseteq Nodes
        /\ \A n \in Missing(q) : q.loaded[n] \in NodeRow
        /\ \A n \in q.row.nodes \ Missing(q) : Exists(node[n])
    BY <1>1 DEF Missing, HasRow, AccountRow
  <2>2. \A n \in Nodes : node'[n] = IF n \in Missing(q) THEN q.loaded[n] ELSE node[n]
    BY <1>5 DEF Replace
  <2>3. node' \in [Nodes -> NodeRow \cup {None, Gone}]
    BY <1>5, <2>1 DEF Replace, TypeOK
  <2>4. account' \in [Accounts -> AccountRow \cup {None, Gone}]
    BY <1>1, <1>5 DEF HasRow, TypeOK
  <2>5. ASSUME NEW n \in Missing(q)
        PROVE  \A m \in Nodes \ {n} : Exists(node[m]) => node[m].name # q.loaded[n].name
    BY <1>5, <2>1 DEF Replaceable, FreeName
  <2>6. Distinct(node')
    <3> SUFFICES ASSUME NEW m \in Nodes, NEW n \in Nodes, m # n, Exists(node'[m]), Exists(node'[n])
                 PROVE  node'[m].name # node'[n].name
      BY DEF Distinct
    <3>1. CASE m \in Missing(q) /\ n \in Missing(q)
      BY <3>1, <1>1, <2>1, <2>2 DEF HasRow
    <3>2. CASE m \in Missing(q) /\ n \notin Missing(q)
      BY <3>2, <2>2, <2>5
    <3>3. CASE m \notin Missing(q) /\ n \in Missing(q)
      BY <3>3, <2>2, <2>5
    <3>4. CASE m \notin Missing(q) /\ n \notin Missing(q)
      BY <3>4, <1>3, <2>2 DEF Distinct
    <3> QED BY <3>1, <3>2, <3>3, <3>4
  <2>7. ASSUME NEW n \in Nodes, NEW p \in Requests, node'[n] # node[n]
        PROVE  /\ n \notin WrittenBy(request[p])
               /\ \A m \in WrittenBy(request[p]) : request[p].writes[m].name # node'[n].name
    <3>1. n \in Missing(q) /\ node'[n] = q.loaded[n]
      BY <2>2, <2>7
    <3>2. Settled(r, n, q.loaded[n].name)
      BY <3>1 DEF WriteAccount, ReplaceSettled
    <3>3. p # r => ~Waits(r, n, q.loaded[n].name, p)
      BY <3>2 DEF Settled
    <3> QED BY <1>1, <3>1, <3>3 DEF Waits, Written, WrittenBy
  <2>8. Apart' /\ NamesKept' /\ \A p \in Requests : Sound(request'[p]) /\ KeepsEnabled(node', request'[p])
    BY <1>2, <2>6, <2>7, RowsInv
  <2>9. References'
    <3>1. \A n \in Nodes : Exists(node[n]) => Exists(node'[n])
      BY <2>1, <2>2 DEF Exists
    <3>2. \A n \in q.row.nodes : Exists(node'[n])
      BY <2>1, <2>2, <3>1 DEF Exists
    <3> SUFFICES ASSUME NEW a \in Accounts, Exists(account'[a])
                 PROVE  account'[a].owner \in customers /\ \A n \in account'[a].nodes : Exists(node'[n])
      BY DEF References, Exists
    <3>3. CASE a = q.id
      BY <3>2, <3>3, <1>1, <1>5 DEF HasRow, TypeOK
    <3>4. CASE a # q.id
      <4>1. account'[a] = account[a] /\ account[a] \in AccountRow
        BY <3>4, <1>1, <1>5 DEF HasRow, TypeOK, Exists
      <4> QED BY <3>1, <4>1, <1>3 DEF References, AccountRow
    <3> QED BY <3>3, <3>4
  <2> QED BY <1>2, <1>5, <2>3, <2>4, <2>6, <2>8, <2>9
<1> QED BY <1>4, <1>5 DEF WriteAccount

LEMMA TypesFrom ==
  ASSUME customers' \subseteq Customers, node' \in [Nodes -> NodeRow \cup {None, Gone}],
         account' \in [Accounts -> AccountRow \cup {None, Gone}], Distinct(node'), References',
         request' \in [Requests -> Request],
         asked' \in [Accounts -> AccountRow \cup {None, Gone, Muddled}],
         begun' \in 0 .. MaxRequests, faults' \in 0 .. MaxFaults
  PROVE  TypeOK'
  BY DEF TypeOK, References, Distinct, Exists

LEMMA PatchSaveInv ==
  ASSUME TypeOK, CatalogueInv, NEW r \in Requests, PatchSave(r)
  PROVE  TypeOK' /\ CatalogueInv'
<1> DEFINE q == request[r]
<1>1. /\ q.pc = "save" /\ WriteAccount(r) /\ UNCHANGED <<customers, begun, faults>>
      /\ asked' = IF account' = account THEN asked
                  ELSE [asked EXCEPT ![q.id] =
                          IF account[q.id] # q.old \/ @ = Muddled THEN Muddled
                          ELSE [c \in Columns |-> IF c \in q.named THEN q.row[c] ELSE @[c]]]
  BY DEF PatchSave
<1>2. /\ account' \in [Accounts -> AccountRow \cup {None, Gone}]
      /\ node' \in [Nodes -> NodeRow \cup {None, Gone}]
      /\ Distinct(node') /\ References' /\ request' \in [Requests -> Request]
      /\ Apart' /\ NamesKept'
      /\ \A p \in Requests : Sound(request'[p]) /\ KeepsEnabled(node', request'[p])
      /\ account' # account => account' = [account EXCEPT ![q.id] = q.row]
  BY <1>1, WriteAccountInv
<1>3. /\ q.id \in Accounts /\ q.row \in AccountRow /\ q.old \in AccountRow
      /\ \A c \in Columns \ q.named : q.row[c] = q.old[c]
  BY <1>1 DEF CatalogueInv, Sound, HasRow
<1>4. asked \in [Accounts -> AccountRow \cup {None, Gone, Muddled}]
      /\ \A a \in Accounts : asked[a] \in {Muddled, account[a]}
  BY DEF TypeOK, CatalogueInv, AsRequested
<1>5. /\ asked' \in [Accounts -> AccountRow \cup {None, Gone, Muddled}]
      /\ \A a \in Accounts : asked'[a] \in {Muddled, account'[a]}
  <2>1. CASE account' = account
    BY <2>1, <1>1, <1>4
  <2>2. CASE account' # account
    <3> DEFINE said == IF account[q.id] # q.old \/ asked[q.id] = Muddled THEN Muddled
                       ELSE [c \in Columns |-> IF c \in q.named THEN q.row[c] ELSE asked[q.id][c]]
    <3>1. asked' = [asked EXCEPT ![q.id] = said]
      BY <2>2, <1>1
    <3>2. said \in {Muddled, q.row}
      <4>1. CASE account[q.id] # q.old \/ asked[q.id] = Muddled
        BY <4>1
      <4>2. CASE account[q.id] = q.old /\ asked[q.id] # Muddled
        <5>1. asked[q.id] = q.old
          BY <4>2, <1>3, <1>4
        <5>2. said = [c \in Columns |-> q.row[c]]
          BY <4>2, <5>1, <1>3
        <5>3. q.row = [c \in Columns |-> q.row[c]]
          BY <1>3 DEF AccountRow, Columns
        <5> QED BY <5>2, <5>3
      <4> QED BY <4>1, <4>2
    <3> HIDE DEF said, q
    <3> QED BY <2>2, <3>1, <3>2, <1>2, <1>3, <1>4 DEF TypeOK
  <2> QED BY <2>1, <2>2
<1>6. TypeOK'
  <2>1. customers' \subseteq Customers /\ begun' \in 0 .. MaxRequests /\ faults' \in 0 .. MaxFaults
    BY <1>1 DEF TypeOK
  <2> QED BY <2>1, <1>2, <1>5, TypesFrom
<1> QED BY <1>2, <1>5, <1>6 DEF CatalogueInv, AsRequested

LEMMA CreateInsertInv ==
  ASSUME TypeOK, CatalogueInv, NEW r \in Requests, CreateInsert(r)
  PROVE  TypeOK' /\ CatalogueInv'
<1> DEFINE q == request[r]
<1>1. /\ q.pc = "insert" /\ WriteAccount(r) /\ UNCHANGED <<customers, begun, faults>>
      /\ asked' = [asked EXCEPT ![q.id] = account'[q.id]]
  BY DEF CreateInsert
<1>2. /\ account' \in [Accounts -> AccountRow \cup {None, Gone}]
      /\ node' \in [Nodes -> NodeRow \cup {None, Gone}]
      /\ Distinct(node') /\ References' /\ request' \in [Requests -> Request]
      /\ Apart' /\ NamesKept'
      /\ \A p \in Requests : Sound(request'[p]) /\ KeepsEnabled(node', request'[p])
      /\ account' # account => account' = [account EXCEPT ![q.id] = q.row]
  BY <1>1, WriteAccountInv
<1>3. q.id \in Accounts
  BY <1>1 DEF CatalogueInv, Sound, HasRow
<1>4. \A a \in Accounts \ {q.id} : account'[a] = account[a]
  BY <1>2 DEF TypeOK
<1>5. /\ asked' \in [Accounts -> AccountRow \cup {None, Gone, Muddled}]
      /\ \A a \in Accounts : asked'[a] \in {Muddled, account'[a]}
  <2> HIDE DEF q
  <2>1. /\ asked \in [Accounts -> AccountRow \cup {None, Gone, Muddled}]
        /\ \A a \in Accounts : asked[a] \in {Muddled, account[a]}
    BY DEF TypeOK, CatalogueInv, AsRequested
  <2>2. account'[q.id] \in AccountRow \cup {None, Gone, Muddled}
    BY <1>2, <1>3
  <2> QED BY <1>1, <1>3, <1>4, <2>1, <2>2
<1>6. TypeOK'
  <2>1. customers' \subseteq Customers /\ begun' \in 0 .. MaxRequests /\ faults' \in 0 .. MaxFaults
    BY <1>1 DEF TypeOK
  <2> QED BY <2>1, <1>2, <1>5, TypesFrom
<1> QED BY <1>2, <1>5, <1>6 DEF CatalogueInv, AsRequested

\* Rows of accounts go.
LEMMA DeletesInv ==
  ASSUME TypeOK, CatalogueInv,
         (\E a \in Accounts : DeleteAccount(a)) \/ (\E c \in Customers : DeleteCustomer(c))
  PROVE  TypeOK' /\ CatalogueInv'
<1>1. /\ UNCHANGED <<node, request, faults>> /\ begun' \in 0 .. MaxRequests
      /\ customers' \subseteq customers
  BY BeginTypes DEF DeleteAccount, DeleteCustomer
<1> DEFINE Goes ==
      /\ account' \in [Accounts -> AccountRow \cup {None, Gone}]
      /\ asked' \in [Accounts -> AccountRow \cup {None, Gone, Muddled}]
      /\ \A a \in Accounts : \/ account'[a] = Gone /\ asked'[a] = Gone
                             \/ account'[a] = account[a] /\ asked'[a] = asked[a]
<1>2. Goes
  <2>1. ASSUME NEW a \in Accounts, DeleteAccount(a) PROVE Goes
    BY <2>1 DEF DeleteAccount, TypeOK
  <2>2. ASSUME NEW c \in Customers, DeleteCustomer(c) PROVE Goes
    BY <2>2 DEF DeleteCustomer, TypeOK
  <2> QED BY <2>1, <2>2
<1>3. \A a \in Accounts : Exists(account'[a]) =>
         account'[a] = account[a] /\ account[a].owner \in customers'
  <2> SUFFICES ASSUME NEW a \in Accounts, Exists(account'[a])
               PROVE  account'[a] = account[a] /\ account[a].owner \in customers'
    OBVIOUS
  <2>1. account'[a] = account[a] /\ account[a].owner \in customers
    BY <1>2 DEF Exists, TypeOK
  <2>2. CASE \E b \in Accounts : DeleteAccount(b)
    BY <2>1, <2>2 DEF DeleteAccount
  <2>3. ASSUME NEW c \in Customers, DeleteCustomer(c)
        PROVE  account[a].owner # c
    BY <2>1, <2>3 DEF DeleteCustomer, Exists
  <2> QED BY <2>1, <2>2, <2>3 DEF DeleteCustomer
<1>4. Distinct(node') /\ References'
  <2>1. Distinct(node') /\ References
    BY <1>1 DEF TypeOK, Distinct, References
  <2> QED BY <1>1, <1>3, <2>1 DEF References, Exists
<1>5. TypeOK'
  <2>1. /\ customers' \subseteq Customers /\ faults' \in 0 .. MaxFaults
        /\ node' \in [Nodes -> NodeRow \cup {None, Gone}] /\ request' \in [Requests -> Request]
    BY <1>1 DEF TypeOK
  <2> QED BY <2>1, <1>1, <1>2, <1>4, TypesFrom
<1>6. AsRequested'
  BY <1>2 DEF CatalogueInv, AsRequested
<1>7. Apart' /\ NamesKept' /\ \A q \in Requests : Sound(request'[q]) /\ KeepsEnabled(node', request'[q])
  BY <1>1 DEF CatalogueInv, Apart, NamesKept
<1> QED BY <1>5, <1>6, <1>7 DEF CatalogueInv

LEMMA CreateNodeInv ==
  ASSUME TypeOK, CatalogueInv, NEW n \in Nodes, CreateNode(n)
  PROVE  TypeOK' /\ CatalogueInv'
<1>1. PICK row \in NodeRow :
         /\ \A r \in Requests : \A m \in Written(r) : request[r].writes[m].name # row.name
         /\ FreeName(node, n, row.name)
         /\ node' = [node EXCEPT ![n] = row]
  BY DEF CreateNode
<1>2. /\ UNCHANGED <<customers, account, request, asked, faults>>
      /\ begun' \in 0 .. MaxRequests
      /\ \A r \in Requests : n \notin Written(r)
  BY BeginTypes DEF CreateNode
<1>3. node' \in [Nodes -> NodeRow \cup {None, Gone}] /\ node'[n] = row
      /\ \A m \in Nodes \ {n} : node'[m] = node[m]
  BY <1>1 DEF TypeOK
<1>4. Distinct(node')
  BY <1>1, <1>3 DEF TypeOK, Distinct, FreeName
<1>5. References'
  BY <1>1, <1>2, <1>3 DEF TypeOK, References, Exists, AccountRow
<1>6. TypeOK'
  <2>1. /\ customers' \subseteq Customers /\ faults' \in 0 .. MaxFaults
        /\ account' \in [Accounts -> AccountRow \cup {None, Gone}]
        /\ request' \in [Requests -> Request]
        /\ asked' \in [Accounts -> AccountRow \cup {None, Gone, Muddled}]
    BY <1>2 DEF TypeOK
  <2> QED BY <2>1, <1>2, <1>3, <1>4, <1>5, TypesFrom
<1>7. Apart' /\ NamesKept' /\ \A q \in Requests : Sound(request'[q]) /\ KeepsEnabled(node', request'[q])
  BY <1>1, <1>2, <1>3, <1>4, RowsInv DEF Written, WrittenBy
<1> QED BY <1>2, <1>6, <1>7 DEF CatalogueInv, AsRequested

LEMMA DeleteNodeInv ==
  ASSUME TypeOK, CatalogueInv, NEW n \in Nodes, DeleteNode(n)
  PROVE  TypeOK' /\ CatalogueInv'
<1> DEFINE Unbound(rows) == [a \in Accounts |->
               IF rows[a] \in AccountRow THEN [rows[a] EXCEPT !.nodes = @ \ {n}] ELSE rows[a]]
<1>1. /\ UNCHANGED <<customers, request, faults>> /\ begun' \in 0 .. MaxRequests
      /\ \A r \in Requests : n \notin Written(r)
      /\ node' = [node EXCEPT ![n] = Gone]
      /\ account' = Unbound(account) /\ asked' = Unbound(asked)
  BY BeginTypes DEF DeleteNode
<1>2. node' \in [Nodes -> NodeRow \cup {None, Gone}] /\ node'[n] = Gone
      /\ \A m \in Nodes \ {n} : node'[m] = node[m]
  BY <1>1 DEF TypeOK
<1>3. Distinct(node')
  BY <1>2 DEF TypeOK, Distinct, Exists
<1>4. \A row \in AccountRow : /\ [row EXCEPT !.nodes = @ \ {n}] \in AccountRow
                              /\ [row EXCEPT !.nodes = @ \ {n}].owner = row.owner
                              /\ [row EXCEPT !.nodes = @ \ {n}].nodes = row.nodes \ {n}
  BY DEF AccountRow
<1>5. /\ account' \in [Accounts -> AccountRow \cup {None, Gone}]
      /\ asked' \in [Accounts -> AccountRow \cup {None, Gone, Muddled}]
  BY <1>1, <1>4 DEF TypeOK
<1>6. AsRequested'
  BY <1>1 DEF CatalogueInv, AsRequested
<1>7. References'
  <2> SUFFICES ASSUME NEW a \in Accounts, Exists(account'[a])
               PROVE  account'[a].owner \in customers /\ \A m \in account'[a].nodes : Exists(node'[m])
    BY <1>1 DEF References, Exists
  <2>1. account[a] \in AccountRow
    BY <1>1 DEF TypeOK, Exists
  <2>2. account[a].owner \in customers /\ \A m \in account[a].nodes : Exists(node[m])
    BY <2>1 DEF TypeOK, Exists
  <2>3. account'[a].owner = account[a].owner /\ account'[a].nodes = account[a].nodes \ {n}
    BY <1>1, <1>4, <2>1
  <2>4. account[a].nodes \subseteq Nodes
    BY <2>1 DEF AccountRow
  <2> QED BY <1>2, <2>2, <2>3, <2>4 DEF Exists
<1>8. TypeOK'
  <2>1. /\ customers' \subseteq Customers /\ faults' \in 0 .. MaxFaults
        /\ request' \in [Requests -> Request]
    BY <1>1 DEF TypeOK
  <2> QED BY <2>1, <1>1, <1>2, <1>3, <1>5, <1>7, TypesFrom
<1>9. Apart' /\ NamesKept' /\ \A q \in Requests : Sound(request'[q]) /\ KeepsEnabled(node', request'[q])
  BY <1>1, <1>2, <1>3, RowsInv DEF Written, WrittenBy, Exists
<1> QED BY <1>6, <1>8, <1>9 DEF CatalogueInv

LEMMA NodeSaveInv ==
  ASSUME TypeOK, CatalogueInv, NEW r \in Requests, NodeSave(r)
  PROVE  TypeOK' /\ CatalogueInv'
<1> DEFINE n == request[r].id
<1>1. /\ End(r) /\ UNCHANGED <<customers, account, asked, begun, faults>>
      /\ n \in Nodes /\ WrittenBy(request[r]) = {}
  BY DEF NodeSave, CatalogueInv, Sound
<1>2. CASE UNCHANGED node
  BY <1>1, <1>2, EndInv DEF TypeOK
<1>3. ASSUME NEW row \in NodeRow, Settled(r, n, row.name), FreeName(node, n, row.name),
             node' = [node EXCEPT ![n] = row]
      PROVE  TypeOK' /\ CatalogueInv'
  <2>1. node' \in [Nodes -> NodeRow \cup {None, Gone}] /\ node'[n] = row
        /\ \A m \in Nodes \ {n} : node'[m] = node[m]
    BY <1>1, <1>3 DEF TypeOK
  <2>2. Distinct(node')
    BY <1>3, <2>1 DEF TypeOK, Distinct, FreeName
  <2>3. References'
    BY <1>1, <2>1 DEF TypeOK, References, Exists, AccountRow
  <2>4. request' \in [Requests -> Request] /\ \A p \in Requests : request'[p] \in {request[p], Idle}
    BY <1>1, GotoIs, IdleIsSound DEF End
  <2>5. TypeOK'
    <3>1. /\ customers' \subseteq Customers /\ begun' \in 0 .. MaxRequests /\ faults' \in 0 .. MaxFaults
          /\ account' \in [Accounts -> AccountRow \cup {None, Gone}]
          /\ asked' \in [Accounts -> AccountRow \cup {None, Gone, Muddled}]
      BY <1>1 DEF TypeOK
    <3> QED BY <3>1, <2>1, <2>2, <2>3, <2>4, TypesFrom
  <2>6. ASSUME NEW p \in Requests
        PROVE  /\ n \notin WrittenBy(request[p])
               /\ \A m \in WrittenBy(request[p]) : request[p].writes[m].name # row.name
    <3>1. CASE p = r
      BY <1>1, <3>1
    <3>2. CASE p # r
      BY <1>3, <3>2 DEF Settled, Waits, Written, WrittenBy
    <3> QED BY <3>1, <3>2
  <2>7. Apart' /\ NamesKept' /\ \A q \in Requests : Sound(request'[q]) /\ KeepsEnabled(node', request'[q])
    BY <2>1, <2>2, <2>4, <2>6, RowsInv
  <2> QED BY <1>1, <2>5, <2>7 DEF CatalogueInv, AsRequested
<1> QED BY <1>2, <1>3 DEF NodeSave

\* The rows of a batch become everybody's.
LEMMA CommitInv ==
  ASSUME TypeOK, CatalogueInv, NEW r \in Requests, Commit(r)
  PROVE  TypeOK' /\ CatalogueInv'
<1> DEFINE q == request[r]
<1>1. node' = Overlaid(node, q) /\ End(r) /\ UNCHANGED <<customers, account, asked, begun, faults>>
  BY SeenIsOverlaid DEF Commit
<1>2. /\ request'[r] = Idle /\ \A p \in Requests \ {r} : request'[p] = request[p]
      /\ request' \in [Requests -> Request]
  BY <1>1, GotoIs, IdleIsSound DEF End
<1>3. \A n \in WrittenBy(q) : q.writes[n] \in NodeRow
  BY RequestTypes DEF WrittenBy, Request
<1>4. node' \in [Nodes -> NodeRow \cup {None, Gone}]
  BY <1>1, <1>3 DEF Overlaid, TypeOK
<1>5. Distinct(node')
  BY <1>1 DEF CatalogueInv, NamesKept
<1>6. \A n \in Nodes : node'[n] = IF n \in WrittenBy(q) THEN q.writes[n] ELSE node[n]
  BY <1>1 DEF Overlaid
<1>7. References'
  <2>1. \A n \in Nodes : Exists(node[n]) => Exists(node'[n])
    BY <1>3, <1>6 DEF Exists
  <2> SUFFICES ASSUME NEW a \in Accounts, Exists(account[a])
               PROVE  account[a].owner \in customers /\ \A n \in account[a].nodes : Exists(node'[n])
    BY <1>1 DEF References, Exists
  <2>2. account[a] \in AccountRow
    BY DEF TypeOK, Exists
  <2> QED BY <2>1, <2>2 DEF TypeOK, AccountRow
<1>8. TypeOK'
  <2>1. /\ customers' \subseteq Customers /\ begun' \in 0 .. MaxRequests /\ faults' \in 0 .. MaxFaults
        /\ account' \in [Accounts -> AccountRow \cup {None, Gone}]
        /\ asked' \in [Accounts -> AccountRow \cup {None, Gone, Muddled}]
    BY <1>1 DEF TypeOK
  <2> QED BY <2>1, <1>2, <1>4, <1>5, <1>7, TypesFrom
<1>9. Apart'
  <2> SUFFICES ASSUME NEW p1 \in Requests, NEW p2 \in Requests, p1 # p2
               PROVE  ApartFrom(request'[p1], request'[p2])
    BY DEF Apart
  <2>1. ApartFrom(request[p1], request[p2])
    BY DEF CatalogueInv, Apart
  <2> QED BY <2>1, <1>2, IdleIsSound DEF ApartFrom
<1>10. ASSUME NEW p \in Requests \ {r}
       PROVE  /\ ApartFrom(request[p], q) /\ Distinct(Overlaid(node, request[p]))
              /\ Sound(request[p]) /\ KeepsEnabled(node, request[p])
              /\ \A n \in WrittenBy(request[p]) : node'[n] = node[n]
  <2>1. ApartFrom(request[p], q)
    BY DEF CatalogueInv, Apart
  <2>2. \A n \in WrittenBy(request[p]) : n \in Nodes /\ n \notin WrittenBy(q)
    BY <2>1 DEF ApartFrom, WrittenBy
  <2> QED BY <2>1, <2>2, <1>6 DEF CatalogueInv, NamesKept
<1>11. \A p \in Requests : Sound(request'[p]) /\ KeepsEnabled(node', request'[p])
  <2>1. ASSUME NEW p \in Requests \ {r} PROVE KeepsEnabled(node', request[p])
    BY <1>10 DEF KeepsEnabled
  <2> QED BY <2>1, <1>2, <1>10, IdleIsSound
<1>12. NamesKept'
  <2> SUFFICES ASSUME NEW p \in Requests PROVE Distinct(Overlaid(node', request'[p]))
    BY DEF NamesKept
  <2>1. CASE p = r
    BY <2>1, <1>2, <1>5, IdleIsSound DEF Overlaid, Distinct
  <2>2. CASE p # r
    <3> DEFINE o == request[p]
    <3>1. /\ Distinct(Overlaid(node, o)) /\ Distinct(Overlaid(node, q)) /\ ApartFrom(o, q)
      BY <2>2, <1>1, <1>5, <1>10
    <3> SUFFICES ASSUME NEW m \in Nodes, NEW n \in Nodes, m # n,
                        Exists(Overlaid(node', o)[m]), Exists(Overlaid(node', o)[n])
                 PROVE  Overlaid(node', o)[m].name # Overlaid(node', o)[n].name
      BY <2>2, <1>2 DEF Distinct
    <3> HIDE DEF o, q
    <3>2. CASE m \notin WrittenBy(o) /\ n \notin WrittenBy(o)
      BY <3>2, <1>5 DEF Overlaid, Distinct
    <3>3. CASE m \in WrittenBy(o) /\ n \in WrittenBy(o)
      BY <3>1, <3>3 DEF Overlaid, Distinct
    <3>4. ASSUME NEW v \in WrittenBy(o), NEW w \in Nodes \ WrittenBy(o),
                 v \in Nodes, Exists(node'[w]), Exists(o.writes[v])
          PROVE  o.writes[v].name # node'[w].name
      <4>1. CASE w \in WrittenBy(q)
        BY <3>1, <3>4, <4>1, <1>6 DEF ApartFrom
      <4>2. CASE w \notin WrittenBy(q)
        BY <3>1, <3>4, <4>2, <1>6 DEF Overlaid, Distinct
      <4> QED BY <4>1, <4>2
    <3> QED BY <3>2, <3>3, <3>4 DEF Overlaid
  <2> QED BY <2>1, <2>2
<1>13. AsRequested'
  BY <1>1 DEF CatalogueInv, AsRequested
<1> QED BY <1>8, <1>9, <1>11, <1>12, <1>13 DEF CatalogueInv

(***************************************************************************)
(* The theorems.                                                           *)
(***************************************************************************)

LEMMA StepInv == TypeOK /\ CatalogueInv /\ [Next]_vars => (TypeOK /\ CatalogueInv)'
<1> SUFFICES ASSUME TypeOK, CatalogueInv, [Next]_vars PROVE TypeOK' /\ CatalogueInv'
  OBVIOUS
<1>1. ASSUME NEW r \in Requests, NEW a \in Accounts, PatchRead(r, a) \/ CreateLoad(r, a)
      PROVE  TypeOK' /\ CatalogueInv'
  BY <1>1, PatchReadInv, CreateLoadInv
<1>2. ASSUME NEW r \in Requests, (\E n \in Nodes : NodeRead(r, n)) \/ SyncNodes(r) \/ Fail(r)
      PROVE  TypeOK' /\ CatalogueInv'
  BY <1>2, NodeReadInv, SyncNodesInv, GiveUpInv
<1>3. ASSUME NEW r \in Requests, Step(r)
      PROVE  TypeOK' /\ CatalogueInv'
  BY <1>3, PatchLoadInv, PatchSaveInv, CreateInsertInv, NodeSaveInv, LookInv, WriteInv,
     GiveUpInv, CommitInv DEF Step
<1>4. CASE (\E a \in Accounts : DeleteAccount(a)) \/ (\E c \in Customers : DeleteCustomer(c))
  BY <1>4, DeletesInv
<1>5. ASSUME NEW n \in Nodes, CreateNode(n) \/ DeleteNode(n)
      PROVE  TypeOK' /\ CatalogueInv'
  BY <1>5, CreateNodeInv, DeleteNodeInv
<1>6. CASE UNCHANGED vars
  BY <1>6 DEF vars, TypeOK, CatalogueInv, Apart, NamesKept, AsRequested
<1> QED BY <1>1, <1>2, <1>3, <1>4, <1>5, <1>6 DEF Next

\* The catalogue keeps its types, and every request knows what its phase implies.
THEOREM CatalogueHolds == Spec => [](TypeOK /\ CatalogueInv)
  BY InitInv, StepInv, PTL DEF Spec

\* Types, references and the unique name, in the tables that are committed.
THEOREM CatalogueTypes == Spec => []TypeOK
  BY CatalogueHolds, PTL

\* Accounts are what their requests asked for (PATCH and POST of accounts,
\* store.go:605) unless a stale row is saved.
THEOREM AsRequestedHolds == Spec => []AsRequested
<1>1. CatalogueInv => AsRequested
  BY DEF CatalogueInv
<1> QED BY <1>1, CatalogueHolds, PTL

\* Only Commit ends a sync that is about to commit without a failure.
LEMMA CommittingCommits ==
  ASSUME TypeOK, [Next]_vars, NEW r \in Requests, Committing(r)
  PROVE  Commit(r)
<1>1. request[r].pc = "commit" /\ request'[r] # request[r] /\ UNCHANGED faults
  BY DEF Committing
<1>2. ASSUME NEW p \in Requests, NEW s, Goto(p, s) PROVE p = r
  BY <1>1, <1>2 DEF Goto, TypeOK
<1>3. ASSUME NEW p \in Requests, Step(p)
      PROVE  Commit(r)
  <2>1. p = r
    BY <1>2, <1>3 DEF Step, PatchLoad, PatchSave, CreateInsert, WriteAccount, NodeSave, Look, Write,
       WriteRefused, Commit, Deadlock, End
  <2>2. ~Deadlock(r)
    BY <1>1 DEF Deadlock, WaitsFor
  <2> QED BY <1>1, <1>3, <2>1, <2>2
     DEF Step, PatchLoad, PatchSave, CreateInsert, NodeSave, Look, Write, WriteRefused
<1>4. ASSUME NEW p \in Requests, NEW a \in Accounts, PatchRead(p, a) \/ CreateLoad(p, a)
      PROVE  FALSE
  BY <1>1, <1>2, <1>4 DEF PatchRead, CreateLoad
<1>5. ASSUME NEW p \in Requests, (\E n \in Nodes : NodeRead(p, n)) \/ SyncNodes(p) \/ Fail(p)
      PROVE  FALSE
  <2>1. ~Fail(p)
    BY <1>1 DEF Fail, TypeOK
  <2> QED BY <1>1, <1>2, <1>5, <2>1 DEF NodeRead, SyncNodes
<1> QED BY <1>1, <1>3, <1>4, <1>5
  DEF Next, DeleteAccount, DeleteCustomer, CreateNode, DeleteNode, vars

\* A sync that succeeds has taken effect as a whole (README.md:135-137), whatever
\* other requests did between its statements.
THEOREM SyncCompleteHolds == Spec => SyncComplete
<1> DEFINE Complete ==
      \A r \in Requests : Committing(r) =>
         \A i \in DOMAIN request[r].body :
            LET item == request[r].body[i]
            IN \E n \in Nodes :
                  /\ node'[n] \in NodeRow
                  /\ node'[n].name = item.name /\ node'[n].config = item.config
                  /\ item.enabled \in {Unset, node'[n].enabled}
<1>1. TypeOK /\ CatalogueInv /\ [Next]_vars => Complete
  <2> SUFFICES ASSUME TypeOK, CatalogueInv, [Next]_vars, NEW r \in Requests, Committing(r),
                      NEW i \in DOMAIN request[r].body
               PROVE  \E n \in Nodes : Fits(node'[n], request[r].body[i])
    BY DEF Fits
  <2> DEFINE q == request[r]
  <2>1. Commit(r)
    BY CommittingCommits
  <2>2. Entered(q) /\ q.at = Len(q.body) + 1
    BY <2>1 DEF Commit, CatalogueInv, Sound
  <2>3. i \in 1 .. q.at - 1
    BY <2>2, BodyFacts DEF Entered
  <2>4. PICK n \in Nodes : Fits(q.writes[n], q.body[i])
    BY <2>2, <2>3 DEF Entered
  <2>5. node'[n] = q.writes[n]
    BY <2>1, <2>4, SeenIsOverlaid DEF Commit, Overlaid, Fits, WrittenBy
  <2> QED BY <2>4, <2>5
<1> QED BY <1>1, CatalogueHolds, PTL DEF Spec, SyncComplete

\* README.md:163: a sync that omits enabled leaves it as it is, unless another
\* request changes it between the look and the write of the upsert.
THEOREM EnabledKeptHolds == Spec => EnabledKept
<1> DEFINE Keeps ==
      \A r \in Requests : Committing(r) =>
         \A i \in DOMAIN request[r].body, n \in Written(r) \ request[r].moved :
            /\ request[r].body[i].enabled = Unset
            /\ request[r].writes[n].name = request[r].body[i].name
            /\ Exists(node[n])
            => node'[n].enabled = node[n].enabled
<1>1. TypeOK /\ CatalogueInv /\ [Next]_vars => Keeps
  <2> SUFFICES ASSUME TypeOK, CatalogueInv, [Next]_vars, NEW r \in Requests, Committing(r),
                      NEW i \in DOMAIN request[r].body, NEW n \in Written(r) \ request[r].moved,
                      request[r].body[i].enabled = Unset,
                      request[r].writes[n].name = request[r].body[i].name, Exists(node[n])
               PROVE  node'[n].enabled = node[n].enabled
    OBVIOUS
  <2>1. node' = Overlaid(node, request[r])
    BY CommittingCommits, SeenIsOverlaid DEF Commit
  <2>2. n \in WrittenBy(request[r]) /\ n \in Nodes
    BY DEF Written, WrittenBy
  <2>3. KeepsEnabled(node, request[r])
    BY DEF CatalogueInv
  <2> QED BY <2>1, <2>2, <2>3 DEF Overlaid, KeepsEnabled
<1> QED BY <1>1, CatalogueHolds, PTL DEF Spec, EnabledKept
=============================================================================
