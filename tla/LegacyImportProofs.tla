-------------------------- MODULE LegacyImportProofs --------------------------
(***************************************************************************)
(* Theorems about LegacyImport, for all files, nodes, importers and bounds.*)
(***************************************************************************)
EXTENDS LegacyImport, TLAPS

USE LegacyImportAssumption DEF LegacyImportAssumption

(***************************************************************************)
(* The invariant.                                                          *)
(***************************************************************************)

\* The import has its customer, its token and the nodes it matches against.
Past(i) == tx[i].pc \in {"find", "account", "bind"}

\* The account of a link, as the transaction of i sees it.
Stands(i, link) ==
    \/ [uuid |-> link.uuid, flow |-> link.flow] \in tx[i].fresh
    \/ /\ account[link.uuid].here
       /\ account[link.uuid].owner = tx[i].owner /\ account[link.uuid].flow = link.flow
Tied(i, link) ==
    \/ Matches(i, link) = <<>>
    \/ Matches(i, link)[1] \in tx[i].touched
    \/ <<link.uuid, Matches(i, link)[1]>> \in bound \cup tx[i].binds
Entered(i) ==
    \A k \in DOMAIN File[i] : k < tx[i].at =>
       \/ Repeated(i, k)
       \/ File[i][k].uuid \in tx[i].touched
       \/ Stands(i, File[i][k]) /\ Tied(i, File[i][k])

\* The customer an open transaction relies on.
OwnerKnown(i) ==
    /\ tx[i].pc # "customer" => tx[i].owner > 0
    /\ tx[i].newOwner => ~customer.here /\ tx[i].owner = customer.id + 1
    /\ tx[i].newToken \/ tx[i].fresh # {} => OwnerStands(i)
    /\ tx[i].pc = "customer" => ~tx[i].newOwner

\* The rows it has inserted.
RowsKnown(i) ==
    /\ ~Past(i) => tx[i].fresh = {} /\ tx[i].binds = {} /\ tx[i].at = 1
    /\ \A u \in Uuids : Own(i, u) => ~account[u].here
    /\ \A a, b \in tx[i].fresh : a.uuid = b.uuid => a = b
    /\ \A b \in tx[i].binds :
          /\ b[2] \in nodes /\ b \notin bound
          /\ Own(i, b[1]) \/ account[b[1]].here
          /\ b[1] \in tx[i].touched \/ Own(i, b[1]) \/ account[b[1]].owner = tx[i].owner

\* How far it has come.
FileKnown(i) ==
    /\ tx[i].at \in 1 .. Len(File[i]) + 1
    /\ Past(i) => Entered(i)
    /\ tx[i].pc \in {"account", "bind"} =>
          tx[i].at \in DOMAIN File[i] /\ ~Repeated(i, tx[i].at)
    /\ tx[i].pc = "account" => ~Own(i, ThisLink(i).uuid)
    /\ tx[i].pc = "bind" => /\ Matches(i, ThisLink(i)) # <<>>
                            /\ ThisLink(i).uuid \in tx[i].touched \/ Stands(i, ThisLink(i))
    /\ Past(i) /\ Kind[i] = "xray" => \A k \in DOMAIN File[i] : File[i][k].best[1] \in tx[i].nodes

\* What it may rely on if no administrator came in between.
Undisturbed(i) ==
    tx[i].touched = {} =>
       /\ tx[i].pc # "customer" /\ ~tx[i].newOwner => customer.here /\ customer.id = tx[i].owner
       /\ Kind[i] = "subscription" /\ (Past(i) \/ tx[i].pc = "nodes") => tx[i].newToken \/ tokens > 0
       /\ Past(i) => tx[i].nodes = nodes

Apart(i, j) == tx[i].binds \cap tx[j].binds = {}

\* Everything the file says is in the tables.
Present(i) ==
    /\ customer.here
    /\ Kind[i] = "subscription" => tokens > 0
    /\ Kind[i] = "xray" => \A k \in DOMAIN File[i] : File[i][k].best[1] \in nodes
    /\ \A k \in DOMAIN File[i] :
          LET link == File[i][k]
              match == Matching(nodes, link)
          IN \/ Repeated(i, k)
             \/ /\ account[link.uuid].here
                /\ account[link.uuid].owner = customer.id /\ account[link.uuid].flow = link.flow
                /\ match = <<>> \/ <<link.uuid, match[1]>> \in bound

\* A repetition finds everything and writes nothing.
Repeats(i) ==
    /\ tx[i].pc \in {"count", "nodes", "find", "bind"}
    /\ tx[i].touched = {} /\ tx[i].fresh = {} /\ tx[i].binds = {}
    /\ ~tx[i].newOwner /\ ~tx[i].newToken
    /\ tx[i].pc = "bind" => tx[i].held = account[ThisLink(i).uuid].id

ImportInv ==
    /\ customer.here => customer.id > 0
    /\ \A i \in Importers : Open(i) =>
          OwnerKnown(i) /\ RowsKnown(i) /\ FileKnown(i) /\ Undisturbed(i)
    /\ \A i, j \in Importers : (i # j /\ Open(i) /\ Open(j)) => Apart(i, j)
    /\ \A i \in Importers : imported[i] => Present(i) /\ (Open(i) => Repeats(i))

(***************************************************************************)
(* The transactions.                                                       *)
(***************************************************************************)
LEMMA TxTypes ==
  ASSUME TypeOK, NEW i \in Importers, Open(i)
  PROVE  tx[i] \in Tx
  BY DEF TypeOK, Open, NoTx

LEMMA LinkTypes ==
  ASSUME NEW i \in Importers, NEW k \in DOMAIN File[i]
  PROVE  /\ File[i][k] \in Link /\ File[i][k].uuid \in Uuids /\ File[i][k].flow \in Flows
         /\ DOMAIN File[i] = 1 .. Len(File[i]) /\ Len(File[i]) \in Nat /\ k \in Nat
<1>1. File[i] \in Seq(Link)
  OBVIOUS
<1>2. /\ DOMAIN File[i] = 1 .. Len(File[i]) /\ Len(File[i]) \in Nat /\ k \in Nat
      /\ File[i][k] \in Link
  BY <1>1
<1> QED BY <1>2 DEF Link

\* A transaction that nothing changes, over the same tables.
LEMMA OtherInv ==
  ASSUME ImportInv, NEW j \in Importers, Open(j), tx'[j] = tx[j],
         UNCHANGED <<customer, tokens, account, bound, nodes>>
  PROVE  OwnerKnown(j)' /\ RowsKnown(j)' /\ FileKnown(j)' /\ Undisturbed(j)'
<1>1. OwnerKnown(j) /\ RowsKnown(j) /\ FileKnown(j) /\ Undisturbed(j)
  BY DEF ImportInv
<1>2. OwnerKnown(j)' /\ RowsKnown(j)' /\ Undisturbed(j)'
  BY <1>1 DEF OwnerKnown, OwnerStands, RowsKnown, Past, Own, Undisturbed
<1>3. /\ \A link : Stands(j, link)' = Stands(j, link) /\ Tied(j, link)' = Tied(j, link)
      /\ \A u : Own(j, u)' = Own(j, u)
      /\ \A link : Matches(j, link)' = Matches(j, link)
      /\ ThisLink(j)' = ThisLink(j) /\ Past(j)' = Past(j)
  BY DEF Stands, Tied, Own, Matches, ThisLink, Past
<1>4. Entered(j)' = Entered(j)
  BY <1>3 DEF Entered
<1>5. FileKnown(j)'
  BY <1>1, <1>3, <1>4 DEF FileKnown
<1> QED BY <1>2, <1>5

\* A statement that replaces the transaction of i and leaves the tables alone.
LEMMA StepInv ==
  ASSUME TypeOK, ImportInv, NEW i \in Importers, NEW s \in Tx, Step(i, s),
         OwnerKnown(i)', RowsKnown(i)', FileKnown(i)', Undisturbed(i)',
         \A j \in Importers \ {i} : Open(j) =>
            /\ ~(s.newOwner /\ tx[j].newOwner)
            /\ \A a \in s.fresh, b \in tx[j].fresh : a.uuid # b.uuid
            /\ s.binds \cap tx[j].binds = {},
         imported[i] => Repeats(i)'
  PROVE  TypeOK' /\ ImportInv'
<1>1. /\ tx'[i] = s /\ \A j \in Importers \ {i} : tx'[j] = tx[j]
      /\ tx' \in [Importers -> {NoTx} \cup Tx]
      /\ UNCHANGED <<customer, tokens, account, bound, nodes, imported, changes, faults>>
  BY DEF Step, TypeOK, tables
<1>2. TypeOK'
  <2>1. \A j, l \in Importers : (j # l /\ Open(j)' /\ Open(l)') =>
          /\ ~(tx'[j].newOwner /\ tx'[l].newOwner)
          /\ \A a \in tx'[j].fresh, b \in tx'[l].fresh : a.uuid # b.uuid
    <3> SUFFICES ASSUME NEW j \in Importers, NEW l \in Importers, j # l, Open(j)', Open(l)'
                 PROVE  /\ ~(tx'[j].newOwner /\ tx'[l].newOwner)
                        /\ \A a \in tx'[j].fresh, b \in tx'[l].fresh : a.uuid # b.uuid
      OBVIOUS
    <3>1. CASE j # i /\ l # i
      BY <1>1, <3>1 DEF TypeOK, Open
    <3>2. CASE j = i
      <4>1. /\ l \in Importers \ {i} /\ tx'[l] = tx[l] /\ tx'[j] = s /\ Open(l)
        BY <1>1, <3>2 DEF Open
      <4>2. /\ ~(s.newOwner /\ tx[l].newOwner)
            /\ \A a \in s.fresh, b \in tx[l].fresh : a.uuid # b.uuid
        BY <4>1
      <4> QED BY <4>1, <4>2
    <3>3. CASE l = i
      <4>1. /\ j \in Importers \ {i} /\ tx'[j] = tx[j] /\ tx'[l] = s /\ Open(j)
        BY <1>1, <3>3 DEF Open
      <4>2. /\ ~(s.newOwner /\ tx[j].newOwner)
            /\ \A a \in s.fresh, b \in tx[j].fresh : a.uuid # b.uuid
        BY <4>1
      <4> QED BY <4>1, <4>2
    <3> QED BY <3>1, <3>2, <3>3
  <2> QED BY <1>1, <2>1 DEF TypeOK
<1>3. \A j \in Importers \ {i} : Open(j)' =>
         OwnerKnown(j)' /\ RowsKnown(j)' /\ FileKnown(j)' /\ Undisturbed(j)'
  <2> SUFFICES ASSUME NEW j \in Importers \ {i}, Open(j)'
               PROVE  OwnerKnown(j)' /\ RowsKnown(j)' /\ FileKnown(j)' /\ Undisturbed(j)'
    OBVIOUS
  <2>1. Open(j) /\ tx'[j] = tx[j]
    BY <1>1 DEF Open
  <2> QED BY <1>1, <2>1, OtherInv
<1>4. \A j, l \in Importers : (j # l /\ Open(j)' /\ Open(l)') => Apart(j, l)'
  <2> SUFFICES ASSUME NEW j \in Importers, NEW l \in Importers, j # l, Open(j)', Open(l)'
               PROVE  Apart(j, l)'
    OBVIOUS
  <2>1. CASE j # i /\ l # i
    BY <1>1, <2>1 DEF ImportInv, Apart, Open
  <2>2. CASE j = i
    <3>1. /\ l \in Importers \ {i} /\ tx'[l] = tx[l] /\ tx'[j] = s /\ Open(l)
      BY <1>1, <2>2 DEF Open
    <3>2. s.binds \cap tx[l].binds = {}
      BY <3>1
    <3> QED BY <3>1, <3>2 DEF Apart
  <2>3. CASE l = i
    <3>1. /\ j \in Importers \ {i} /\ tx'[j] = tx[j] /\ tx'[l] = s /\ Open(j)
      BY <1>1, <2>3 DEF Open
    <3>2. s.binds \cap tx[j].binds = {}
      BY <3>1
    <3> QED BY <3>1, <3>2 DEF Apart
  <2> QED BY <2>1, <2>2, <2>3
<1>5. \A j \in Importers : imported'[j] => Present(j)' /\ (Open(j)' => Repeats(j)')
  <2>1. \A j \in Importers : imported'[j] => Present(j)'
    BY <1>1 DEF ImportInv, Present
  <2>2. \A j \in Importers \ {i} : imported'[j] => (Open(j)' => Repeats(j)')
    BY <1>1 DEF ImportInv, Repeats, Open, ThisLink
  <2> QED BY <1>1, <2>1, <2>2
<1> QED BY <1>1, <1>2, <1>3, <1>4, <1>5 DEF ImportInv

\* What it has not committed is gone.
LEMMA RefuseInv ==
  ASSUME TypeOK, ImportInv, NEW i \in Importers, tx' = [tx EXCEPT ![i] = NoTx],
         UNCHANGED <<tables, imported, changes>>, faults' \in 0 .. MaxFaults
  PROVE  TypeOK' /\ ImportInv'
<1>1. /\ tx'[i] = NoTx /\ ~Open(i)' /\ \A j \in Importers \ {i} : tx'[j] = tx[j]
      /\ tx' \in [Importers -> {NoTx} \cup Tx]
      /\ UNCHANGED <<customer, tokens, account, bound, nodes, imported, changes>>
  BY DEF TypeOK, tables, Open, NoTx
<1>2. TypeOK'
  <2>1. \A j, l \in Importers : (j # l /\ Open(j)' /\ Open(l)') =>
          /\ ~(tx'[j].newOwner /\ tx'[l].newOwner)
          /\ \A a \in tx'[j].fresh, b \in tx'[l].fresh : a.uuid # b.uuid
    BY <1>1 DEF TypeOK, Open
  <2> QED BY <1>1, <2>1 DEF TypeOK
<1>3. \A j \in Importers : Open(j)' =>
         OwnerKnown(j)' /\ RowsKnown(j)' /\ FileKnown(j)' /\ Undisturbed(j)'
  <2> SUFFICES ASSUME NEW j \in Importers, Open(j)'
               PROVE  OwnerKnown(j)' /\ RowsKnown(j)' /\ FileKnown(j)' /\ Undisturbed(j)'
    OBVIOUS
  <2>1. Open(j) /\ tx'[j] = tx[j]
    BY <1>1 DEF Open
  <2> QED BY <1>1, <2>1, OtherInv
<1>4. \A j, l \in Importers : (j # l /\ Open(j)' /\ Open(l)') => Apart(j, l)'
  BY <1>1 DEF ImportInv, Apart, Open
<1>5. \A j \in Importers : imported'[j] => Present(j)' /\ (Open(j)' => Repeats(j)')
  <2>1. \A j \in Importers : imported'[j] => Present(j)'
    BY <1>1 DEF ImportInv, Present
  <2>2. \A j \in Importers : imported'[j] => (Open(j)' => Repeats(j)')
    BY <1>1 DEF ImportInv, Repeats, Open, ThisLink
  <2> QED BY <2>1, <2>2
<1> QED BY <1>1, <1>2, <1>3, <1>4, <1>5 DEF ImportInv

LEMMA InitInv == Init => TypeOK /\ ImportInv
<1> SUFFICES ASSUME Init PROVE TypeOK /\ ImportInv
  OBVIOUS
<1>1. \A i \in Importers : ~Open(i) /\ ~imported[i]
  BY DEF Init, Open, NoTx
<1>2. customer \in [here: BOOLEAN, id: Nat] /\ ~customer.here
  BY DEF Init
<1>3. account \in [Uuids -> [here: BOOLEAN, id: Nat, owner: Nat, flow: Flows]]
  BY DEF Init, Other
<1>4. TypeOK
  BY <1>1, <1>2, <1>3 DEF Init, TypeOK, Other
<1> QED BY <1>1, <1>2, <1>4 DEF ImportInv

(***************************************************************************)
(* The statements before the links.                                        *)
(***************************************************************************)

\* What the invariant says about one open transaction.
LEMMA Knows ==
  ASSUME TypeOK, ImportInv, NEW i \in Importers, Open(i)
  PROVE  /\ tx[i] \in Tx
         /\ OwnerKnown(i) /\ RowsKnown(i) /\ FileKnown(i) /\ Undisturbed(i)
         /\ imported[i] => Present(i) /\ Repeats(i)
  BY TxTypes DEF ImportInv

\* With the rows it had, an import stays apart from the others.
LEMMA StaysApart ==
  ASSUME TypeOK, ImportInv, NEW i \in Importers, Open(i), NEW s \in Tx,
         s.newOwner = tx[i].newOwner, s.fresh = tx[i].fresh, s.binds = tx[i].binds
  PROVE  \A j \in Importers \ {i} : Open(j) =>
            /\ ~(s.newOwner /\ tx[j].newOwner)
            /\ \A a \in s.fresh, b \in tx[j].fresh : a.uuid # b.uuid
            /\ s.binds \cap tx[j].binds = {}
  BY DEF TypeOK, ImportInv, Apart

LEMMA StepTx ==
  ASSUME TypeOK, NEW i \in Importers, NEW s, Step(i, s)
  PROVE  tx'[i] = s /\ UNCHANGED <<customer, tokens, account, bound, nodes, imported, changes, faults>>
  BY DEF TypeOK, Step, tables

LEMMA FindCustomerInv ==
  ASSUME TypeOK, ImportInv, NEW i \in Importers, FindCustomer(i)
  PROVE  TypeOK' /\ ImportInv'
<1> DEFINE s == [pc |-> IF customer.here THEN "count" ELSE "customer", at |-> 1,
                 owner |-> customer.id, newOwner |-> FALSE, newToken |-> FALSE, nodes |-> {},
                 held |-> 0, fresh |-> {}, binds |-> {}, touched |-> {}]
<1>1. s \in Tx /\ Step(i, s) /\ ~Open(i)
  BY DEF FindCustomer, Tx, TypeOK
<1>2. /\ s.pc \in {"count", "customer"} /\ (s.pc = "count" <=> customer.here)
      /\ s.at = 1 /\ s.owner = customer.id /\ ~s.newOwner /\ ~s.newToken
      /\ s.fresh = {} /\ s.binds = {} /\ s.touched = {}
  OBVIOUS
<1> HIDE DEF s
<1>3. tx'[i] = s /\ UNCHANGED <<customer, tokens, account, bound, nodes, imported>>
  BY <1>1, StepTx
<1>4. OwnerKnown(i)'
  BY <1>2, <1>3 DEF OwnerKnown, OwnerStands, ImportInv
<1>5. RowsKnown(i)'
  BY <1>2, <1>3 DEF RowsKnown, Own
<1>6. FileKnown(i)'
  <2>1. 1 \in 1 .. Len(File[i]) + 1
    <3>1. File[i] \in Seq(Link)
      OBVIOUS
    <3>2. Len(File[i]) \in Nat
      BY <3>1
    <3> QED BY <3>2
  <2> QED BY <1>2, <1>3, <2>1 DEF FileKnown, Past
<1>7. Undisturbed(i)'
  BY <1>2, <1>3 DEF Undisturbed, Past
<1>8. imported[i] => Repeats(i)'
  BY <1>2, <1>3 DEF Repeats, ImportInv, Present
<1>9. \A j \in Importers \ {i} : Open(j) =>
         /\ ~(s.newOwner /\ tx[j].newOwner)
         /\ \A a \in s.fresh, b \in tx[j].fresh : a.uuid # b.uuid
         /\ s.binds \cap tx[j].binds = {}
  BY <1>2
<1> QED BY <1>1, <1>4, <1>5, <1>6, <1>7, <1>8, <1>9, StepInv

LEMMA RefusedInv ==
  ASSUME TypeOK, ImportInv, NEW i \in Importers, Refuse(i)
  PROVE  TypeOK' /\ ImportInv'
  BY RefuseInv DEF Refuse, Step, TypeOK

LEMMA InsertCustomerInv ==
  ASSUME TypeOK, ImportInv, NEW i \in Importers, InsertCustomer(i)
  PROVE  TypeOK' /\ ImportInv'
<1>1. CASE Refuse(i)
  BY <1>1, RefusedInv
<1>2. CASE ~customer.here
  <2> DEFINE s == [tx[i] EXCEPT !.pc = "count", !.owner = customer.id + 1, !.newOwner = TRUE]
  <2>1. Open(i) /\ tx[i].pc = "customer" /\ Step(i, s)
        /\ \A j \in Importers : Open(j) => ~tx[j].newOwner
    BY <1>2 DEF InsertCustomer, Open
  <2>2. /\ tx[i] \in Tx /\ OwnerKnown(i) /\ RowsKnown(i) /\ FileKnown(i) /\ Undisturbed(i)
        /\ imported[i] => Present(i) /\ Repeats(i)
    BY <2>1, Knows
  <2>3. customer.id \in Nat /\ customer.id + 1 \in Nat /\ customer.id + 1 > 0
    BY DEF TypeOK
  <2>4. s \in Tx
    BY <2>2, <2>3 DEF Tx
  <2>5. /\ s.pc = "count" /\ s.owner = customer.id + 1 /\ s.newOwner /\ s.newToken = tx[i].newToken
        /\ s.at = tx[i].at /\ s.fresh = tx[i].fresh /\ s.binds = tx[i].binds
        /\ s.touched = tx[i].touched
    BY <2>2 DEF Tx
  <2> HIDE DEF s
  <2>6. tx'[i] = s /\ UNCHANGED <<customer, tokens, account, bound, nodes, imported>>
    BY <2>1, StepTx
  <2>7. ~Past(i) /\ tx[i].fresh = {} /\ tx[i].binds = {} /\ tx[i].at = 1 /\ ~imported[i]
    BY <2>1, <2>2 DEF Past, RowsKnown, Repeats
  <2>8. OwnerKnown(i)'
    BY <1>2, <2>3, <2>5, <2>6 DEF OwnerKnown, OwnerStands
  <2>9. RowsKnown(i)'
    BY <2>5, <2>6, <2>7 DEF RowsKnown, Own
  <2>10. FileKnown(i)'
    BY <2>2, <2>5, <2>6 DEF FileKnown, Past
  <2>11. Undisturbed(i)'
    BY <2>5, <2>6 DEF Undisturbed, Past
  <2>12. \A j \in Importers \ {i} : Open(j) =>
           /\ ~(s.newOwner /\ tx[j].newOwner)
           /\ \A a \in s.fresh, b \in tx[j].fresh : a.uuid # b.uuid
           /\ s.binds \cap tx[j].binds = {}
    BY <2>1, <2>5, <2>7
  <2> QED BY <2>1, <2>4, <2>7, <2>8, <2>9, <2>10, <2>11, <2>12, StepInv
<1> QED BY <1>1, <1>2 DEF InsertCustomer

\* A statement that only moves on, over fields the links do not use.
LEMMA MoveInv ==
  ASSUME TypeOK, ImportInv, NEW i \in Importers, Open(i), ~Past(i), NEW s \in Tx, Step(i, s),
         s.pc \in {"count", "token", "nodes"},
         s.at = tx[i].at, s.owner = tx[i].owner, s.newOwner = tx[i].newOwner,
         s.fresh = tx[i].fresh, s.binds = tx[i].binds, s.touched = tx[i].touched,
         tx[i].pc # "customer",
         s.newToken => tx[i].newToken \/ OwnerStands(i),
         (Kind[i] = "subscription" /\ s.pc = "nodes" /\ s.touched = {}) => s.newToken \/ tokens > 0,
         imported[i] => s.pc = "nodes" /\ ~s.newToken
  PROVE  TypeOK' /\ ImportInv'
<1>1. /\ tx[i] \in Tx /\ OwnerKnown(i) /\ RowsKnown(i) /\ FileKnown(i) /\ Undisturbed(i)
      /\ imported[i] => Present(i) /\ Repeats(i)
  BY Knows
<1>2. tx'[i] = s /\ UNCHANGED <<customer, tokens, account, bound, nodes, imported>>
  BY StepTx
<1>3. tx[i].fresh = {} /\ tx[i].binds = {} /\ tx[i].at = 1
  BY <1>1 DEF RowsKnown
<1>4. OwnerKnown(i)'
  BY <1>1, <1>2, <1>3 DEF OwnerKnown, OwnerStands
<1>5. RowsKnown(i)'
  BY <1>2, <1>3 DEF RowsKnown, Own
<1>6. FileKnown(i)'
  BY <1>1, <1>2 DEF FileKnown, Past
<1>7. Undisturbed(i)'
  BY <1>1, <1>2 DEF Undisturbed, Past
<1>8. imported[i] => Repeats(i)'
  BY <1>1, <1>2, <1>3 DEF Repeats
<1> QED BY <1>4, <1>5, <1>6, <1>7, <1>8, StaysApart, StepInv

LEMMA CountTokensInv ==
  ASSUME TypeOK, ImportInv, NEW i \in Importers, CountTokens(i)
  PROVE  TypeOK' /\ ImportInv'
<1> DEFINE none == tx[i].newOwner \/ ~OwnerStands(i) \/ tokens = 0
           pc == IF Kind[i] = "subscription" /\ none THEN "token" ELSE "nodes"
           s == [tx[i] EXCEPT !.pc = pc]
<1>1. Open(i) /\ tx[i].pc = "count" /\ Step(i, s) /\ ~Past(i)
  BY DEF CountTokens, Open, Past
<1>2. /\ tx[i] \in Tx /\ OwnerKnown(i) /\ RowsKnown(i) /\ FileKnown(i) /\ Undisturbed(i)
      /\ imported[i] => Present(i) /\ Repeats(i)
  BY <1>1, Knows
<1>3. tokens \in Nat /\ Kind[i] \in {"xray", "subscription"} /\ pc \in {"token", "nodes"}
  BY DEF TypeOK
<1>4. pc = "nodes" => Kind[i] = "xray" \/ tokens > 0
  BY <1>3
<1>5. imported[i] => pc = "nodes" /\ ~tx[i].newToken
  BY <1>1, <1>2, <1>3 DEF Present, Repeats, Undisturbed, OwnerStands
<1> HIDE DEF pc
<1>6. s \in Tx
  BY <1>2, <1>3 DEF Tx
<1>7. /\ s.pc = pc /\ s.at = tx[i].at /\ s.owner = tx[i].owner /\ s.newOwner = tx[i].newOwner
      /\ s.fresh = tx[i].fresh /\ s.binds = tx[i].binds /\ s.touched = tx[i].touched
      /\ s.newToken = tx[i].newToken
  BY <1>2 DEF Tx
<1> HIDE DEF s
<1> QED BY <1>1, <1>3, <1>4, <1>5, <1>6, <1>7, MoveInv

LEMMA InsertTokenInv ==
  ASSUME TypeOK, ImportInv, NEW i \in Importers, InsertToken(i)
  PROVE  TypeOK' /\ ImportInv'
<1>1. CASE Refuse(i)
  BY <1>1, RefusedInv
<1>2. CASE OwnerStands(i)
  <2> DEFINE s == [tx[i] EXCEPT !.pc = "nodes", !.newToken = TRUE]
  <2>1. Open(i) /\ tx[i].pc = "token" /\ Step(i, s) /\ ~Past(i)
    BY <1>2 DEF InsertToken, Open, Past
  <2>2. tx[i] \in Tx /\ ~imported[i]
    BY <2>1, Knows DEF Repeats
  <2>3. s \in Tx
    BY <2>2 DEF Tx
  <2>4. /\ s.pc = "nodes" /\ s.at = tx[i].at /\ s.owner = tx[i].owner
        /\ s.newOwner = tx[i].newOwner /\ s.fresh = tx[i].fresh /\ s.binds = tx[i].binds
        /\ s.touched = tx[i].touched /\ s.newToken
    BY <2>2 DEF Tx
  <2> HIDE DEF s
  <2> QED BY <1>2, <2>1, <2>2, <2>3, <2>4, MoveInv
<1> QED BY <1>1, <1>2 DEF InsertToken

LEMMA ReadNodesInv ==
  ASSUME TypeOK, ImportInv, NEW i \in Importers, ReadNodes(i)
  PROVE  TypeOK' /\ ImportInv'
<1>1. CASE Refuse(i)
  BY <1>1, RefusedInv
<1>2. CASE ~(Kind[i] = "xray" /\ \E k \in DOMAIN File[i] : File[i][k].best[1] \notin nodes)
  <2> DEFINE s == [tx[i] EXCEPT !.pc = "find", !.nodes = nodes]
  <2>1. Open(i) /\ tx[i].pc = "nodes" /\ Step(i, s) /\ ~Past(i)
    BY <1>2 DEF ReadNodes, Open, Past
  <2>2. /\ tx[i] \in Tx /\ OwnerKnown(i) /\ RowsKnown(i) /\ FileKnown(i) /\ Undisturbed(i)
        /\ imported[i] => Present(i) /\ Repeats(i)
    BY <2>1, Knows
  <2>3. s \in Tx
    BY <2>2 DEF Tx, TypeOK
  <2>4. /\ s.pc = "find" /\ s.at = tx[i].at /\ s.owner = tx[i].owner
        /\ s.newOwner = tx[i].newOwner /\ s.fresh = tx[i].fresh /\ s.binds = tx[i].binds
        /\ s.touched = tx[i].touched /\ s.newToken = tx[i].newToken /\ s.nodes = nodes
    BY <2>2 DEF Tx
  <2> HIDE DEF s
  <2>5. tx'[i] = s /\ UNCHANGED <<customer, tokens, account, bound, nodes, imported>>
    BY <2>1, StepTx
  <2>6. tx[i].fresh = {} /\ tx[i].binds = {} /\ tx[i].at = 1
    BY <2>1, <2>2 DEF RowsKnown
  <2>7. OwnerKnown(i)'
    BY <2>1, <2>2, <2>4, <2>5 DEF OwnerKnown, OwnerStands
  <2>8. RowsKnown(i)'
    BY <2>4, <2>5, <2>6 DEF RowsKnown, Own, Past
  <2>9. FileKnown(i)'
    <3>1. \A k \in DOMAIN File[i] : ~(k < 1)
      BY LinkTypes
    <3>2. Entered(i)'
      BY <2>4, <2>5, <2>6, <3>1 DEF Entered
    <3>3. tx'[i].at \in 1 .. Len(File[i]) + 1
      BY <2>2, <2>4, <2>5 DEF FileKnown
    <3> QED BY <1>2, <2>4, <2>5, <3>2, <3>3 DEF FileKnown, Past
  <2>10. Undisturbed(i)'
    BY <2>1, <2>2, <2>4, <2>5 DEF Undisturbed, Past
  <2>11. imported[i] => Repeats(i)'
    BY <2>2, <2>4, <2>5 DEF Repeats
  <2> QED BY <2>1, <2>3, <2>4, <2>7, <2>8, <2>9, <2>10, <2>11, StaysApart, StepInv
<1> QED BY <1>1, <1>2 DEF ReadNodes

(***************************************************************************)
(* The links.                                                              *)
(***************************************************************************)

\* An import that is past a link more.
LEMMA EnteredNext ==
  ASSUME NEW i \in Importers, NEW k \in DOMAIN File[i], tx[i].at = k, Entered(i),
         tx'[i].at = k + 1,
         \A link : Stands(i, link) => Stands(i, link)',
         \A link : Tied(i, link) => Tied(i, link)',
         tx'[i].touched = tx[i].touched,
         Repeated(i, k) \/ File[i][k].uuid \in tx[i].touched
            \/ (Stands(i, File[i][k])' /\ Tied(i, File[i][k])')
  PROVE  Entered(i)' /\ tx'[i].at \in 1 .. Len(File[i]) + 1
<1>1. DOMAIN File[i] = 1 .. Len(File[i]) /\ Len(File[i]) \in Nat /\ k \in Nat
  BY LinkTypes
<1>2. \A l \in DOMAIN File[i] : l < k + 1 => l < k \/ l = k
  BY <1>1
<1>3. ASSUME NEW l \in DOMAIN File[i], l < tx'[i].at
      PROVE  \/ Repeated(i, l)
             \/ File[i][l].uuid \in tx'[i].touched
             \/ Stands(i, File[i][l])' /\ Tied(i, File[i][l])'
  BY <1>2, <1>3 DEF Entered
<1>4. Entered(i)'
  BY <1>3 DEF Entered
<1>5. k + 1 \in 1 .. Len(File[i]) + 1
  BY <1>1
<1> QED BY <1>4, <1>5

LEMMA LinkAt ==
  ASSUME TypeOK, ImportInv, NEW i \in Importers,
         AtLink(i) \/ tx[i].pc \in {"account", "bind"}
  PROVE  /\ Open(i) /\ Past(i) /\ tx[i].at \in DOMAIN File[i] /\ tx[i].at + 1 \in Nat
         /\ ThisLink(i) = File[i][tx[i].at]
         /\ ThisLink(i).uuid \in Uuids /\ ThisLink(i).flow \in Flows
<1>1. Open(i) /\ Past(i)
  BY DEF AtLink, Open, Past
<1>2. tx[i].at \in DOMAIN File[i]
  BY <1>1, Knows DEF FileKnown, AtLink
<1>3. ThisLink(i) = File[i][tx[i].at]
  BY DEF ThisLink
<1>4. /\ ThisLink(i).uuid \in Uuids /\ ThisLink(i).flow \in Flows /\ tx[i].at \in Nat
  BY <1>2, <1>3, LinkTypes
<1> QED BY <1>1, <1>2, <1>3, <1>4

LEMMA SkipRepeatedInv ==
  ASSUME TypeOK, ImportInv, NEW i \in Importers, SkipRepeated(i)
  PROVE  TypeOK' /\ ImportInv'
<1> DEFINE s == [tx[i] EXCEPT !.at = @ + 1]
<1>1. /\ AtLink(i) /\ tx[i].pc = "find" /\ Repeated(i, tx[i].at) /\ Step(i, s)
  BY DEF SkipRepeated, AtLink
<1>2. Open(i) /\ Past(i) /\ tx[i].at \in DOMAIN File[i] /\ tx[i].at + 1 \in Nat
  BY <1>1, LinkAt
<1>3. /\ tx[i] \in Tx /\ OwnerKnown(i) /\ RowsKnown(i) /\ FileKnown(i) /\ Undisturbed(i)
      /\ imported[i] => Present(i) /\ Repeats(i)
  BY <1>2, Knows
<1>4. s \in Tx
  BY <1>2, <1>3 DEF Tx
<1>5. /\ s.pc = "find" /\ s.at = tx[i].at + 1 /\ s.owner = tx[i].owner
      /\ s.newOwner = tx[i].newOwner /\ s.fresh = tx[i].fresh /\ s.binds = tx[i].binds
      /\ s.touched = tx[i].touched /\ s.newToken = tx[i].newToken /\ s.nodes = tx[i].nodes
  BY <1>1, <1>3 DEF Tx
<1> HIDE DEF s
<1>6. tx'[i] = s /\ UNCHANGED <<customer, tokens, account, bound, nodes, imported>>
  BY <1>1, StepTx
<1>7. OwnerKnown(i)'
  BY <1>1, <1>3, <1>5, <1>6 DEF OwnerKnown, OwnerStands
<1>8. RowsKnown(i)'
  BY <1>2, <1>3, <1>5, <1>6 DEF RowsKnown, Own, Past
<1>9. FileKnown(i)'
  <2>1. /\ \A link : Stands(i, link) => Stands(i, link)'
        /\ \A link : Tied(i, link) => Tied(i, link)'
    BY <1>5, <1>6 DEF Stands, Tied, Matches
  <2>2. Entered(i)' /\ tx'[i].at \in 1 .. Len(File[i]) + 1
    BY <1>1, <1>2, <1>3, <1>5, <1>6, <2>1, EnteredNext DEF FileKnown
  <2> QED BY <1>2, <1>3, <1>5, <1>6, <2>2 DEF FileKnown, Past
<1>10. Undisturbed(i)'
  BY <1>1, <1>2, <1>3, <1>5, <1>6 DEF Undisturbed, Past
<1>11. imported[i] => Repeats(i)'
  BY <1>3, <1>5, <1>6 DEF Repeats
<1> QED BY <1>1, <1>2, <1>4, <1>5, <1>7, <1>8, <1>9, <1>10, <1>11, StaysApart, StepInv

\* From the account of a link, found or inserted, to its binding or to the next.
LEMMA WithAccountInv ==
  ASSUME TypeOK, ImportInv, NEW i \in Importers, NEW next \in Tx, NEW id \in Nat,
         AtLink(i) \/ tx[i].pc = "account", WithAccount(i, next, id),
         ~Repeated(i, tx[i].at),
         next.at = tx[i].at, next.owner = tx[i].owner, next.newOwner = tx[i].newOwner,
         next.newToken = tx[i].newToken, next.nodes = tx[i].nodes, next.binds = tx[i].binds,
         next.touched = tx[i].touched, tx[i].fresh \subseteq next.fresh,
         \/ next.fresh = tx[i].fresh /\ Stands(i, ThisLink(i))
         \/ /\ next.fresh = tx[i].fresh \cup
                  {[uuid |-> ThisLink(i).uuid, flow |-> ThisLink(i).flow]}
            /\ ~Own(i, ThisLink(i).uuid) /\ ~account[ThisLink(i).uuid].here /\ OwnerStands(i)
            /\ \A j \in Importers \ {i} : Open(j) => ~Own(j, ThisLink(i).uuid),
         imported[i] => next.fresh = {} /\ id = account[ThisLink(i).uuid].id
  PROVE  TypeOK' /\ ImportInv'
<1> DEFINE none == Matches(i, ThisLink(i)) = <<>>
           s == IF none THEN [next EXCEPT !.pc = "find", !.at = @ + 1]
                        ELSE [next EXCEPT !.pc = "bind", !.held = id]
           fresh == [uuid |-> ThisLink(i).uuid, flow |-> ThisLink(i).flow]
<1>1. /\ Open(i) /\ Past(i) /\ tx[i].at \in DOMAIN File[i] /\ tx[i].at + 1 \in Nat
      /\ ThisLink(i) = File[i][tx[i].at]
      /\ ThisLink(i).uuid \in Uuids /\ ThisLink(i).flow \in Flows
  BY LinkAt
<1>2. /\ tx[i] \in Tx /\ OwnerKnown(i) /\ RowsKnown(i) /\ FileKnown(i) /\ Undisturbed(i)
      /\ imported[i] => Present(i) /\ Repeats(i)
  BY <1>1, Knows
<1>3. s \in Tx /\ Step(i, s)
  <2>1. [next EXCEPT !.pc = "find", !.at = @ + 1] \in Tx
    BY <1>1 DEF Tx
  <2>2. [next EXCEPT !.pc = "bind", !.held = id] \in Tx
    BY <1>1 DEF Tx
  <2> QED BY <2>1, <2>2 DEF WithAccount
<1>4. /\ s.owner = tx[i].owner /\ s.newOwner = tx[i].newOwner /\ s.fresh = next.fresh
      /\ s.binds = tx[i].binds /\ s.touched = tx[i].touched /\ s.newToken = tx[i].newToken
      /\ s.nodes = tx[i].nodes
      /\ \/ none /\ s.pc = "find" /\ s.at = tx[i].at + 1
         \/ ~none /\ s.pc = "bind" /\ s.at = tx[i].at /\ s.held = id
  BY DEF Tx
<1>5. tx[i].pc # "customer" /\ tx[i].pc \in {"find", "account"}
  BY DEF AtLink
<1> HIDE DEF s
<1>6. tx'[i] = s /\ UNCHANGED <<customer, tokens, account, bound, nodes, imported>>
  BY <1>3, StepTx
<1>7. OwnerKnown(i)'
  <2>1. s.newToken \/ s.fresh # {} => OwnerStands(i)
    BY <1>2, <1>4 DEF OwnerKnown, Stands
  <2>2. OwnerStands(i)' = OwnerStands(i)
    BY <1>4, <1>6 DEF OwnerStands
  <2> QED BY <1>2, <1>4, <1>5, <1>6, <2>1, <2>2 DEF OwnerKnown
<1>8. \A u : Own(i, u)' <=> (Own(i, u) \/ (u = ThisLink(i).uuid /\ s.fresh # tx[i].fresh))
  <2>1. CASE s.fresh = tx[i].fresh
    BY <1>6, <2>1 DEF Own
  <2>2. CASE s.fresh = tx[i].fresh \cup {fresh} /\ ~Own(i, ThisLink(i).uuid)
    <3>1. fresh.uuid = ThisLink(i).uuid /\ fresh \in s.fresh
      BY <2>2
    <3>2. fresh \notin tx[i].fresh
      BY <2>2, <3>1 DEF Own
    <3> QED BY <1>6, <2>2, <3>1, <3>2 DEF Own
  <2> QED BY <1>4, <2>1, <2>2
<1>9. RowsKnown(i)'
  <2>1. \A u \in Uuids : Own(i, u)' => ~account[u].here
    BY <1>2, <1>4, <1>8 DEF RowsKnown
  <2>2. \A a, b \in s.fresh : a.uuid = b.uuid => a = b
    <3>1. CASE s.fresh = tx[i].fresh
      BY <1>2, <3>1 DEF RowsKnown
    <3>2. CASE s.fresh = tx[i].fresh \cup {fresh} /\ ~Own(i, ThisLink(i).uuid)
      BY <1>2, <3>2 DEF RowsKnown, Own
    <3> QED BY <1>4, <3>1, <3>2
  <2>3. \A b \in tx[i].binds :
          /\ b[2] \in nodes /\ b \notin bound
          /\ Own(i, b[1])' \/ account[b[1]].here
          /\ b[1] \in tx[i].touched \/ Own(i, b[1])' \/ account[b[1]].owner = tx[i].owner
    BY <1>2, <1>8 DEF RowsKnown
  <2>4. Past(i)'
    BY <1>4, <1>6 DEF Past
  <2> QED BY <1>4, <1>6, <2>1, <2>2, <2>3, <2>4 DEF RowsKnown
<1>10. /\ \A link : Stands(i, link) => Stands(i, link)'
       /\ \A link : Tied(i, link) => Tied(i, link)'
       /\ \A link : Matches(i, link)' = Matches(i, link)
  BY <1>4, <1>6 DEF Stands, Tied, Matches
<1>a. PICK k \in DOMAIN File[i] : k = tx[i].at
  BY <1>1
<1>b. PICK link \in Link : link = ThisLink(i) /\ link = File[i][k]
  BY <1>1, <1>a, LinkTypes
<1>11. Stands(i, link)'
  <2>1. CASE s.fresh = tx[i].fresh /\ Stands(i, link)
    BY <1>10, <2>1
  <2>2. CASE s.fresh = tx[i].fresh \cup {fresh}
    BY <1>6, <1>b, <2>2 DEF Stands
  <2> QED BY <1>4, <1>b, <2>1, <2>2
<1>12. FileKnown(i)'
  <2>1. CASE none /\ s.pc = "find" /\ s.at = tx[i].at + 1
    <3>1. Tied(i, link)'
      BY <1>b, <1>10, <2>1 DEF Tied
    <3>2. tx'[i].at = k + 1 /\ tx[i].at = k /\ tx'[i].touched = tx[i].touched
      BY <1>a, <1>4, <1>6, <2>1
    <3>3. Entered(i)
      BY <1>1, <1>2 DEF FileKnown
    <3>4. Entered(i)' /\ tx'[i].at \in 1 .. Len(File[i]) + 1
      BY <1>b, <1>10, <1>11, <3>1, <3>2, <3>3, EnteredNext
    <3> QED BY <1>1, <1>2, <1>4, <1>6, <2>1, <3>4 DEF FileKnown, Past
  <2>2. CASE ~none /\ s.pc = "bind" /\ s.at = tx[i].at
    <3>1. Entered(i)'
      BY <1>1, <1>2, <1>4, <1>6, <1>10, <2>2 DEF FileKnown, Entered
    <3>2. ThisLink(i)' = link
      BY <1>a, <1>b, <1>6, <2>2 DEF ThisLink
    <3>3. Matches(i, ThisLink(i))' # <<>> /\ Stands(i, ThisLink(i))'
      <4>1. Matches(i, link)' = Matches(i, link)
        BY <1>10
      <4>2. Matches(i, ThisLink(i))' = Matches(i, link)
        BY <1>4, <1>6, <3>2 DEF Matches
      <4> QED BY <1>b, <1>6, <1>11, <2>2, <3>2, <4>2 DEF Stands
    <3> QED BY <1>1, <1>2, <1>4, <1>6, <2>2, <3>1, <3>3 DEF FileKnown, Past
  <2> QED BY <1>4, <2>1, <2>2
<1>13. Undisturbed(i)'
  BY <1>1, <1>2, <1>4, <1>5, <1>6 DEF Undisturbed, Past
<1>14. imported[i] => Repeats(i)'
  BY <1>2, <1>4, <1>6 DEF Repeats, ThisLink
<1>15. \A j \in Importers \ {i} : Open(j) =>
         /\ ~(s.newOwner /\ tx[j].newOwner)
         /\ \A a \in s.fresh, b \in tx[j].fresh : a.uuid # b.uuid
         /\ s.binds \cap tx[j].binds = {}
  <2> SUFFICES ASSUME NEW j \in Importers \ {i}, Open(j)
               PROVE  /\ ~(s.newOwner /\ tx[j].newOwner)
                      /\ \A a \in s.fresh, b \in tx[j].fresh : a.uuid # b.uuid
                      /\ s.binds \cap tx[j].binds = {}
    OBVIOUS
  <2>1. /\ ~(tx[i].newOwner /\ tx[j].newOwner)
        /\ \A a \in tx[i].fresh, b \in tx[j].fresh : a.uuid # b.uuid
        /\ tx[i].binds \cap tx[j].binds = {}
    BY <1>1 DEF TypeOK, ImportInv, Apart
  <2>2. CASE s.fresh = tx[i].fresh
    BY <1>4, <2>1, <2>2
  <2>3. CASE s.fresh = tx[i].fresh \cup {fresh} /\ ~Own(j, ThisLink(i).uuid)
    BY <1>4, <2>1, <2>3 DEF Own
  <2> QED BY <1>4, <2>2, <2>3
<1> QED BY <1>3, <1>7, <1>9, <1>12, <1>13, <1>14, <1>15, StepInv

LEMMA FindAccountInv ==
  ASSUME TypeOK, ImportInv, NEW i \in Importers, FindAccount(i)
  PROVE  TypeOK' /\ ImportInv'
<1> DEFINE link == ThisLink(i)
           row == account[link.uuid]
           mine == [uuid |-> link.uuid, flow |-> link.flow]
<1>1. AtLink(i) /\ tx[i].pc = "find" /\ ~Repeated(i, tx[i].at)
  BY DEF FindAccount, AtLink
<1>2. /\ Open(i) /\ Past(i) /\ tx[i].at \in DOMAIN File[i]
      /\ link = File[i][tx[i].at] /\ link.uuid \in Uuids
  BY <1>1, LinkAt
<1>3. /\ tx[i] \in Tx /\ OwnerKnown(i) /\ RowsKnown(i) /\ FileKnown(i) /\ Undisturbed(i)
      /\ imported[i] => Present(i) /\ Repeats(i)
  BY <1>2, Knows
<1>4. row.id \in Nat /\ row.id + 1 \in Nat
  BY <1>2 DEF TypeOK
<1>5. CASE Refuse(i)
  BY <1>5, RefusedInv
<1>6. CASE mine \in tx[i].fresh /\ WithAccount(i, tx[i], row.id + 1)
  <2>1. Stands(i, ThisLink(i))
    BY <1>6 DEF Stands
  <2>2. ~imported[i]
    BY <1>3, <1>6 DEF Repeats
  <2> QED BY <1>1, <1>3, <1>4, <1>6, <2>1, <2>2, WithAccountInv
<1>7. CASE row.here /\ row.owner = tx[i].owner /\ row.flow = link.flow /\ WithAccount(i, tx[i], row.id)
  <2>1. Stands(i, ThisLink(i))
    BY <1>7 DEF Stands
  <2>2. imported[i] => tx[i].fresh = {}
    BY <1>3 DEF Repeats
  <2> QED BY <1>1, <1>3, <1>4, <1>7, <2>1, <2>2, WithAccountInv
<1>8. CASE ~Own(i, link.uuid) /\ ~row.here /\ Step(i, [tx[i] EXCEPT !.pc = "account"])
  <2> DEFINE s == [tx[i] EXCEPT !.pc = "account"]
  <2>1. s \in Tx
    BY <1>3 DEF Tx
  <2>2. /\ s.pc = "account" /\ s.at = tx[i].at /\ s.owner = tx[i].owner
        /\ s.newOwner = tx[i].newOwner /\ s.fresh = tx[i].fresh /\ s.binds = tx[i].binds
        /\ s.touched = tx[i].touched /\ s.newToken = tx[i].newToken /\ s.nodes = tx[i].nodes
    BY <1>3 DEF Tx
  <2>3. Step(i, s)
    BY <1>8
  <2> HIDE DEF s
  <2>4. tx'[i] = s /\ UNCHANGED <<customer, tokens, account, bound, nodes, imported>>
    BY <2>3, StepTx
  <2>5. OwnerKnown(i)'
    BY <1>1, <1>3, <2>2, <2>4 DEF OwnerKnown, OwnerStands
  <2>6. RowsKnown(i)'
    BY <1>2, <1>3, <2>2, <2>4 DEF RowsKnown, Own, Past
  <2>7. FileKnown(i)'
    <3>1. Entered(i)'
      <4>1. \A l : Stands(i, l)' = Stands(i, l) /\ Tied(i, l)' = Tied(i, l)
        BY <2>2, <2>4 DEF Stands, Tied, Matches
      <4> QED BY <1>2, <1>3, <2>2, <2>4, <4>1 DEF FileKnown, Entered
    <3>2. ~Own(i, ThisLink(i).uuid)'
      BY <1>8, <2>2, <2>4 DEF Own, ThisLink
    <3> QED BY <1>1, <1>2, <1>3, <2>2, <2>4, <3>1, <3>2 DEF FileKnown, Past
  <2>8. Undisturbed(i)'
    BY <1>1, <1>2, <1>3, <2>2, <2>4 DEF Undisturbed, Past
  <2>9. ~imported[i]
    <3>1. Present(i) => \/ Repeated(i, tx[i].at) \/ account[File[i][tx[i].at].uuid].here
      BY <1>2 DEF Present
    <3> QED BY <1>1, <1>2, <1>3, <1>8, <3>1
  <2> QED BY <1>2, <2>1, <2>2, <2>3, <2>5, <2>6, <2>7, <2>8, <2>9, StaysApart, StepInv
<1> QED BY <1>5, <1>6, <1>7, <1>8 DEF FindAccount

LEMMA InsertAccountInv ==
  ASSUME TypeOK, ImportInv, NEW i \in Importers, InsertAccount(i)
  PROVE  TypeOK' /\ ImportInv'
<1> DEFINE link == ThisLink(i)
           mine == [uuid |-> link.uuid, flow |-> link.flow]
           next == [tx[i] EXCEPT !.fresh = @ \cup {mine}]
           id == account[link.uuid].id + 1
<1>1. /\ tx[i].pc = "account" /\ \A j \in Importers \ {i} : Open(j) => ~Own(j, link.uuid)
  BY DEF InsertAccount
<1>2. /\ Open(i) /\ Past(i) /\ tx[i].at \in DOMAIN File[i]
      /\ link = File[i][tx[i].at] /\ link.uuid \in Uuids /\ link.flow \in Flows
  BY <1>1, LinkAt
<1>3. /\ tx[i] \in Tx /\ OwnerKnown(i) /\ RowsKnown(i) /\ FileKnown(i) /\ Undisturbed(i)
      /\ imported[i] => Present(i) /\ Repeats(i)
  BY <1>2, Knows
<1>4. CASE Refuse(i)
  BY <1>4, RefusedInv
<1>5. CASE ~account[link.uuid].here /\ OwnerStands(i) /\ WithAccount(i, next, id)
  <2>1. id \in Nat
    BY <1>2 DEF TypeOK
  <2>2. next \in Tx
    <3>1. mine \in [uuid: Uuids, flow: Flows]
      BY <1>2
    <3> HIDE DEF mine
    <3> QED BY <1>3, <3>1 DEF Tx
  <2>3. /\ next.at = tx[i].at /\ next.owner = tx[i].owner /\ next.newOwner = tx[i].newOwner
        /\ next.newToken = tx[i].newToken /\ next.nodes = tx[i].nodes
        /\ next.binds = tx[i].binds /\ next.touched = tx[i].touched
        /\ next.fresh = tx[i].fresh \cup {mine}
    BY <1>3 DEF Tx
  <2>4. ~Own(i, link.uuid) /\ ~imported[i]
    BY <1>1, <1>3 DEF FileKnown, Repeats
  <2>5. ~Repeated(i, tx[i].at)
    BY <1>1, <1>3 DEF FileKnown
  <2> HIDE DEF next, id
  <2> QED BY <1>1, <1>5, <2>1, <2>2, <2>3, <2>4, <2>5, WithAccountInv
<1> QED BY <1>4, <1>5 DEF InsertAccount

LEMMA BindInv ==
  ASSUME TypeOK, ImportInv, NEW i \in Importers, Bind(i)
  PROVE  TypeOK' /\ ImportInv'
<1>1. tx[i].pc = "bind" /\ \A j \in Importers \ {i} : Open(j) => Target(i) \notin tx[j].binds
  BY DEF Bind
<1>2. /\ Open(i) /\ Past(i) /\ tx[i].at \in DOMAIN File[i] /\ tx[i].at + 1 \in Nat
      /\ ThisLink(i) = File[i][tx[i].at] /\ ThisLink(i).uuid \in Uuids
  BY <1>1, LinkAt
<1>3. /\ tx[i] \in Tx /\ OwnerKnown(i) /\ RowsKnown(i) /\ FileKnown(i) /\ Undisturbed(i)
      /\ imported[i] => Present(i) /\ Repeats(i)
  BY <1>2, Knows
<1>4. CASE Refuse(i)
  BY <1>4, RefusedInv
<1>5. CASE /\ Bindable(i, Target(i)[1], Target(i)[2])
           /\ Step(i, [tx[i] EXCEPT !.pc = "find", !.at = @ + 1, !.binds = @ \cup ({Target(i)} \ bound)])
  <2> PICK k \in DOMAIN File[i] : k = tx[i].at
    BY <1>2
  <2> PICK link : link = ThisLink(i) /\ link = File[i][k]
    BY <1>2
  <2> PICK n : n = Matches(i, link)[1]
    OBVIOUS
  <2> DEFINE b == <<link.uuid, n>>
             s == [tx[i] EXCEPT !.pc = "find", !.at = @ + 1, !.binds = @ \cup ({b} \ bound)]
  <2>1. Target(i) = b /\ b[1] = link.uuid /\ b[2] = n
    BY DEF Target
  <2>2. n \in nodes /\ n \in Nodes
    BY <1>5, <2>1 DEF Bindable, TypeOK
  <2>3. b \in Uuids \X Nodes
    BY <1>2, <2>2
  <2>4. Step(i, s)
    BY <1>5, <2>1
  <2>5. s \in Tx
    BY <1>2, <1>3, <2>3 DEF Tx
  <2>6. /\ s.pc = "find" /\ s.at = tx[i].at + 1 /\ s.owner = tx[i].owner
        /\ s.newOwner = tx[i].newOwner /\ s.fresh = tx[i].fresh
        /\ s.binds = tx[i].binds \cup ({b} \ bound)
        /\ s.touched = tx[i].touched /\ s.newToken = tx[i].newToken /\ s.nodes = tx[i].nodes
    BY <1>3 DEF Tx
  <2>7. Own(i, b[1]) \/ account[b[1]].here
    BY <1>5, <2>1 DEF Bindable
  <2>8. link.uuid \in tx[i].touched \/ Stands(i, link)
    BY <1>1, <1>3 DEF FileKnown
  <2> HIDE DEF s, b
  <2>9. tx'[i] = s /\ UNCHANGED <<customer, tokens, account, bound, nodes, imported>>
    BY <2>4, StepTx
  <2>10. OwnerKnown(i)'
    BY <1>1, <1>3, <2>6, <2>9 DEF OwnerKnown, OwnerStands
  <2>11. RowsKnown(i)'
    <3>1. \A u : Own(i, u)' = Own(i, u)
      BY <2>6, <2>9 DEF Own
    <3>2. ASSUME NEW c \in s.binds
          PROVE  /\ c[2] \in nodes /\ c \notin bound
                 /\ Own(i, c[1]) \/ account[c[1]].here
                 /\ c[1] \in tx[i].touched \/ Own(i, c[1]) \/ account[c[1]].owner = tx[i].owner
      <4>1. CASE c \in tx[i].binds
        BY <1>3, <4>1 DEF RowsKnown
      <4>2. CASE c = b /\ c \notin bound
        <5>1. b[1] \in tx[i].touched \/ Own(i, b[1]) \/ account[b[1]].owner = tx[i].owner
          BY <2>1, <2>8 DEF Stands, Own
        <5> QED BY <2>1, <2>2, <2>7, <4>2, <5>1
      <4> QED BY <2>6, <3>2, <4>1, <4>2
    <3> QED BY <1>2, <1>3, <2>6, <2>9, <3>1, <3>2 DEF RowsKnown, Past
  <2>12. FileKnown(i)'
    <3>1. /\ \A l : Stands(i, l) => Stands(i, l)'
          /\ \A l : Tied(i, l) => Tied(i, l)'
          /\ \A l : Matches(i, l)' = Matches(i, l)
      BY <2>6, <2>9 DEF Stands, Tied, Matches
    <3>2. Tied(i, link)'
      BY <2>1, <2>6, <2>9, <3>1 DEF Tied, b
    <3>3. /\ tx'[i].at = k + 1 /\ tx[i].at = k /\ tx'[i].touched = tx[i].touched
          /\ Entered(i)
      BY <1>2, <1>3, <2>6, <2>9 DEF FileKnown
    <3>4. File[i][k].uuid \in tx[i].touched
            \/ (Stands(i, File[i][k])' /\ Tied(i, File[i][k])')
      <4>1. link.uuid \in tx[i].touched \/ (Stands(i, link)' /\ Tied(i, link)')
        BY <2>8, <3>1, <3>2
      <4> QED BY <4>1
    <3>5. Entered(i)' /\ tx'[i].at \in 1 .. Len(File[i]) + 1
      BY <3>1, <3>3, <3>4, EnteredNext
    <3> QED BY <1>2, <1>3, <2>6, <2>9, <3>5 DEF FileKnown, Past
  <2>13. Undisturbed(i)'
    BY <1>1, <1>2, <1>3, <2>6, <2>9 DEF Undisturbed, Past
  <2>14. imported[i] => Repeats(i)'
    <3> SUFFICES ASSUME imported[i] PROVE Repeats(i)'
      OBVIOUS
    <3>1. tx[i].nodes = nodes /\ ~Repeated(i, k) /\ Present(i) /\ Repeats(i)
      BY <1>1, <1>2, <1>3 DEF FileKnown, Repeats, Undisturbed
    <3>2. Matches(i, link) # <<>> /\ Matches(i, link) = Matching(nodes, link)
      BY <1>1, <1>3, <3>1 DEF FileKnown, Matches
    <3>3. b \in bound
      BY <3>1, <3>2 DEF Present, b
    <3> QED BY <2>6, <2>9, <3>1, <3>3 DEF Repeats
  <2>15. \A j \in Importers \ {i} : Open(j) =>
           /\ ~(s.newOwner /\ tx[j].newOwner)
           /\ \A a \in s.fresh, c \in tx[j].fresh : a.uuid # c.uuid
           /\ s.binds \cap tx[j].binds = {}
    <3> SUFFICES ASSUME NEW j \in Importers \ {i}, Open(j)
                 PROVE  /\ ~(s.newOwner /\ tx[j].newOwner)
                        /\ \A a \in s.fresh, c \in tx[j].fresh : a.uuid # c.uuid
                        /\ s.binds \cap tx[j].binds = {}
      OBVIOUS
    <3>1. /\ ~(tx[i].newOwner /\ tx[j].newOwner)
          /\ \A a \in tx[i].fresh, c \in tx[j].fresh : a.uuid # c.uuid
          /\ tx[i].binds \cap tx[j].binds = {}
      BY <1>2 DEF TypeOK, ImportInv, Apart
    <3>2. b \notin tx[j].binds
      BY <1>1, <2>1
    <3> QED BY <2>6, <3>1, <3>2
  <2> QED BY <2>4, <2>5, <2>10, <2>11, <2>12, <2>13, <2>14, <2>15, StepInv
<1> QED BY <1>4, <1>5 DEF Bind

(***************************************************************************)
(* The commit.                                                             *)
(***************************************************************************)

\* What a commit does to the rows.
LEMMA CommitRows ==
  ASSUME TypeOK, ImportInv, NEW i \in Importers, Commit(i)
  PROVE  /\ Open(i) /\ Past(i) /\ tx[i] \in Tx
         /\ OwnerKnown(i) /\ RowsKnown(i) /\ FileKnown(i) /\ Undisturbed(i)
         /\ tx'[i] = NoTx /\ \A j \in Importers \ {i} : tx'[j] = tx[j] /\ imported'[j] = imported[j]
         /\ imported'[i] <=> tx[i].touched = {}
         /\ customer.here => customer' = customer
         /\ customer' = customer \/ (tx[i].newOwner /\ customer' = [here |-> TRUE, id |-> tx[i].owner])
         /\ OwnerStands(i) => customer'.here /\ customer'.id = tx[i].owner
         /\ \A u \in Uuids : ~Own(i, u) => account'[u] = account[u]
         /\ \A u \in Uuids : account[u].here => account'[u] = account[u]
         /\ \A a \in tx[i].fresh :
               account'[a.uuid] = [here |-> TRUE, id |-> account[a.uuid].id + 1,
                                   owner |-> tx[i].owner, flow |-> a.flow]
         /\ bound' = bound \cup tx[i].binds /\ nodes' = nodes
<1>1. Open(i) /\ Past(i)
  BY DEF Commit, Open, Past
<1>2. /\ tx[i] \in Tx /\ OwnerKnown(i) /\ RowsKnown(i) /\ FileKnown(i) /\ Undisturbed(i)
  BY <1>1, Knows
<1>3. /\ tx'[i] = NoTx /\ \A j \in Importers \ {i} : tx'[j] = tx[j] /\ imported'[j] = imported[j]
      /\ imported'[i] <=> tx[i].touched = {}
  BY DEF Commit, TypeOK
<1>4. customer.here => customer' = customer
  BY <1>2 DEF Commit, OwnerKnown
<1>5. customer' = customer \/ (tx[i].newOwner /\ customer' = [here |-> TRUE, id |-> tx[i].owner])
  BY DEF Commit
<1>6. OwnerStands(i) => customer'.here /\ customer'.id = tx[i].owner
  BY <1>4 DEF Commit, OwnerStands
<1>7. \A u \in Uuids : ~Own(i, u) => account'[u] = account[u]
  BY DEF Commit
<1>8. \A u \in Uuids : account[u].here => account'[u] = account[u]
  BY <1>2, <1>7 DEF RowsKnown
<1>9. ASSUME NEW a \in tx[i].fresh
      PROVE  account'[a.uuid] = [here |-> TRUE, id |-> account[a.uuid].id + 1,
                                 owner |-> tx[i].owner, flow |-> a.flow]
  <2>1. a.uuid \in Uuids
    BY <1>2 DEF Tx
  <2>2. \A b \in tx[i].fresh : b.uuid = a.uuid => b = a
    BY <1>2 DEF RowsKnown
  <2>3. (CHOOSE b \in tx[i].fresh : b.uuid = a.uuid) = a
    BY <2>2
  <2>4. Own(i, a.uuid)
    BY DEF Own
  <2> QED BY <2>1, <2>3, <2>4 DEF Commit
<1> QED BY <1>1, <1>2, <1>3, <1>4, <1>5, <1>6, <1>7, <1>8, <1>9 DEF Commit

\* What an import leaves when it commits.
LEMMA CommitLeaves ==
  ASSUME TypeOK, ImportInv, NEW i \in Importers, Commit(i), NEW k \in DOMAIN File[i],
         ~Repeated(i, k), File[i][k].uuid \notin tx[i].touched
  PROVE  /\ account'[File[i][k].uuid].here
         /\ account'[File[i][k].uuid].owner = customer'.id
         /\ account'[File[i][k].uuid].flow = File[i][k].flow
         /\ \/ Matches(i, File[i][k]) = <<>>
            \/ Matches(i, File[i][k])[1] \in tx[i].touched
            \/ <<File[i][k].uuid, Matches(i, File[i][k])[1]>> \in bound'
<1> PICK link \in Link : link = File[i][k] /\ link.uuid \in Uuids
  BY LinkTypes
<1>1. k < tx[i].at
  BY LinkTypes DEF Commit
<1>2. Stands(i, link) /\ Tied(i, link)
  BY <1>1, CommitRows DEF FileKnown, Entered
<1>3. \/ Matches(i, link) = <<>>
      \/ Matches(i, link)[1] \in tx[i].touched
      \/ <<link.uuid, Matches(i, link)[1]>> \in bound'
  BY <1>2, CommitRows DEF Tied
<1>4. CASE [uuid |-> link.uuid, flow |-> link.flow] \in tx[i].fresh
  <2>1. account'[link.uuid] = [here |-> TRUE, id |-> account[link.uuid].id + 1,
                               owner |-> tx[i].owner, flow |-> link.flow]
    <3>1. PICK a \in tx[i].fresh : a.uuid = link.uuid /\ a.flow = link.flow
      BY <1>4
    <3>2. account'[a.uuid] = [here |-> TRUE, id |-> account[a.uuid].id + 1,
                              owner |-> tx[i].owner, flow |-> a.flow]
      BY CommitRows
    <3> QED BY <3>1, <3>2
  <2>2. customer'.id = tx[i].owner
    BY <1>4, CommitRows DEF OwnerKnown
  <2> QED BY <1>3, <2>1, <2>2
<1>5. CASE /\ account[link.uuid].here
           /\ account[link.uuid].owner = tx[i].owner /\ account[link.uuid].flow = link.flow
  <2>1. tx[i].owner > 0
    BY CommitRows DEF OwnerKnown, Past
  <2>2. customer.here /\ tx[i].owner = customer.id
    BY <1>5, <2>1 DEF TypeOK, Other
  <2> QED BY <1>3, <1>5, <2>2, CommitRows
<1> QED BY <1>2, <1>4, <1>5 DEF Stands

LEMMA CommitTypes ==
  ASSUME TypeOK, ImportInv, NEW i \in Importers, Commit(i)
  PROVE  TypeOK'
<1>1. customer' \in [here: BOOLEAN, id: Nat]
  <2>1. customer \in [here: BOOLEAN, id: Nat]
    BY DEF TypeOK
  <2>2. tx[i].owner \in Nat
    BY CommitRows DEF Tx
  <2>3. customer' = customer \/ customer' = [here |-> TRUE, id |-> tx[i].owner]
    BY CommitRows
  <2>4. [here |-> TRUE, id |-> tx[i].owner] \in [here: BOOLEAN, id: Nat]
    BY <2>2
  <2> QED
    <3>1. CASE customer' = customer
      BY <2>1, <3>1
    <3>2. CASE customer' = [here |-> TRUE, id |-> tx[i].owner]
      BY <2>4, <3>2
    <3> QED BY <2>3, <3>1, <3>2
<1>2. tokens' \in Nat /\ (tokens' > 0 => customer'.here)
  <2>1. tokens' \in Nat /\ (tokens' = tokens \/ tx[i].newToken)
    BY DEF Commit, TypeOK
  <2>2. tx[i].newToken => customer'.here
    BY CommitRows DEF OwnerKnown
  <2>3. tokens > 0 => customer'.here
    BY CommitRows DEF TypeOK
  <2> QED BY <2>1, <2>2, <2>3
<1>3. ASSUME NEW u \in Uuids
      PROVE  /\ account'[u] \in [here: BOOLEAN, id: Nat, owner: Nat, flow: Flows]
             /\ (account'[u].here /\ account'[u].owner # Other)
                   => customer'.here /\ account'[u].owner = customer'.id
  <2>1. CASE Own(i, u)
    <3>1. PICK a \in tx[i].fresh : a.uuid = u
      BY <2>1 DEF Own
    <3>2. account'[u] = [here |-> TRUE, id |-> account[u].id + 1,
                         owner |-> tx[i].owner, flow |-> a.flow]
      BY <3>1, CommitRows
    <3>3. a.flow \in Flows /\ tx[i].owner \in Nat
      BY CommitRows DEF Tx
    <3>4. customer'.here /\ customer'.id = tx[i].owner
      BY <3>1, CommitRows DEF OwnerKnown
    <3>5. account[u].id + 1 \in Nat
      BY DEF TypeOK
    <3> QED BY <3>2, <3>3, <3>4, <3>5
  <2>2. CASE ~Own(i, u)
    <3>1. account'[u] = account[u]
      BY <2>2, CommitRows
    <3>2. (account[u].here /\ account[u].owner # Other)
             => customer.here /\ account[u].owner = customer.id
      BY DEF TypeOK
    <3>3. customer.here => customer' = customer
      BY CommitRows
    <3> QED BY <3>1, <3>2, <3>3 DEF TypeOK
  <2> QED BY <2>1, <2>2
<1>4. account' \in [Uuids -> [here: BOOLEAN, id: Nat, owner: Nat, flow: Flows]]
  <2>1. account' = [u \in Uuids |-> account'[u]]
    BY DEF Commit
  <2> QED BY <1>3, <2>1
<1>5. bound' \subseteq Uuids \X nodes'
  <2>1. ASSUME NEW b \in tx[i].binds PROVE b \in Uuids \X nodes
    <3>1. b \in Uuids \X Nodes /\ b[2] \in nodes
      BY CommitRows DEF Tx, RowsKnown
    <3> QED BY <3>1
  <2> QED BY <2>1, CommitRows DEF TypeOK
<1>6. \A b \in bound' : account'[b[1]].here
  <2>1. ASSUME NEW b \in bound PROVE account'[b[1]].here
    <3>1. account[b[1]].here /\ b[1] \in Uuids
      BY DEF TypeOK
    <3> QED BY <3>1, CommitRows
  <2>2. ASSUME NEW b \in tx[i].binds PROVE account'[b[1]].here
    <3>1. b[1] \in Uuids /\ (Own(i, b[1]) \/ account[b[1]].here)
      BY CommitRows DEF Tx, RowsKnown
    <3>2. ASSUME Own(i, b[1]) PROVE account'[b[1]].here
      <4>1. PICK a \in tx[i].fresh : a.uuid = b[1]
        BY <3>2 DEF Own
      <4>2. account'[a.uuid] = [here |-> TRUE, id |-> account[a.uuid].id + 1,
                                owner |-> tx[i].owner, flow |-> a.flow]
        BY CommitRows
      <4> QED BY <4>1, <4>2
    <3> QED BY <3>1, <3>2, CommitRows
  <2> QED BY <2>1, <2>2, CommitRows
<1>7. /\ tx' \in [Importers -> {NoTx} \cup Tx]
      /\ imported' \in [Importers -> BOOLEAN]
      /\ nodes' \subseteq Nodes
      /\ changes' \in 0 .. MaxChanges /\ faults' \in 0 .. MaxFaults
  BY DEF Commit, TypeOK
<1>8. \A j, l \in Importers : (j # l /\ Open(j)' /\ Open(l)') =>
         /\ ~(tx'[j].newOwner /\ tx'[l].newOwner)
         /\ \A a \in tx'[j].fresh, b \in tx'[l].fresh : a.uuid # b.uuid
  <2>1. \A j \in Importers : Open(j)' => j # i /\ tx'[j] = tx[j] /\ Open(j)
    BY CommitRows DEF Open, NoTx
  <2> QED BY <2>1 DEF TypeOK
<1> QED BY <1>1, <1>2, <1>3, <1>4, <1>5, <1>6, <1>7, <1>8 DEF TypeOK

\* The other open transactions, over the rows that are now committed.
LEMMA CommitOthers ==
  ASSUME TypeOK, ImportInv, NEW i \in Importers, Commit(i), NEW j \in Importers \ {i}, Open(j)
  PROVE  OwnerKnown(j)' /\ RowsKnown(j)' /\ FileKnown(j)' /\ Undisturbed(j)'
<1>1. /\ tx[j] \in Tx /\ OwnerKnown(j) /\ RowsKnown(j) /\ FileKnown(j) /\ Undisturbed(j)
  BY Knows
<1>2. /\ tx'[j] = tx[j] /\ nodes' = nodes /\ bound' = bound \cup tx[i].binds
      /\ customer.here => customer' = customer
  BY CommitRows
<1>3. /\ ~(tx[i].newOwner /\ tx[j].newOwner)
      /\ \A u : Own(i, u) => ~Own(j, u)
      /\ tx[i].binds \cap tx[j].binds = {}
  BY CommitRows DEF TypeOK, ImportInv, Apart, Own
<1>4. tx[j].newOwner => customer' = customer
  BY <1>3, CommitRows
<1>5. tokens \in Nat /\ (tokens > 0 => tokens' > 0)
  BY DEF Commit, TypeOK
<1>6. /\ \A u \in Uuids : Own(j, u) => account'[u] = account[u]
      /\ \A u \in Uuids : account[u].here => account'[u] = account[u]
  BY <1>3, CommitRows
<1>7. OwnerKnown(j)'
  BY <1>1, <1>2, <1>4 DEF OwnerKnown, OwnerStands
<1>8. \A u : Own(j, u)' = Own(j, u)
  BY <1>2 DEF Own
<1>9. RowsKnown(j)'
  <2>1. \A u \in Uuids : Own(j, u) => ~account'[u].here
    BY <1>1, <1>6 DEF RowsKnown
  <2>2. ASSUME NEW b \in tx[j].binds
        PROVE  /\ b[2] \in nodes' /\ b \notin bound'
               /\ Own(j, b[1]) \/ account'[b[1]].here
               /\ b[1] \in tx[j].touched \/ Own(j, b[1]) \/ account'[b[1]].owner = tx[j].owner
    <3>1. b[1] \in Uuids
      BY <1>1 DEF Tx
    <3>2. /\ b[2] \in nodes /\ b \notin bound
          /\ Own(j, b[1]) \/ account[b[1]].here
          /\ b[1] \in tx[j].touched \/ Own(j, b[1]) \/ account[b[1]].owner = tx[j].owner
      BY <1>1 DEF RowsKnown
    <3> QED BY <1>2, <1>3, <1>6, <3>1, <3>2
  <2> QED BY <1>1, <1>2, <1>8, <2>1, <2>2 DEF RowsKnown, Past
<1>10. FileKnown(j)'
  <2>1. \A link : link.uuid \in Uuids /\ Stands(j, link) => Stands(j, link)'
    BY <1>2, <1>6 DEF Stands
  <2>2. \A link : Tied(j, link) => Tied(j, link)'
    BY <1>2 DEF Tied, Matches
  <2>3. \A k \in DOMAIN File[j] : File[j][k].uuid \in Uuids
    BY LinkTypes
  <2>4. Entered(j) => Entered(j)'
    BY <1>2, <2>1, <2>2, <2>3 DEF Entered
  <2>5. /\ ThisLink(j)' = ThisLink(j) /\ Past(j)' = Past(j)
        /\ tx[j].at \in DOMAIN File[j] => ThisLink(j).uuid \in Uuids
    BY <1>2, <2>3 DEF ThisLink, Past
  <2>6. Matches(j, ThisLink(j))' = Matches(j, ThisLink(j))
    BY <1>2, <2>5 DEF Matches
  <2>7. Own(j, ThisLink(j).uuid)' = Own(j, ThisLink(j).uuid)
    BY <1>2, <2>5 DEF Own
  <2>8. tx[j].at \in DOMAIN File[j] /\ Stands(j, ThisLink(j)) => Stands(j, ThisLink(j))'
    <3>1. PICK link : link = ThisLink(j)
      OBVIOUS
    <3>2. link.uuid \in Uuids /\ Stands(j, link) => Stands(j, link)'
      BY <2>1
    <3>3. Stands(j, link)' => Stands(j, ThisLink(j))'
      BY <2>5, <3>1 DEF Stands
    <3> QED BY <2>5, <3>1, <3>2, <3>3
  <2> QED BY <1>1, <1>2, <2>4, <2>5, <2>6, <2>7, <2>8 DEF FileKnown
<1>11. Undisturbed(j)'
  BY <1>1, <1>2, <1>5 DEF Undisturbed, Commit, Past
<1> QED BY <1>7, <1>9, <1>10, <1>11

LEMMA CommitInv ==
  ASSUME TypeOK, ImportInv, NEW i \in Importers, Commit(i)
  PROVE  TypeOK' /\ ImportInv'
<1>1. /\ Open(i) /\ Past(i) /\ tx[i] \in Tx /\ tx'[i] = NoTx /\ nodes' = nodes
      /\ OwnerKnown(i) /\ RowsKnown(i) /\ FileKnown(i) /\ Undisturbed(i)
  BY CommitRows
<1>2. \A j \in Importers : Open(j)' => j \in Importers \ {i} /\ Open(j) /\ tx'[j] = tx[j]
  BY CommitRows DEF Open, NoTx
<1>3. customer'.here => customer'.id > 0
  <2>1. customer' = customer \/ customer'.id = tx[i].owner
    BY CommitRows
  <2>2. tx[i].owner > 0
    BY <1>1 DEF OwnerKnown, Past
  <2> QED BY <2>1, <2>2 DEF ImportInv
<1>4. \A j \in Importers : Open(j)' =>
         OwnerKnown(j)' /\ RowsKnown(j)' /\ FileKnown(j)' /\ Undisturbed(j)'
  BY <1>2, CommitOthers
<1>5. \A j, l \in Importers : (j # l /\ Open(j)' /\ Open(l)') => Apart(j, l)'
  BY <1>2 DEF ImportInv, Apart
<1>6. ASSUME NEW j \in Importers \ {i}, imported'[j]
      PROVE  Present(j)' /\ (Open(j)' => Repeats(j)')
  <2>1. Present(j) /\ (Open(j) => Repeats(j))
    BY <1>6, CommitRows DEF ImportInv
  <2>2. /\ customer' = customer /\ customer.here /\ bound \subseteq bound' /\ nodes' = nodes
        /\ \A u \in Uuids : account[u].here => account'[u] = account[u]
    BY <2>1, CommitRows DEF Present
  <2>3. tokens > 0 => tokens' > 0
    BY DEF Commit, TypeOK
  <2>4. \A k \in DOMAIN File[j] : File[j][k].uuid \in Uuids
    BY LinkTypes
  <2>5. Present(j)'
    BY <2>1, <2>2, <2>3, <2>4 DEF Present
  <2>6. ASSUME Open(j)' PROVE Repeats(j)'
    <3>1. Open(j) /\ tx'[j] = tx[j] /\ Repeats(j) /\ FileKnown(j)
      BY <1>2, <2>1, <2>6 DEF ImportInv
    <3>2. tx[j].pc = "bind" => account'[ThisLink(j).uuid] = account[ThisLink(j).uuid]
      <4> SUFFICES ASSUME tx[j].pc = "bind"
                   PROVE  account'[ThisLink(j).uuid] = account[ThisLink(j).uuid]
        OBVIOUS
      <4>1. tx[j].at \in DOMAIN File[j] /\ ~Repeated(j, tx[j].at)
        BY <3>1 DEF FileKnown
      <4>2. account[File[j][tx[j].at].uuid].here
        BY <2>1, <4>1 DEF Present
      <4> QED BY <2>2, <2>4, <4>1, <4>2 DEF ThisLink
    <3>3. ThisLink(j)' = ThisLink(j)
      BY <3>1 DEF ThisLink
    <3> QED BY <3>1, <3>2, <3>3 DEF Repeats
  <2> QED BY <2>5, <2>6
<1>7. ASSUME imported'[i] PROVE Present(i)'
  <2>1. tx[i].touched = {} /\ tx[i].nodes = nodes
    BY <1>1, <1>7, CommitRows DEF Undisturbed
  <2>2. customer'.here
    <3>1. OwnerStands(i)
      BY <1>1, <2>1 DEF Undisturbed, OwnerStands, Past
    <3> QED BY <3>1, CommitRows
  <2>3. Kind[i] = "subscription" => tokens' > 0
    <3>1. Kind[i] = "subscription" => tx[i].newToken \/ tokens > 0
      BY <1>1, <2>1 DEF Undisturbed
    <3> QED BY <3>1 DEF Commit, TypeOK
  <2>4. Kind[i] = "xray" => \A k \in DOMAIN File[i] : File[i][k].best[1] \in nodes'
    BY <1>1, <2>1 DEF FileKnown
  <2>5. \A k \in DOMAIN File[i] :
          \/ Repeated(i, k)
          \/ /\ account'[File[i][k].uuid].here
             /\ account'[File[i][k].uuid].owner = customer'.id
             /\ account'[File[i][k].uuid].flow = File[i][k].flow
             /\ \/ Matching(nodes', File[i][k]) = <<>>
                \/ <<File[i][k].uuid, Matching(nodes', File[i][k])[1]>> \in bound'
    <3>1. \A link : Matches(i, link) = Matching(nodes', link)
      BY <1>1, <2>1 DEF Matches
    <3> QED BY <2>1, <3>1, CommitLeaves
  <2> QED BY <2>2, <2>3, <2>4, <2>5 DEF Present
<1>8. ~Open(i)'
  BY <1>1 DEF Open, NoTx
<1> QED BY <1>3, <1>4, <1>5, <1>6, <1>7, <1>8, CommitTypes DEF ImportInv

(***************************************************************************)
(* Administrators.                                                         *)
(***************************************************************************)

LEMMA ChangeTypes ==
  ASSUME TypeOK, NEW what \in SUBSET (Uuids \cup Nodes), Change(what),
         customer' \in [here: BOOLEAN, id: Nat],
         tokens' \in Nat, tokens' > 0 => customer'.here,
         account' \in [Uuids -> [here: BOOLEAN, id: Nat, owner: Nat, flow: Flows]],
         \A u \in Uuids : (account'[u].here /\ account'[u].owner # Other)
            => customer'.here /\ account'[u].owner = customer'.id,
         bound' \subseteq Uuids \X nodes', \A b \in bound' : account'[b[1]].here,
         nodes' \subseteq Nodes
  PROVE  /\ TypeOK'
         /\ \A j \in Importers : Open(j)' =>
               /\ Open(j) /\ tx[j] \in Tx /\ tx'[j] \in Tx
               /\ tx'[j] = [tx[j] EXCEPT !.touched = @ \cup what]
         /\ \A j \in Importers : Open(j) => Open(j)'
<1>1. \A j \in Importers : tx'[j] = IF Open(j) THEN [tx[j] EXCEPT !.touched = @ \cup what] ELSE NoTx
  BY DEF Change
<1>2. ASSUME NEW j \in Importers, Open(j)
      PROVE  /\ tx[j] \in Tx /\ tx'[j] \in Tx /\ Open(j)'
             /\ tx'[j] = [tx[j] EXCEPT !.touched = @ \cup what]
             /\ tx'[j].newOwner = tx[j].newOwner /\ tx'[j].fresh = tx[j].fresh
  <2>1. tx[j] \in Tx /\ tx'[j] = [tx[j] EXCEPT !.touched = @ \cup what]
    BY <1>1, <1>2, TxTypes
  <2>2. tx'[j] \in Tx
    <3>1. tx[j].touched \cup what \in SUBSET (Uuids \cup Nodes)
      BY <2>1 DEF Tx
    <3> DEFINE t == tx[j].touched \cup what
    <3>2. tx'[j] = [tx[j] EXCEPT !.touched = t]
      BY <2>1 DEF Tx
    <3> HIDE DEF t
    <3>3. t \in SUBSET (Uuids \cup Nodes)
      BY <3>1 DEF t
    <3> QED BY <2>1, <3>2, <3>3 DEF Tx
  <2>3. tx'[j].pc = tx[j].pc /\ tx'[j].newOwner = tx[j].newOwner /\ tx'[j].fresh = tx[j].fresh
    BY <2>1 DEF Tx
  <2> QED BY <1>2, <2>1, <2>2, <2>3 DEF Open
<1>3. ASSUME NEW j \in Importers, Open(j)' PROVE Open(j)
  <2>1. CASE ~Open(j)
    <3>1. tx'[j] = NoTx
      BY <1>1, <2>1
    <3> QED BY <1>3, <3>1 DEF Open, NoTx
  <2> QED BY <2>1
<1>4. tx' \in [Importers -> {NoTx} \cup Tx]
  <2>1. \A j \in Importers : tx'[j] \in {NoTx} \cup Tx
    BY <1>1, <1>2
  <2>2. tx' = [j \in Importers |-> tx'[j]]
    BY DEF Change
  <2> QED BY <2>1, <2>2
<1>5. \A j, l \in Importers : (j # l /\ Open(j)' /\ Open(l)') =>
         /\ ~(tx'[j].newOwner /\ tx'[l].newOwner)
         /\ \A a \in tx'[j].fresh, b \in tx'[l].fresh : a.uuid # b.uuid
  <2> SUFFICES ASSUME NEW j \in Importers, NEW l \in Importers, j # l, Open(j)', Open(l)'
               PROVE  /\ ~(tx'[j].newOwner /\ tx'[l].newOwner)
                      /\ \A a \in tx'[j].fresh, b \in tx'[l].fresh : a.uuid # b.uuid
    OBVIOUS
  <2>1. /\ tx'[j].newOwner = tx[j].newOwner /\ tx'[j].fresh = tx[j].fresh
        /\ tx'[l].newOwner = tx[l].newOwner /\ tx'[l].fresh = tx[l].fresh
        /\ Open(j) /\ Open(l)
    BY <1>2, <1>3
  <2>2. /\ ~(tx[j].newOwner /\ tx[l].newOwner)
        /\ \A a \in tx[j].fresh, b \in tx[l].fresh : a.uuid # b.uuid
    BY <2>1 DEF TypeOK
  <2> QED BY <2>1, <2>2
<1>6. /\ imported' \in [Importers -> BOOLEAN]
      /\ changes' \in 0 .. MaxChanges /\ faults' \in 0 .. MaxFaults
  BY DEF Change, TypeOK
<1> QED BY <1>2, <1>3, <1>4, <1>5, <1>6 DEF TypeOK

\* What an administrator must leave to an open transaction.
LEMMA ChangeInv ==
  ASSUME TypeOK, ImportInv, NEW what \in SUBSET (Uuids \cup Nodes), what # {}, Change(what),
         TypeOK',
         \A j \in Importers : Open(j)' =>
            /\ Open(j) /\ tx[j] \in Tx /\ tx'[j] = [tx[j] EXCEPT !.touched = @ \cup what],
         \/ customer' = customer
         \/ /\ customer' = [customer EXCEPT !.here = FALSE]
            /\ \A j \in Importers : Open(j) => ~HoldsCustomer(j),
         \A u \in Uuids : account'[u].here => account[u].here,
         \A u \in Uuids \ what : account'[u] = account[u],
         \A b \in bound : b[1] \in what \/ b[2] \in what \/ b \in bound',
         \A j \in Importers : Open(j) => \A b \in tx[j].binds :
            /\ b[2] \in nodes' /\ b \notin bound'
            /\ account[b[1]].here => account'[b[1]].here
  PROVE  ImportInv'
<1>1. customer'.here => customer'.id > 0
  BY DEF TypeOK, ImportInv
<1>2. \A j \in Importers : ~imported'[j]
  BY DEF Change
<1>3. ASSUME NEW j \in Importers, Open(j)'
      PROVE  OwnerKnown(j)' /\ RowsKnown(j)' /\ FileKnown(j)' /\ Undisturbed(j)'
  <2>1. /\ Open(j) /\ tx[j] \in Tx /\ tx'[j] = [tx[j] EXCEPT !.touched = @ \cup what]
        /\ OwnerKnown(j) /\ RowsKnown(j) /\ FileKnown(j)
    BY <1>3, Knows
  <2>2. /\ tx'[j].pc = tx[j].pc /\ tx'[j].at = tx[j].at /\ tx'[j].owner = tx[j].owner
        /\ tx'[j].newOwner = tx[j].newOwner /\ tx'[j].newToken = tx[j].newToken
        /\ tx'[j].nodes = tx[j].nodes /\ tx'[j].fresh = tx[j].fresh /\ tx'[j].binds = tx[j].binds
        /\ tx'[j].touched = tx[j].touched \cup what
    BY <2>1 DEF Tx
  <2>3. OwnerKnown(j)'
    <3>1. CASE customer' = customer
      BY <2>1, <2>2, <3>1 DEF OwnerKnown, OwnerStands
    <3>2. CASE customer' = [customer EXCEPT !.here = FALSE] /\ ~HoldsCustomer(j)
      <4>1. ~customer'.here /\ customer'.id = customer.id
        BY <3>2 DEF TypeOK
      <4>2. tx[j].newOwner => tx[j].owner = customer.id + 1
        BY <2>1 DEF OwnerKnown
      <4> QED BY <2>1, <2>2, <3>2, <4>1, <4>2 DEF OwnerKnown, HoldsCustomer
    <3> QED BY <2>1, <3>1, <3>2
  <2>4. \A u : Own(j, u)' = Own(j, u)
    BY <2>2 DEF Own
  <2>5. RowsKnown(j)'
    <3>1. ASSUME NEW b \in tx[j].binds
          PROVE  /\ b[2] \in nodes' /\ b \notin bound'
                 /\ Own(j, b[1]) \/ account'[b[1]].here
                 /\ b[1] \in tx'[j].touched \/ Own(j, b[1]) \/ account'[b[1]].owner = tx[j].owner
      <4>1. b[1] \in Uuids
        BY <2>1 DEF Tx
      <4>2. /\ Own(j, b[1]) \/ account[b[1]].here
            /\ b[1] \in tx[j].touched \/ Own(j, b[1]) \/ account[b[1]].owner = tx[j].owner
        BY <2>1 DEF RowsKnown
      <4> QED BY <2>1, <2>2, <4>1, <4>2
    <3> QED BY <2>1, <2>2, <2>4, <3>1 DEF RowsKnown, Past
  <2>6. FileKnown(j)'
    <3>1. \A link : link.uuid \in Uuids \ tx'[j].touched /\ Stands(j, link) => Stands(j, link)'
      BY <2>2 DEF Stands
    <3>2. \A link : link.uuid \notin tx'[j].touched /\ Tied(j, link) => Tied(j, link)'
      <4> SUFFICES ASSUME NEW link, link.uuid \notin tx'[j].touched, Tied(j, link)
                   PROVE  Tied(j, link)'
        OBVIOUS
      <4>1. PICK n : n = Matches(j, link)[1]
        OBVIOUS
      <4>2. <<link.uuid, n>>[1] = link.uuid /\ <<link.uuid, n>>[2] = n
        OBVIOUS
      <4>3. <<link.uuid, n>> \in bound => n \in what \/ <<link.uuid, n>> \in bound'
        BY <2>2, <4>2
      <4> QED BY <2>2, <4>1, <4>2, <4>3 DEF Tied, Matches
    <3>3. \A k \in DOMAIN File[j] : File[j][k].uuid \in Uuids
      BY LinkTypes
    <3>4. Entered(j) => Entered(j)'
      BY <2>2, <3>1, <3>2, <3>3 DEF Entered
    <3>5. /\ ThisLink(j)' = ThisLink(j) /\ Past(j)' = Past(j)
          /\ tx[j].at \in DOMAIN File[j] => ThisLink(j).uuid \in Uuids
      BY <2>2, <3>3 DEF ThisLink, Past
    <3>6. Matches(j, ThisLink(j))' = Matches(j, ThisLink(j))
      BY <2>2, <3>5 DEF Matches
    <3>7. Own(j, ThisLink(j).uuid)' = Own(j, ThisLink(j).uuid)
      BY <2>2, <3>5 DEF Own
    <3>8. tx[j].at \in DOMAIN File[j] /\ Stands(j, ThisLink(j))
             => ThisLink(j).uuid \in tx'[j].touched \/ Stands(j, ThisLink(j))'
      <4>1. PICK link : link = ThisLink(j)
        OBVIOUS
      <4>2. link.uuid \in Uuids \ tx'[j].touched /\ Stands(j, link) => Stands(j, link)'
        BY <3>1
      <4>3. Stands(j, link)' => Stands(j, ThisLink(j))'
        BY <3>5, <4>1 DEF Stands
      <4> QED BY <3>5, <4>1, <4>2, <4>3
    <3> QED BY <2>1, <2>2, <3>4, <3>5, <3>6, <3>7, <3>8 DEF FileKnown
  <2>7. Undisturbed(j)'
    BY <2>2 DEF Undisturbed
  <2> QED BY <2>3, <2>5, <2>6, <2>7
<1>4. \A j, l \in Importers : (j # l /\ Open(j)' /\ Open(l)') => Apart(j, l)'
  <2>1. ASSUME NEW j \in Importers, Open(j)' PROVE Open(j) /\ tx'[j].binds = tx[j].binds
    <3>1. Open(j) /\ tx[j] \in Tx /\ tx'[j] = [tx[j] EXCEPT !.touched = @ \cup what]
      BY <2>1
    <3> QED BY <3>1 DEF Tx
  <2> QED BY <2>1 DEF ImportInv, Apart
<1> QED BY <1>1, <1>2, <1>3, <1>4 DEF ImportInv

\* Accounts that go, with their bindings.
LEMMA CutOffRows ==
  ASSUME TypeOK, NEW us \in SUBSET Uuids, CutOff(us)
  PROVE  /\ account' \in [Uuids -> [here: BOOLEAN, id: Nat, owner: Nat, flow: Flows]]
         /\ \A u \in us : ~account'[u].here
         /\ \A u \in Uuids \ us : account'[u] = account[u]
         /\ bound' = {b \in bound : b[1] \notin us}
         /\ \A b \in bound' : b \in bound /\ b \in Uuids \X nodes /\ account'[b[1]].here
<1>1. \A u \in us : [account[u] EXCEPT !.here = FALSE, !.owner = Other]
                       \in [here: BOOLEAN, id: Nat, owner: Nat, flow: Flows]
  <2> SUFFICES ASSUME NEW u \in us
               PROVE  [account[u] EXCEPT !.here = FALSE, !.owner = Other]
                         \in [here: BOOLEAN, id: Nat, owner: Nat, flow: Flows]
    OBVIOUS
  <2>1. account[u] \in [here: BOOLEAN, id: Nat, owner: Nat, flow: Flows] /\ Other \in Nat
    BY DEF TypeOK, Other
  <2> QED BY <2>1
<1>2. account' \in [Uuids -> [here: BOOLEAN, id: Nat, owner: Nat, flow: Flows]]
  <2> DEFINE Cut(u) == [account[u] EXCEPT !.here = FALSE, !.owner = Other]
  <2>1. account' = [u \in Uuids |-> IF u \in us THEN Cut(u) ELSE account[u]]
    BY DEF CutOff
  <2>2. \A u \in us : Cut(u) \in [here: BOOLEAN, id: Nat, owner: Nat, flow: Flows]
    BY <1>1
  <2> HIDE DEF Cut
  <2>3. \A u \in Uuids : (IF u \in us THEN Cut(u) ELSE account[u])
                            \in [here: BOOLEAN, id: Nat, owner: Nat, flow: Flows]
    BY <2>2 DEF TypeOK
  <2> QED BY <2>1, <2>3
<1>3. ASSUME NEW u \in us PROVE ~account'[u].here
  <2>1. account[u] \in [here: BOOLEAN, id: Nat, owner: Nat, flow: Flows]
    BY DEF TypeOK
  <2>2. account'[u] = [account[u] EXCEPT !.here = FALSE, !.owner = Other]
    BY DEF CutOff
  <2> QED BY <2>1, <2>2
<1>4. \A u \in Uuids \ us : account'[u] = account[u]
  BY DEF CutOff
<1>5. bound' = {b \in bound : b[1] \notin us}
  BY DEF CutOff
<1>6. \A b \in bound' : b \in bound /\ b \in Uuids \X nodes /\ account'[b[1]].here
  <2> SUFFICES ASSUME NEW b \in bound'
               PROVE  b \in bound /\ b \in Uuids \X nodes /\ account'[b[1]].here
    OBVIOUS
  <2>1. b \in bound /\ b[1] \notin us /\ b \in Uuids \X nodes /\ account[b[1]].here
    BY <1>5 DEF TypeOK
  <2> QED BY <1>4, <2>1
<1> QED BY <1>2, <1>3, <1>4, <1>5, <1>6

LEMMA DeleteAccountInv ==
  ASSUME TypeOK, ImportInv, NEW u \in Uuids, DeleteAccount(u)
  PROVE  TypeOK' /\ ImportInv'
<1> DEFINE what == {u}
<1>1. /\ what \in SUBSET (Uuids \cup Nodes) /\ what \in SUBSET Uuids /\ what # {}
      /\ Change(what) /\ CutOff(what) /\ UNCHANGED <<customer, tokens, nodes>>
      /\ \A j \in Importers : Open(j) => \A b \in tx[j].binds : b[1] \notin what
  BY DEF DeleteAccount
<1> HIDE DEF what
<1>2. /\ account' \in [Uuids -> [here: BOOLEAN, id: Nat, owner: Nat, flow: Flows]]
      /\ \A w \in what : ~account'[w].here
      /\ \A w \in Uuids \ what : account'[w] = account[w]
      /\ bound' = {b \in bound : b[1] \notin what}
      /\ \A b \in bound' : b \in bound /\ b \in Uuids \X nodes /\ account'[b[1]].here
  BY <1>1, CutOffRows
<1>3. \A w \in Uuids : account'[w].here => account[w].here /\ account'[w] = account[w]
  BY <1>2
<1>4. /\ TypeOK'
      /\ \A j \in Importers : Open(j)' =>
            Open(j) /\ tx[j] \in Tx /\ tx'[j] = [tx[j] EXCEPT !.touched = @ \cup what]
  <2>1. /\ customer' \in [here: BOOLEAN, id: Nat] /\ tokens' \in Nat
        /\ tokens' > 0 => customer'.here
        /\ nodes' \subseteq Nodes /\ bound' \subseteq Uuids \X nodes'
    BY <1>1, <1>2 DEF TypeOK
  <2>2. \A w \in Uuids : (account'[w].here /\ account'[w].owner # Other)
           => customer'.here /\ account'[w].owner = customer'.id
    BY <1>1, <1>3 DEF TypeOK
  <2> QED BY <1>1, <1>2, <2>1, <2>2, ChangeTypes
<1>5. \A j \in Importers : Open(j) => \A b \in tx[j].binds :
         b[2] \in nodes' /\ b \notin bound' /\ (account[b[1]].here => account'[b[1]].here)
  <2> SUFFICES ASSUME NEW j \in Importers, Open(j), NEW b \in tx[j].binds
               PROVE  b[2] \in nodes' /\ b \notin bound'
                      /\ (account[b[1]].here => account'[b[1]].here)
    OBVIOUS
  <2>1. tx[j] \in Tx /\ RowsKnown(j)
    BY Knows
  <2>2. b[1] \in Uuids /\ b[1] \notin what /\ b[2] \in nodes /\ b \notin bound
    BY <1>1, <2>1 DEF Tx, RowsKnown
  <2> QED BY <1>1, <1>2, <2>2
<1> QED BY <1>1, <1>2, <1>3, <1>4, <1>5, ChangeInv

LEMMA DeleteCustomerInv ==
  ASSUME TypeOK, ImportInv, DeleteCustomer
  PROVE  TypeOK' /\ ImportInv'
<1> DEFINE us == {u \in Uuids : account[u].here /\ account[u].owner = customer.id}
           what == Uuids
<1>1. /\ what \in SUBSET (Uuids \cup Nodes) /\ us \in SUBSET Uuids /\ what # {}
      /\ Change(what) /\ CutOff(us) /\ nodes' = nodes /\ tokens' = 0
      /\ customer' = [customer EXCEPT !.here = FALSE]
      /\ \A j \in Importers : Open(j) => ~HoldsCustomer(j)
  BY DEF DeleteCustomer
<1>2. /\ account' \in [Uuids -> [here: BOOLEAN, id: Nat, owner: Nat, flow: Flows]]
      /\ \A w \in us : ~account'[w].here
      /\ \A w \in Uuids \ us : account'[w] = account[w]
      /\ \A b \in bound' : b \in bound /\ b \in Uuids \X nodes /\ account'[b[1]].here
  BY <1>1, CutOffRows
<1>3. \A w \in Uuids : account'[w].here => account[w].here /\ account[w].owner # customer.id
                                            /\ account'[w] = account[w]
  BY <1>2
<1>4. /\ TypeOK'
      /\ \A j \in Importers : Open(j)' =>
            Open(j) /\ tx[j] \in Tx /\ tx'[j] = [tx[j] EXCEPT !.touched = @ \cup what]
  <2>1. /\ customer' \in [here: BOOLEAN, id: Nat] /\ tokens' \in Nat
        /\ ~(tokens' > 0)
        /\ nodes' \subseteq Nodes /\ bound' \subseteq Uuids \X nodes'
    <3>1. customer' \in [here: BOOLEAN, id: Nat]
      BY <1>1 DEF TypeOK
    <3>2. tokens' \in Nat /\ ~(tokens' > 0)
      BY <1>1
    <3>3. nodes' \subseteq Nodes /\ bound' \subseteq Uuids \X nodes'
      <4> HIDE DEF us, what
      <4> QED BY <1>1, <1>2 DEF TypeOK
    <3> QED BY <3>1, <3>2, <3>3
  <2>2. \A w \in Uuids : account'[w].here => account'[w].owner = Other
    BY <1>3 DEF TypeOK
  <2> HIDE DEF us, what
  <2> QED BY <1>1, <1>2, <2>1, <2>2, ChangeTypes
<1>5. \A j \in Importers : Open(j) => tx[j].binds = {}
  BY <1>1 DEF HoldsCustomer
<1>6. /\ \A b \in bound : b[1] \in what
      /\ \A w \in Uuids \ what : account'[w] = account[w]
  BY DEF TypeOK
<1> HIDE DEF us, what
<1> QED BY <1>1, <1>3, <1>4, <1>5, <1>6, ChangeInv

LEMMA PatchAccountInv ==
  ASSUME TypeOK, ImportInv, NEW u \in Uuids, PatchAccount(u)
  PROVE  TypeOK' /\ ImportInv'
<1> DEFINE what == {u}
<1>1. PICK f \in Flows, o \in {account[u].owner, Other}, ns \in SUBSET nodes :
        /\ \A i \in Importers : Open(i) =>
              \A n \in ns : <<u, n>> \notin tx[i].binds \/ <<u, n>> \in bound
        /\ account' = [account EXCEPT ![u].flow = f, ![u].owner = o]
        /\ bound' = {b \in bound : b[1] # u} \cup ({u} \X ns)
  BY DEF PatchAccount
<1>2. /\ what \in SUBSET (Uuids \cup Nodes) /\ what # {} /\ account[u].here
      /\ Change(what) /\ UNCHANGED <<customer, tokens, nodes>>
  BY DEF PatchAccount
<1>3. /\ account' \in [Uuids -> [here: BOOLEAN, id: Nat, owner: Nat, flow: Flows]]
      /\ account'[u].here /\ account'[u].owner = o
      /\ \A w \in Uuids \ {u} : account'[w] = account[w]
  <2>1. /\ account[u] \in [here: BOOLEAN, id: Nat, owner: Nat, flow: Flows] /\ o \in Nat
        /\ account \in [Uuids -> [here: BOOLEAN, id: Nat, owner: Nat, flow: Flows]]
    BY DEF TypeOK, Other
  <2> DEFINE row == [account[u] EXCEPT !.flow = f, !.owner = o]
  <2>2. row \in [here: BOOLEAN, id: Nat, owner: Nat, flow: Flows] /\ row.here /\ row.owner = o
    BY <1>2, <2>1
  <2>3. account' = [account EXCEPT ![u] = row]
    BY <1>1, <2>1
  <2> HIDE DEF row
  <2> QED BY <2>1, <2>2, <2>3
<1>4. /\ bound' \subseteq Uuids \X nodes'
      /\ \A b \in bound' : account'[b[1]].here
  <2> SUFFICES ASSUME NEW b \in bound' PROVE b \in Uuids \X nodes' /\ account'[b[1]].here
    OBVIOUS
  <2>1. CASE b \in bound /\ b[1] # u
    <3>1. b \in Uuids \X nodes /\ account[b[1]].here
      BY <2>1 DEF TypeOK
    <3> QED BY <1>2, <1>3, <2>1, <3>1
  <2>2. CASE b \in {u} \X ns
    BY <1>2, <1>3, <2>2
  <2> QED BY <1>1, <2>1, <2>2
<1>5. /\ TypeOK'
      /\ \A j \in Importers : Open(j)' =>
            Open(j) /\ tx[j] \in Tx /\ tx'[j] = [tx[j] EXCEPT !.touched = @ \cup what]
  <2>1. /\ customer' \in [here: BOOLEAN, id: Nat] /\ tokens' \in Nat
        /\ tokens' > 0 => customer'.here
        /\ nodes' \subseteq Nodes
    BY <1>2 DEF TypeOK
  <2>2. \A w \in Uuids : (account'[w].here /\ account'[w].owner # Other)
           => customer'.here /\ account'[w].owner = customer'.id
    <3>1. \A w \in Uuids : (account[w].here /\ account[w].owner # Other)
             => customer'.here /\ account[w].owner = customer'.id
      BY <1>2 DEF TypeOK
    <3> QED BY <1>2, <1>3, <3>1
  <2> HIDE DEF what
  <2> QED BY <1>2, <1>3, <1>4, <2>1, <2>2, ChangeTypes
<1>6. \A w \in Uuids : account'[w].here => account[w].here
  BY <1>2, <1>3
<1>7. /\ \A w \in Uuids \ what : account'[w] = account[w]
      /\ \A b \in bound : b[1] \in what \/ b[2] \in what \/ b \in bound'
  BY <1>1, <1>3
<1>8. \A j \in Importers : Open(j) => \A b \in tx[j].binds :
         b[2] \in nodes' /\ b \notin bound' /\ (account[b[1]].here => account'[b[1]].here)
  <2> SUFFICES ASSUME NEW j \in Importers, Open(j), NEW b \in tx[j].binds
               PROVE  b[2] \in nodes' /\ b \notin bound'
                      /\ (account[b[1]].here => account'[b[1]].here)
    OBVIOUS
  <2>1. tx[j] \in Tx /\ RowsKnown(j)
    BY Knows
  <2>2. b[1] \in Uuids /\ b[2] \in nodes /\ b \notin bound
    BY <2>1 DEF Tx, RowsKnown
  <2>3. b \notin {u} \X ns
    <3>1. \A n \in ns : <<u, n>> \in bound \/ <<u, n>> # b
      BY <1>1
    <3> QED BY <2>2, <3>1
  <2> QED BY <1>1, <1>2, <1>3, <2>2, <2>3
<1> HIDE DEF what
<1> QED BY <1>2, <1>5, <1>6, <1>7, <1>8, ChangeInv

\* A node that comes or goes, with the bindings to it.
LEMMA NodesInv ==
  ASSUME TypeOK, ImportInv, NEW n \in Nodes, Change({n}),
         UNCHANGED <<customer, tokens, account>>,
         \/ nodes' = nodes \cup {n} /\ bound' = bound
         \/ /\ nodes' = nodes \ {n} /\ bound' = {b \in bound : b[2] # n}
            /\ \A i \in Importers : Open(i) => \A b \in tx[i].binds : b[2] # n
  PROVE  TypeOK' /\ ImportInv'
<1> DEFINE what == {n}
<1>1. what \in SUBSET (Uuids \cup Nodes) /\ what # {} /\ Change(what)
  OBVIOUS
<1>2. /\ bound' \subseteq Uuids \X nodes' /\ nodes' \subseteq Nodes
      /\ \A b \in bound' : account'[b[1]].here
      /\ \A b \in bound : b[1] \in what \/ b[2] \in what \/ b \in bound'
      /\ bound' \subseteq bound
  BY DEF TypeOK
<1>3. /\ customer' \in [here: BOOLEAN, id: Nat]
      /\ tokens' \in Nat /\ (tokens' > 0 => customer'.here)
      /\ account' \in [Uuids -> [here: BOOLEAN, id: Nat, owner: Nat, flow: Flows]]
      /\ \A u \in Uuids : (account'[u].here /\ account'[u].owner # Other)
            => customer'.here /\ account'[u].owner = customer'.id
  BY DEF TypeOK
<1>4. \A j \in Importers : Open(j) => \A b \in tx[j].binds :
         b[2] \in nodes' /\ b \notin bound' /\ (account[b[1]].here => account'[b[1]].here)
  <2> SUFFICES ASSUME NEW j \in Importers, Open(j), NEW b \in tx[j].binds
               PROVE  b[2] \in nodes' /\ b \notin bound'
                      /\ (account[b[1]].here => account'[b[1]].here)
    OBVIOUS
  <2>1. b[2] \in nodes /\ b \notin bound
    BY Knows DEF RowsKnown
  <2> QED BY <1>2, <2>1
<1> HIDE DEF what
<1>5. /\ TypeOK'
      /\ \A j \in Importers : Open(j)' =>
            Open(j) /\ tx[j] \in Tx /\ tx'[j] = [tx[j] EXCEPT !.touched = @ \cup what]
  BY <1>1, <1>2, <1>3, ChangeTypes
<1> QED BY <1>1, <1>2, <1>4, <1>5, ChangeInv

(***************************************************************************)
(* The theorems.                                                           *)
(***************************************************************************)

\* Every step keeps the types and the invariant.
LEMMA NextInv == TypeOK /\ ImportInv /\ [Next]_vars => TypeOK' /\ ImportInv'
<1> SUFFICES ASSUME TypeOK, ImportInv, [Next]_vars PROVE TypeOK' /\ ImportInv'
  OBVIOUS
<1>1. ASSUME NEW i \in Importers, Statement(i) PROVE TypeOK' /\ ImportInv'
  BY <1>1, FindCustomerInv, InsertCustomerInv, CountTokensInv, InsertTokenInv, ReadNodesInv,
     SkipRepeatedInv, FindAccountInv, InsertAccountInv, BindInv, CommitInv DEF Statement
<1>2. ASSUME NEW i \in Importers, Deadlock(i) PROVE TypeOK' /\ ImportInv'
  BY <1>2, RefusedInv DEF Deadlock
<1>3. ASSUME NEW i \in Importers, Fail(i) PROVE TypeOK' /\ ImportInv'
  <2>1. faults' \in 0 .. MaxFaults
    BY <1>3 DEF Fail, TypeOK
  <2> QED BY <1>3, <2>1, RefuseInv DEF Fail
<1>4. ASSUME NEW u \in Uuids, DeleteAccount(u) \/ PatchAccount(u) PROVE TypeOK' /\ ImportInv'
  BY <1>4, DeleteAccountInv, PatchAccountInv
<1>5. ASSUME NEW n \in Nodes, AddNode(n) \/ DeleteNode(n) PROVE TypeOK' /\ ImportInv'
  BY <1>5, NodesInv DEF AddNode, DeleteNode
<1>6. CASE DeleteCustomer
  BY <1>6, DeleteCustomerInv
<1>7. CASE UNCHANGED vars
  <2>1. UNCHANGED <<customer, tokens, account, bound, nodes, tx, imported, changes, faults>>
    BY <1>7 DEF vars, tables
  <2>2. TypeOK'
    BY <2>1 DEF TypeOK, Open
  <2>3. \A j \in Importers : Open(j)' => Open(j) /\ tx'[j] = tx[j]
    BY <2>1 DEF Open
  <2>4. \A j \in Importers : Open(j)' =>
           OwnerKnown(j)' /\ RowsKnown(j)' /\ FileKnown(j)' /\ Undisturbed(j)'
    BY <2>1, <2>3, OtherInv
  <2>5. \A j, l \in Importers : (j # l /\ Open(j)' /\ Open(l)') => Apart(j, l)'
    BY <2>3 DEF ImportInv, Apart
  <2>6. \A j \in Importers : imported'[j] => Present(j)' /\ (Open(j)' => Repeats(j)')
    <3>1. \A j \in Importers : Present(j) => Present(j)'
      BY <2>1 DEF Present
    <3>2. \A j \in Importers : Repeats(j) => Repeats(j)'
      BY <2>1 DEF Repeats, ThisLink
    <3> QED BY <2>1, <2>3, <3>1, <3>2 DEF ImportInv
  <2> QED BY <2>1, <2>2, <2>4, <2>5, <2>6 DEF ImportInv
<1> QED BY <1>1, <1>2, <1>3, <1>4, <1>5, <1>6, <1>7 DEF Next

\* LegacyImport keeps its types, and what an open import or a finished one relies on.
THEOREM ImportHolds == Spec => [](TypeOK /\ ImportInv)
<1>1. TypeOK /\ ImportInv /\ [Next]_vars => (TypeOK /\ ImportInv)'
  BY NextInv
<1> QED BY InitInv, <1>1, PTL DEF Spec

\* The types of LegacyImport, the uniqueness of what open imports insert among them.
THEOREM ImportTypes == Spec => []TypeOK
  BY ImportHolds, PTL

\* An import ends by its commit, by a refusal, by a deadlock or by a failure.
LEMMA EndsBy ==
  ASSUME TypeOK, ImportInv, [Next]_vars, NEW i \in Importers, Ends(i), faults' = faults
  PROVE  Statement(i) \/ Deadlock(i)
<1>1. Open(i) /\ tx'[i] = NoTx /\ ~Open(i)' /\ tx'[i] # tx[i] /\ tx[i] \in Tx
  BY TxTypes DEF Ends, Open, NoTx
<1>2. ASSUME NEW j \in Importers \ {i}, Statement(j) \/ Deadlock(j) PROVE FALSE
  <2>1. \E s : tx' = [tx EXCEPT ![j] = s]
    BY <1>2 DEF Statement, Deadlock, FindCustomer, InsertCustomer, CountTokens, InsertToken,
       ReadNodes, SkipRepeated, FindAccount, InsertAccount, Bind, Commit, WithAccount, Refuse, Step
  <2> QED BY <1>1, <2>1 DEF TypeOK
<1>3. ASSUME NEW j \in Importers, Fail(j) PROVE FALSE
  BY <1>3 DEF Fail, TypeOK
<1>4. ASSUME NEW what, Change(what) PROVE FALSE
  <2>1. tx'[i] = [tx[i] EXCEPT !.touched = @ \cup what]
    BY <1>1, <1>4 DEF Change
  <2>2. tx'[i].pc = tx[i].pc
    BY <1>1, <2>1 DEF Tx
  <2> QED BY <1>1, <2>2 DEF Open
<1>5. ~UNCHANGED vars
  BY <1>1 DEF vars
<1> QED BY <1>2, <1>3, <1>4, <1>5
        DEF Next, DeleteAccount, PatchAccount, AddNode, DeleteNode, DeleteCustomer

LEMMA CommitsIs ==
  ASSUME TypeOK, ImportInv, [Next]_vars, NEW i \in Importers, Commits(i)
  PROVE  Commit(i)
<1>1. /\ Open(i) /\ tx[i].pc = "find" /\ tx[i].at = Len(File[i]) + 1
      /\ Statement(i) \/ Deadlock(i)
  BY EndsBy DEF Commits, Ends
<1>2. ~AtLink(i)
  <2>1. File[i] \in Seq(Link)
    OBVIOUS
  <2>2. tx[i].at \notin DOMAIN File[i]
    BY <1>1, <2>1
  <2> QED BY <2>2 DEF AtLink
<1> QED BY <1>1, <1>2 DEF Statement, Deadlock, Waits, FindCustomer, InsertCustomer, CountTokens,
           InsertToken, ReadNodes, SkipRepeated, FindAccount, InsertAccount, Bind

\* An import that commits leaves every link of its file imported, for all files,
\* importers and interleavings.
THEOREM ImportCompleteHolds == Spec => ImportComplete
<1> DEFINE Left(i, k) ==
              LET link == File[i][k]
                  match == Matches(i, link)
              IN \/ \E j \in 1 .. k - 1 : File[i][j].uuid = link.uuid /\ File[i][j].key = link.key
                 \/ link.uuid \in tx[i].touched
                 \/ /\ account'[link.uuid].here
                    /\ account'[link.uuid].owner = customer'.id
                    /\ account'[link.uuid].flow = link.flow
                    /\ \/ match = <<>>
                       \/ match[1] \in tx[i].touched
                       \/ <<link.uuid, match[1]>> \in bound'
           Complete == \A i \in Importers : Commits(i) => \A k \in DOMAIN File[i] : Left(i, k)
<1>1. TypeOK /\ ImportInv /\ [Next]_vars => Complete
  <2> SUFFICES ASSUME TypeOK, ImportInv, [Next]_vars, NEW i \in Importers, Commits(i),
                      NEW k \in DOMAIN File[i]
               PROVE  Left(i, k)
    OBVIOUS
  <2>1. Commit(i)
    BY CommitsIs
  <2>2. CASE Repeated(i, k)
    BY <2>2 DEF Repeated
  <2>3. CASE ~Repeated(i, k)
    BY <2>1, <2>3, CommitLeaves
  <2> QED BY <2>2, <2>3
<1> QED BY <1>1, ImportHolds, PTL DEF Spec, ImportComplete

\* An import changes no account of another customer, and binds none.
THEOREM OthersUntouchedHolds == Spec => OthersUntouched
<1> DEFINE Kept(i, u) == (account[u].here /\ account[u].owner = Other)
                  => /\ account'[u] = account[u]
                     /\ \A n \in Nodes : (<<u, n>> \in bound') = (<<u, n>> \in bound)
           Untouched == \A i \in Importers : Commits(i) =>
                           \A u \in Uuids \ tx[i].touched : Kept(i, u)
<1>1. TypeOK /\ ImportInv /\ [Next]_vars => Untouched
  <2> SUFFICES ASSUME TypeOK, ImportInv, [Next]_vars, NEW i \in Importers, Commits(i),
                      NEW u \in Uuids \ tx[i].touched, account[u].here, account[u].owner = Other
               PROVE  /\ account'[u] = account[u]
                      /\ \A n \in Nodes : (<<u, n>> \in bound') = (<<u, n>> \in bound)
    OBVIOUS
  <2>1. Commit(i)
    BY CommitsIs
  <2>2. /\ Past(i) /\ tx[i] \in Tx /\ OwnerKnown(i) /\ RowsKnown(i)
        /\ account'[u] = account[u] /\ bound' = bound \cup tx[i].binds
    BY <2>1, CommitRows
  <2>3. tx[i].owner > 0 /\ ~Own(i, u)
    BY <2>2 DEF OwnerKnown, RowsKnown, Past
  <2>4. ASSUME NEW n \in Nodes, <<u, n>> \in tx[i].binds PROVE FALSE
    <3>1. PICK b \in tx[i].binds : b[1] = u
      BY <2>4
    <3>2. account[u].owner = tx[i].owner
      BY <2>2, <2>3, <3>1 DEF RowsKnown
    <3> QED BY <2>3, <3>2 DEF Other
  <2> QED BY <2>2, <2>4
<1> QED BY <1>1, ImportHolds, PTL DEF Spec, OthersUntouched

\* A repetition is refused nothing and is in no deadlock: it commits, and its
\* commit changes nothing.
LEMMA RepeatsCommits ==
  ASSUME TypeOK, ImportInv, NEW i \in Importers, imported[i], Open(i), tx'[i] = NoTx,
         Statement(i) \/ Deadlock(i)
  PROVE  Commit(i)
<1>1. /\ tx[i] \in Tx /\ OwnerKnown(i) /\ RowsKnown(i) /\ FileKnown(i) /\ Undisturbed(i)
      /\ Present(i) /\ Repeats(i)
  BY Knows
<1>2. tx[i].pc \in {"count", "nodes", "find", "bind"} /\ tx[i].fresh = {} /\ tx[i].touched = {}
      /\ ~tx[i].newOwner
  BY <1>1 DEF Repeats
<1>3. \A s \in Tx : ~Step(i, s)
  BY DEF Step, TypeOK, NoTx, Tx
<1>4. ~CountTokens(i)
  <2>1. \A pc \in {"token", "nodes"} : [tx[i] EXCEPT !.pc = pc] \in Tx
    BY <1>1 DEF Tx
  <2> QED BY <1>3, <2>1 DEF CountTokens
<1>5. ~ReadNodes(i)
  <2>1. [tx[i] EXCEPT !.pc = "find", !.nodes = nodes] \in Tx
    BY <1>1 DEF Tx, TypeOK
  <2>2. ~(Kind[i] = "xray" /\ \E k \in DOMAIN File[i] : File[i][k].best[1] \notin nodes)
    BY <1>1 DEF Present
  <2> QED BY <1>3, <2>1, <2>2 DEF ReadNodes
<1>6. AtLink(i) => /\ tx[i].at \in DOMAIN File[i] /\ tx[i].at + 1 \in Nat
                   /\ ThisLink(i) = File[i][tx[i].at] /\ ThisLink(i).uuid \in Uuids
  BY LinkAt
<1>7. ~SkipRepeated(i)
  <2>1. AtLink(i) => [tx[i] EXCEPT !.at = @ + 1] \in Tx
    BY <1>1, <1>6 DEF Tx
  <2> QED BY <1>3, <2>1 DEF SkipRepeated
<1>8. ~FindAccount(i)
  <2> SUFFICES ASSUME FindAccount(i) PROVE FALSE
    OBVIOUS
  <2> DEFINE link == ThisLink(i)
             row == account[link.uuid]
  <2>1. AtLink(i) /\ ~Repeated(i, tx[i].at) /\ tx[i].pc = "find"
    BY DEF FindAccount, AtLink
  <2>2. customer.here /\ customer.id = tx[i].owner
    BY <1>1, <1>2, <2>1 DEF Undisturbed
  <2>3. row.here /\ row.owner = tx[i].owner /\ row.flow = link.flow
    <3>1. PICK k \in DOMAIN File[i] : k = tx[i].at /\ ThisLink(i) = File[i][k]
      BY <1>6, <2>1
    <3>2. /\ account[File[i][k].uuid].here /\ account[File[i][k].uuid].owner = customer.id
          /\ account[File[i][k].uuid].flow = File[i][k].flow
      BY <1>1, <2>1, <3>1 DEF Present
    <3> QED BY <2>2, <3>1, <3>2
  <2>4. ~Own(i, link.uuid)
    BY <1>2 DEF Own
  <2>5. WithAccount(i, tx[i], row.id)
    BY <2>3, <2>4 DEF FindAccount
  <2>6. /\ [tx[i] EXCEPT !.pc = "find", !.at = @ + 1] \in Tx
        /\ [tx[i] EXCEPT !.pc = "bind", !.held = row.id] \in Tx
    <3>1. row.id \in Nat
      BY <1>6, <2>1 DEF TypeOK
    <3> QED BY <1>1, <1>6, <2>1, <3>1 DEF Tx
  <2> QED BY <1>3, <2>5, <2>6 DEF WithAccount
<1>9. ASSUME tx[i].pc = "bind"
      PROVE  Target(i) \in bound /\ Target(i)[2] \in nodes /\ Target(i)[1] \in Uuids
             /\ account[Target(i)[1]].here /\ account[Target(i)[1]].id = tx[i].held
  <2>1. /\ tx[i].at \in DOMAIN File[i] /\ ThisLink(i) = File[i][tx[i].at]
        /\ ~Repeated(i, tx[i].at) /\ Matches(i, ThisLink(i)) # <<>>
    BY <1>1, <1>9, LinkAt DEF FileKnown
  <2>2. Matches(i, ThisLink(i)) = Matching(nodes, ThisLink(i))
    BY <1>1, <1>2, <1>9 DEF Undisturbed, Past, Matches
  <2>3. Target(i) \in bound
    BY <1>1, <2>1, <2>2 DEF Present, Target
  <2>4. Target(i)[1] = ThisLink(i).uuid
    BY DEF Target
  <2>5. account[ThisLink(i).uuid].id = tx[i].held
    BY <1>1, <1>9 DEF Repeats
  <2> QED BY <2>3, <2>4, <2>5 DEF TypeOK
<1>10. ~Bind(i)
  <2> SUFFICES ASSUME Bind(i) PROVE FALSE
    OBVIOUS
  <2>1. tx[i].pc = "bind"
    BY DEF Bind
  <2>2. Bindable(i, Target(i)[1], Target(i)[2])
    BY <1>9, <2>1 DEF Bindable
  <2> DEFINE s == [tx[i] EXCEPT !.pc = "find", !.at = @ + 1, !.binds = @ \cup ({Target(i)} \ bound)]
  <2>3. Step(i, s)
    BY <2>2 DEF Bind
  <2>4. {Target(i)} \ bound = {} /\ tx[i].at + 1 \in Nat
    BY <1>9, <2>1, LinkAt
  <2>5. s \in Tx
    BY <1>1, <2>4 DEF Tx
  <2> QED BY <1>3, <2>3, <2>5
<1>11. ~Deadlock(i)
  <2> SUFFICES ASSUME NEW j \in Importers, Waits(i, j) PROVE FALSE
    BY DEF Deadlock
  <2>1. Open(j) /\ tx[i].pc = "bind" /\ Target(i) \in tx[j].binds
    BY <1>2 DEF Waits
  <2>2. Target(i) \notin bound
    BY <2>1, Knows DEF RowsKnown
  <2> QED BY <1>9, <2>1, <2>2
<1>12. ~FindCustomer(i) /\ ~InsertCustomer(i) /\ ~InsertToken(i) /\ ~InsertAccount(i)
  BY <1>2 DEF FindCustomer, InsertCustomer, InsertToken, InsertAccount
<1> QED BY <1>4, <1>5, <1>7, <1>8, <1>10, <1>11, <1>12 DEF Statement

\* Repeated with no administrator's change since, an import commits and changes
\* nothing, whatever other imports do meanwhile.
THEOREM RerunChangesNothingHolds == Spec => RerunChangesNothing
<1> DEFINE Nothing == \A i \in Importers :
                         (imported[i] /\ Ends(i) /\ faults' = faults)
                            => Commits(i) /\ UNCHANGED tables
<1>1. TypeOK /\ ImportInv /\ [Next]_vars => Nothing
  <2> SUFFICES ASSUME TypeOK, ImportInv, [Next]_vars, NEW i \in Importers, imported[i], Ends(i),
                      faults' = faults
               PROVE  Commits(i) /\ UNCHANGED tables
    OBVIOUS
  <2>1. Commit(i)
    BY EndsBy, RepeatsCommits DEF Ends
  <2>2. Repeats(i)
    BY DEF ImportInv, Ends
  <2>3. /\ ~tx[i].newOwner /\ ~tx[i].newToken /\ tx[i].binds = {} /\ \A u \in Uuids : ~Own(i, u)
    BY <2>2 DEF Repeats, Own
  <2>4. account' = account
    BY <2>1, <2>3 DEF Commit, TypeOK
  <2>5. UNCHANGED tables
    BY <2>1, <2>3, <2>4 DEF Commit, tables
  <2> QED BY <2>1, <2>5 DEF Commits, Commit
<1> QED BY <1>1, ImportHolds, PTL DEF Spec, RerunChangesNothing
=============================================================================
