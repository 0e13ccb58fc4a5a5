-------------------------- MODULE KeyRotationProofs --------------------------
(***************************************************************************)
(* The invariants of KeyRotation hold for any processes, tables and        *)
(* secrets.                                                                *)
(*                                                                         *)
(* The argument.  A write under the old key is made by a process that has  *)
(* not been restarted, so none is made once every process has been         *)
(* (Fleet), and while a sweep runs each is remembered (straggled).  So a   *)
(* row still under the old key, in a table the sweep has walked without    *)
(* such a write, is one it read: it has been reported, or still is what    *)
(* was read and is still to come (Walked).  A secret is lost only with a   *)
(* consent flow, and a flow is never written twice, so one that was read   *)
(* as damaged is damaged still (Kept).  A renewal carries the secret it    *)
(* read; nothing but a write, which stores another one, moves the stamp    *)
(* (Renewable).                                                            *)
(***************************************************************************)
EXTENDS KeyRotation, FiniteSetTheorems, TLAPS

USE DEF Keys

NoOldRow == \A r \in Rows : row[r].key # "old"

\* Who still writes under the old key, and what the report that allows it to be dropped
\* rests on.
Fleet ==
    /\ fleet => AllMoved /\ ~ straggled
    /\ verdict.fleet => AllMoved
    /\ verdict.finished /\ verdict.fleet => NoOldRow
    /\ \A p \in Processes : config[p] = "dropped" => AllMoved /\ NoOldRow

\* The secrets, and the flows the sweep may delete.
Kept ==
    /\ NothingLost
    /\ \A f \in Flows : row[f] # NoRow => f \in begun
    /\ \A t \in todo : t.row \in Flows =>
          t.row \in begun /\ (~ t.blob.good => ~ row[t.row].good)

\* The renewals under way.
Renewable ==
    /\ RenewalsLand
    /\ \A r \in Rows : row[r].good => row[r].secret # 0
    /\ \A p \in Processes : work[p].at = "renewing" =>
          work[p].secret \in 1 .. writes /\ work[p].row \in Connections
    /\ \A p \in Processes : work[p].at = "exchanging" => work[p].row \in Connections

\* What the sweep has done with the rows of the i-th table, and is doing with the others.
WalkedTable(i) ==
    \A r \in Tables[i] : row[r].key = "old" /\ i \notin failed =>
        /\ i < table => r \in stranded
        /\ i = table /\ fetched => r \in stranded \/ [row |-> r, blob |-> Blob(r)] \in todo

Walked == table # 0 /\ ~ straggled => \A i \in 1 .. 4 : WalkedTable(i)

\* What its report says.
Reports ==
    /\ verdict.given /\ verdict.whole /\ ~ verdict.straggled =>
          verdict.left \subseteq verdict.stranded
    /\ DiagnosisIsTrue
    /\ verdict.fleet => ~ verdict.straggled

\* No row holds a secret that has not been stored yet.
SecretsBounded == \A r \in Rows : row[r].secret <= writes

IInv == SecretsBounded /\ TypeOK /\ Fleet /\ Kept /\ Renewable /\ Walked /\ Reports

-----------------------------------------------------------------------------
(* The tables.                                                             *)

LEMMA TablesAre ==
    /\ Tables[1] = Connections /\ Tables[2] = Apps /\ Tables[3] = Triggers /\ Tables[4] = Flows
    /\ \A i \in 1 .. 4 : Tables[i] \subseteq Rows
    /\ \A r \in Rows : \E i \in 1 .. 4 : r \in Tables[i]
<1>1. Tables[1] = Connections /\ Tables[2] = Apps /\ Tables[3] = Triggers /\ Tables[4] = Flows
  BY DEF Tables
<1>2. \A i \in 1 .. 4 : Tables[i] \subseteq Rows
  <2>1. \A i \in 1 .. 4 : i = 1 \/ i = 2 \/ i = 3 \/ i = 4 OBVIOUS
  <2> QED BY <1>1, <2>1 DEF Rows, Durable
<1>3. \A r \in Rows : \E i \in 1 .. 4 : r \in Tables[i]
  <2>1. 1 \in 1 .. 4 /\ 2 \in 1 .. 4 /\ 3 \in 1 .. 4 /\ 4 \in 1 .. 4 OBVIOUS
  <2> QED BY <1>1, <2>1 DEF Rows, Durable
<1> QED BY <1>1, <1>2, <1>3

LEMMA Apart ==
    /\ Flows \cap Durable = {}
    /\ Flows \subseteq Rows /\ Durable \subseteq Rows /\ Connections \subseteq Durable
<1>1. Tables[1] \cap Tables[4] = {} /\ Tables[2] \cap Tables[4] = {}
      /\ Tables[3] \cap Tables[4] = {}
  <2>1. 1 \in 1 .. 4 /\ 2 \in 1 .. 4 /\ 3 \in 1 .. 4 /\ 4 \in 1 .. 4 /\ 1 # 4 /\ 2 # 4 /\ 3 # 4
    OBVIOUS
  <2> QED BY <2>1, RotationAssumption
<1> QED BY <1>1, TablesAre DEF Rows, Durable

LEMMA BlankTypes ==
    /\ NoRow \in Columns /\ Idle \in Works /\ NoVerdict \in Verdicts
    /\ 0 \in 0 .. MaxWrites
BY RotationAssumption DEF NoRow, Idle, NoVerdict, Columns, Works, Verdicts

LEMMA ExchangeType ==
    \A c \in Connections :
        LET new == [Idle EXCEPT !.at = "exchanging", !.row = c]
        IN  new \in Works /\ new.at = "exchanging" /\ new.row = c
<1>1. Idle \in Works BY BlankTypes
<1>2. \A w \in Works, c \in Connections :
         LET new == [w EXCEPT !.at = "exchanging", !.row = c]
         IN  new \in Works /\ new.at = "exchanging" /\ new.row = c
  BY DEF Works
<1> QED BY <1>1, <1>2

LEMMA WritesNat == ASSUME TypeOK PROVE writes \in Nat
BY RotationAssumption DEF TypeOK

LEMMA RenewalsCarry ==
    ASSUME IInv, NEW q \in Processes, work[q].at = "renewing"
    PROVE  work[q].row \in Rows /\ work[q].secret # 0
<1>1. work[q].secret \in 1 .. writes /\ work[q].row \in Connections BY DEF IInv, Renewable
<1>2. writes \in Nat BY WritesNat DEF IInv
<1> QED BY <1>1, <1>2, Apart

LEMMA BlobType == ASSUME TypeOK, NEW r \in Rows PROVE Blob(r) \in Blobs
BY DEF TypeOK, Columns, Blobs, Blob

-----------------------------------------------------------------------------
(* The start.                                                              *)

LEMMA InitIInv == Init => IInv
<1> SUFFICES ASSUME Init PROVE IInv
  OBVIOUS
<1> USE RotationAssumption, Apart
<1>1. \A r \in Rows : row[r] = NoRow \/ row[r] \in
            [key : {"old", "lost"}, secret : {1}, good : BOOLEAN, stamp : {1}]
  BY DEF Init
<1>2. row \in [Rows -> Columns]
  <2>1. {NoRow} \cup [key : {"old", "lost"}, secret : {1}, good : BOOLEAN, stamp : {1}]
           \subseteq Columns
    BY BlankTypes DEF Columns
  <2> QED BY <2>1 DEF Init
<1>3. \A r \in Rows : row[r].good => row[r].secret = 1 BY <1>1 DEF NoRow
<1>4. latest \in [Rows -> 0 .. MaxWrites] BY <1>3 DEF Init
<1>5. TypeOK
  <2>1. config \in [Processes -> {"before", "rotated", "dropped"}]
        /\ work \in [Processes -> Works] /\ verdict \in Verdicts
    BY BlankTypes DEF Init
  <2>2. aged \subseteq begun /\ begun \subseteq Flows /\ todo = {} /\ stranded = {} /\ failed = {}
    BY DEF Init
  <2>3. table \in 0 .. 5 /\ fetched \in BOOLEAN /\ fleet \in BOOLEAN /\ straggled \in BOOLEAN
        /\ writes \in 0 .. MaxWrites /\ troubles \in 0 .. MaxTroubles
    <3>1. table = 0 /\ fetched = FALSE /\ fleet = FALSE /\ straggled = FALSE
          /\ writes = 1 /\ troubles = 0
      BY DEF Init
    <3>2. 0 \in 0 .. 5 /\ 1 \in 0 .. MaxWrites /\ 0 \in 0 .. MaxTroubles OBVIOUS
    <3> QED BY <3>1, <3>2
  <2> QED BY <1>2, <1>4, <2>1, <2>2, <2>3 DEF TypeOK
<1>6. Fleet BY DEF Init, Fleet, NoVerdict
<1>7. Kept
  <2>1. \A r \in Rows : latest[r] # 0 => row[r].good /\ row[r].secret = latest[r]
    BY <1>3 DEF Init
  <2>2. NothingLost BY <2>1 DEF NothingLost, Present, NoRow
  <2> QED BY <2>2 DEF Kept, Init, Present
<1>8. Renewable BY <1>3 DEF Init, Renewable, RenewalsLand, Idle
<1>9. Walked BY DEF Init, Walked
<1>10. Reports BY DEF Init, Reports, NoVerdict, DiagnosisIsTrue
<1>11. SecretsBounded BY <1>1 DEF Init, SecretsBounded, NoRow
<1> QED BY <1>5, <1>6, <1>7, <1>8, <1>9, <1>10, <1>11 DEF IInv

-----------------------------------------------------------------------------
(* A secret is stored.                                                     *)

\* What Save, Renew, Begin and Connect share.
Stores(p, r) ==
    /\ Write(p, r)
    /\ UNCHANGED <<config, aged, sweep, verdict, fleet, troubles>>
    /\ \/ begun' = begun /\ r \in Durable
       \/ r \in Flows /\ r \notin begun /\ begun' = begun \cup {r}
    /\ work' = work \/ work' = [work EXCEPT ![p] = Idle]

LEMMA StoresKeeps ==
    ASSUME IInv, NEW p \in Processes, NEW r \in Rows, Stores(p, r)
    PROVE  IInv'
<1> USE RotationAssumption, Apart
<1>1. /\ writes < MaxWrites /\ writes' = writes + 1 /\ writes \in Nat
      /\ row' = [row EXCEPT ![r] = [key |-> CurrentKey(p), secret |-> writes + 1,
                                    good |-> TRUE, stamp |-> writes + 1]]
      /\ latest' = [latest EXCEPT ![r] = writes + 1]
      /\ straggled' = (straggled \/ (table # 0 /\ CurrentKey(p) = "old"))
  BY DEF Stores, Write, IInv, TypeOK
<1>2. CurrentKey(p) \in {"old", "new"} BY DEF CurrentKey
<1>3. row'[r] = [key |-> CurrentKey(p), secret |-> writes + 1, good |-> TRUE, stamp |-> writes + 1]
      /\ \A q \in Rows : q # r => row'[q] = row[q]
  BY <1>1 DEF IInv, TypeOK
<1>4. latest'[r] = writes + 1 /\ \A q \in Rows : q # r => latest'[q] = latest[q]
  BY <1>1 DEF IInv, TypeOK
<1>5. TypeOK'
  <2>0. CurrentKey(p) \in Keys \cup {"none"} BY <1>2
  <2>6. writes + 1 \in 0 .. MaxWrites BY <1>1
  <2>1. row'[r] \in Columns BY <1>3, <2>0, <2>6 DEF Columns
  <2>2. row' \in [Rows -> Columns] BY <1>1, <1>3, <2>1 DEF IInv, TypeOK
  <2>3. latest' \in [Rows -> 0 .. MaxWrites] BY <1>1 DEF IInv, TypeOK
  <2>4. work' \in [Processes -> Works] BY BlankTypes DEF Stores, IInv, TypeOK
  <2>5. writes' \in 0 .. MaxWrites /\ straggled' \in BOOLEAN BY <1>1 DEF IInv, TypeOK
  <2>7. aged' \subseteq begun' /\ begun' \subseteq Flows BY DEF Stores, IInv, TypeOK
  <2> QED BY <2>2, <2>3, <2>4, <2>5, <2>7 DEF Stores, IInv, TypeOK, sweep
<1>6. AllMoved => CurrentKey(p) = "new" BY DEF AllMoved, CurrentKey
<1>7. AllMoved' <=> AllMoved BY DEF AllMoved, Stores
<1>8. AllMoved /\ NoOldRow => NoOldRow' BY <1>3, <1>6 DEF NoOldRow
<1>9. Fleet'
  BY <1>1, <1>6, <1>7, <1>8 DEF Stores, IInv, Fleet
<1>10. Kept'
  <2>1. NothingLost'
    BY <1>3, <1>4 DEF IInv, Kept, NothingLost, Present, NoRow
  <2>2. \A f \in Flows : row'[f] # NoRow => f \in begun'
    BY <1>3 DEF Stores, IInv, Kept
  <2>3. \A t \in todo : t.row \in Flows =>
          t.row \in begun' /\ (~ t.blob.good => ~ row'[t.row].good)
    <3> SUFFICES ASSUME NEW t \in todo, t.row \in Flows
                 PROVE  t.row \in begun' /\ (~ t.blob.good => ~ row'[t.row].good)
      OBVIOUS
    <3>1. t.row \in begun /\ (~ t.blob.good => ~ row[t.row].good) BY DEF IInv, Kept
    <3>2. t.row # r BY <3>1 DEF Stores
    <3> QED BY <1>3, <3>1, <3>2 DEF Stores
  <2> QED BY <2>1, <2>2, <2>3 DEF Kept, Stores, sweep
<1>11. Renewable'
  <2>1. \A q \in Processes : work'[q] = work[q] \/ work'[q] = Idle
    BY DEF Stores, IInv, TypeOK
  <2>2. Idle.at = "idle" BY DEF Idle
  <2>3. \A q \in Processes : work'[q].at = "renewing" =>
          work'[q].secret \in 1 .. writes' /\ work'[q].row \in Connections
    BY <1>1, <2>1, <2>2 DEF IInv, Renewable
  <2>4. \A q \in Processes : work'[q].at = "exchanging" => work'[q].row \in Connections
    BY <2>1, <2>2 DEF IInv, Renewable
  <2>5. RenewalsLand'
    <3> SUFFICES ASSUME NEW q \in Processes, work'[q].at = "renewing",
                        latest'[work'[q].row] = work'[q].secret
                 PROVE  row'[work'[q].row].stamp = work'[q].stamp
      BY DEF RenewalsLand
    <3>1. work'[q] = work[q] BY <2>1, <2>2
    <3>2. work[q].row \in Rows /\ work[q].secret \in 1 .. writes
      BY <3>1 DEF IInv, Renewable
    <3>3. work[q].row # r BY <1>1, <1>4, <3>1, <3>2
    <3> QED BY <1>3, <1>4, <3>1, <3>2, <3>3 DEF IInv, Renewable, RenewalsLand
  <2>6. \A q \in Rows : row'[q].good => row'[q].secret # 0
    BY <1>1, <1>3 DEF IInv, Renewable
  <2> QED BY <2>3, <2>4, <2>5, <2>6 DEF Renewable
<1>12. Walked'
  <2> SUFFICES ASSUME table # 0, ~ straggled', NEW i \in 1 .. 4 PROVE WalkedTable(i)'
    BY DEF Walked, Stores, sweep
  <2>1. ~ straggled /\ CurrentKey(p) = "new" BY <1>1, <1>2 DEF IInv, TypeOK
  <2>2. WalkedTable(i) BY <2>1 DEF IInv, Walked
  <2>3. \A q \in Rows : row'[q].key = "old" => q # r /\ row'[q] = row[q] BY <1>3, <2>1
  <2>4. Tables[i] \subseteq Rows BY TablesAre
  <2> QED BY <2>2, <2>3, <2>4 DEF WalkedTable, Blob, Stores, sweep
<1>13. Reports' BY DEF Stores, IInv, Reports, DiagnosisIsTrue
<1>14. SecretsBounded'
  <2>1. \A q \in Rows : row[q].secret \in Nat BY DEF IInv, TypeOK, Columns
  <2> QED BY <1>1, <1>3, <2>1 DEF IInv, SecretsBounded
<1> QED BY <1>5, <1>9, <1>10, <1>11, <1>12, <1>13, <1>14 DEF IInv

-----------------------------------------------------------------------------
(* Rows are taken away, and nothing is stored.                             *)

LEMMA GoneKeeps ==
    ASSUME IInv, NEW R \in SUBSET Rows, Gone(R),
           UNCHANGED <<config, aged, begun, sweep, verdict, fleet, straggled, writes, troubles>>,
           work' \in [Processes -> Works],
           \A q \in Processes :
              \/ work'[q] = work[q]
              \/ work'[q].at = "exchanging" /\ work'[q].row \in Connections
    PROVE  IInv'
<1> USE RotationAssumption, Apart
<1>1. \A r \in Rows : /\ r \in R => row'[r] = NoRow /\ latest'[r] = 0
                      /\ r \notin R => row'[r] = row[r] /\ latest'[r] = latest[r]
  BY DEF Gone
<1>2. \A q \in Processes :
         \/ work'[q] = work[q]
         \/ work'[q].at = "exchanging" /\ work'[q].row \in Connections
  OBVIOUS
<1>3. TypeOK'
  <2>1. row' \in [Rows -> Columns]
    <3>1. \A r \in Rows : row'[r] \in Columns BY <1>1, BlankTypes DEF IInv, TypeOK
    <3>2. row' = [r \in Rows |-> IF r \in R THEN NoRow ELSE row[r]] BY DEF Gone
    <3> QED BY <3>1, <3>2
  <2>2. latest' \in [Rows -> 0 .. MaxWrites]
    <3>0. \A r \in Rows : latest[r] \in 0 .. MaxWrites BY DEF IInv, TypeOK
    <3>1. \A r \in Rows : latest'[r] \in 0 .. MaxWrites BY <1>1, <3>0, BlankTypes
    <3>2. latest' = [r \in Rows |-> IF r \in R THEN 0 ELSE latest[r]] BY DEF Gone
    <3> QED BY <3>1, <3>2
  <2> QED BY <2>1, <2>2 DEF IInv, TypeOK, sweep
<1>4. NoRow.key = "none" /\ ~ NoRow.good BY DEF NoRow
<1>5. NoOldRow => NoOldRow' BY <1>1, <1>4 DEF NoOldRow
<1>6. Fleet' BY <1>5 DEF IInv, Fleet, AllMoved
<1>7. Kept'
  <2>1. NothingLost' BY <1>1 DEF IInv, Kept, NothingLost, Present
  <2>2. \A f \in Flows : row'[f] # NoRow => f \in begun BY <1>1 DEF IInv, Kept
  <2>3. \A t \in todo : t.row \in Flows =>
          t.row \in begun /\ (~ t.blob.good => ~ row'[t.row].good)
    BY <1>1, <1>4 DEF IInv, Kept
  <2> QED BY <2>1, <2>2, <2>3 DEF Kept, sweep
<1>8. Renewable'
  <2>1. RenewalsLand'
    <3> SUFFICES ASSUME NEW q \in Processes, work'[q].at = "renewing",
                        latest'[work'[q].row] = work'[q].secret
                 PROVE  row'[work'[q].row].stamp = work'[q].stamp
      BY DEF RenewalsLand
    <3>1. work'[q] = work[q] BY <1>2
    <3>2. work[q].row \in Rows /\ work[q].secret # 0
      <4>1. work[q].at = "renewing" BY <3>1
      <4> QED BY <4>1, RenewalsCarry
    <3>3. work[q].row \notin R BY <1>1, <3>1, <3>2
    <3>4. row'[work[q].row] = row[work[q].row] /\ latest'[work[q].row] = latest[work[q].row]
      BY <1>1, <3>2, <3>3
    <3>5. RenewalsLand BY DEF IInv, Renewable
    <3>6. work[q].at = "renewing" /\ latest[work[q].row] = work[q].secret BY <3>1, <3>4
    <3>7. row[work[q].row].stamp = work[q].stamp BY <3>5, <3>6 DEF RenewalsLand
    <3> QED BY <3>1, <3>4, <3>7
  <2>2. \A r \in Rows : row'[r].good => row'[r].secret # 0
    BY <1>1, <1>4 DEF IInv, Renewable
  <2> QED BY <1>2, <2>1, <2>2 DEF IInv, Renewable
<1>9. Walked'
  <2> SUFFICES ASSUME table # 0, ~ straggled, NEW i \in 1 .. 4 PROVE WalkedTable(i)'
    BY DEF Walked, sweep
  <2>1. WalkedTable(i) BY DEF IInv, Walked
  <2>2. \A q \in Rows : row'[q].key = "old" => row'[q] = row[q] BY <1>1, <1>4
  <2>3. Tables[i] \subseteq Rows BY TablesAre
  <2> QED BY <2>1, <2>2, <2>3 DEF WalkedTable, Blob, sweep
<1>10. Reports' BY DEF IInv, Reports, DiagnosisIsTrue
<1>11. SecretsBounded'
  <2>0. writes \in Nat BY WritesNat DEF IInv
  <2>1. 0 <= writes BY <2>0
  <2>2. writes' = writes OBVIOUS
  <2>3. NoRow.secret = 0 BY DEF NoRow
  <2>4. \A r \in Rows : row'[r].secret <= writes
    <3> SUFFICES ASSUME NEW r \in Rows PROVE row'[r].secret <= writes
      OBVIOUS
    <3>1. CASE r \in R
      <4>1. row'[r].secret = 0 BY <1>1, <2>3, <3>1
      <4> QED BY <2>1, <4>1
    <3>2. CASE r \notin R BY <1>1, <3>2 DEF IInv, SecretsBounded
    <3> QED BY <3>1, <3>2
  <2> QED BY <2>2, <2>4 DEF SecretsBounded
<1> QED BY <1>3, <1>6, <1>7, <1>8, <1>9, <1>10, <1>11 DEF IInv

-----------------------------------------------------------------------------
(* The rows stay as they are.                                              *)

\* Renewals and restarts.
LEMMA WorkKeeps ==
    ASSUME IInv, UNCHANGED <<row, begun, sweep, verdict, history, writes, troubles>>,
           aged' \subseteq begun,
           config' \in [Processes -> {"before", "rotated", "dropped"}],
           \A q \in Processes :
              \/ config'[q] = config[q]
              \/ config'[q] = "rotated"
              \/ config'[q] = "dropped" /\ verdict.finished /\ verdict.fleet,
           work' \in [Processes -> Works],
           \A q \in Processes :
              \/ work'[q] = work[q]
              \/ work'[q].at = "idle"
              \/ \E r \in Connections :
                    /\ row[r].good
                    /\ work'[q].at = "renewing" /\ work'[q].row = r
                    /\ work'[q].secret = row[r].secret /\ work'[q].stamp = row[r].stamp
    PROVE  IInv'
<1> USE RotationAssumption, Apart
<1>2. \A r \in Connections : row[r] \in Columns BY DEF IInv, TypeOK
<1>4. TypeOK' BY DEF IInv, TypeOK, sweep, history
<1>5. Fleet'
  <2>1. NoOldRow' <=> NoOldRow BY DEF NoOldRow
  <2>2. AllMoved => AllMoved' BY DEF AllMoved
  <2>3. \A q \in Processes : config'[q] = "dropped" => AllMoved' /\ NoOldRow'
    BY <2>1, <2>2 DEF IInv, TypeOK, Fleet
  <2> QED BY <2>1, <2>2, <2>3 DEF IInv, Fleet, history
<1>6. Kept' BY DEF IInv, Kept, NothingLost, Present, sweep, history
<1>7. Renewable'
  <2>1. ASSUME NEW q \in Processes, work'[q] # work[q], work'[q].at # "idle"
        PROVE  /\ work'[q].at = "renewing" /\ work'[q].row \in Connections
               /\ work'[q].secret \in 1 .. writes
               /\ row[work'[q].row].stamp = work'[q].stamp
    <3>1. PICK r \in Connections :
              /\ row[r].good
              /\ work'[q].at = "renewing" /\ work'[q].row = r
              /\ work'[q].secret = row[r].secret /\ work'[q].stamp = row[r].stamp
      BY <2>1
    <3>2. row[r].secret \in 1 .. writes
      <4>1. row[r].secret # 0 /\ r \in Rows BY <3>1 DEF IInv, Renewable
      <4>2. row[r].secret <= writes BY <4>1 DEF IInv, SecretsBounded
      <4> QED BY <1>2, <4>1, <4>2 DEF Columns, IInv, TypeOK
    <3> QED BY <3>1, <3>2
  <2>3. RenewalsLand'
    <3> SUFFICES ASSUME NEW q \in Processes, work'[q].at = "renewing",
                        latest[work'[q].row] = work'[q].secret
                 PROVE  row[work'[q].row].stamp = work'[q].stamp
      BY DEF RenewalsLand, history
    <3> QED BY <2>1 DEF IInv, Renewable, RenewalsLand
  <2> QED BY <2>1, <2>3 DEF IInv, Renewable, history
<1>8. Walked' BY DEF IInv, Walked, WalkedTable, Blob, sweep, history
<1>9. Reports' BY DEF IInv, Reports, DiagnosisIsTrue
<1>10. SecretsBounded' BY DEF IInv, SecretsBounded
<1> QED BY <1>4, <1>5, <1>6, <1>7, <1>8, <1>9, <1>10 DEF IInv

-----------------------------------------------------------------------------
(* The sweep.                                                              *)

\* The renewals do not see a sweep that leaves stamps and secrets as they are.
LEMMA SweepLeavesRenewals ==
    ASSUME IInv, UNCHANGED <<work, writes>>,
           \A r \in Rows : latest'[r] = latest[r] \/ latest'[r] = 0,
           \A c \in Rows : latest'[c] # 0 => row'[c].stamp = row[c].stamp,
           \A r \in Rows : row'[r].good => row[r].good /\ row'[r].secret = row[r].secret
    PROVE  Renewable'
<1>1. \A r \in Connections : r \in Rows BY Apart
<1>2. RenewalsLand'
  <2> SUFFICES ASSUME NEW q \in Processes, work[q].at = "renewing",
                      latest'[work[q].row] = work[q].secret
               PROVE  row'[work[q].row].stamp = work[q].stamp
    BY DEF RenewalsLand
  <2>1. work[q].row \in Rows /\ work[q].secret # 0
    BY RenewalsCarry
  <2> QED BY <2>1 DEF IInv, Renewable, RenewalsLand
<1> QED BY <1>1, <1>2 DEF IInv, Renewable

LEMMA StartSweepKeeps == ASSUME IInv, StartSweep PROVE IInv'
<1> USE RotationAssumption, Apart
<1>0. aged \subseteq Flows BY DEF IInv, TypeOK
<1>1. \A r \in Rows : /\ r \in aged => row'[r] = NoRow /\ latest'[r] = 0
                      /\ r \notin aged => row'[r] = row[r] /\ latest'[r] = latest[r]
  BY DEF StartSweep, Gone
<1>2. NoRow.key = "none" /\ ~ NoRow.good /\ NoRow.secret = 0 BY DEF NoRow
<1>3. TypeOK'
  <2>1. row' \in [Rows -> Columns]
    <3>1. \A r \in Rows : row'[r] \in Columns BY <1>1, BlankTypes DEF IInv, TypeOK
    <3>2. row' = [r \in Rows |-> IF r \in aged THEN NoRow ELSE row[r]] BY DEF StartSweep, Gone
    <3> QED BY <3>1, <3>2
  <2>2. latest' \in [Rows -> 0 .. MaxWrites]
    <3>0. \A r \in Rows : latest[r] \in 0 .. MaxWrites BY DEF IInv, TypeOK
    <3>1. \A r \in Rows : latest'[r] \in 0 .. MaxWrites BY <1>1, <3>0, BlankTypes
    <3>2. latest' = [r \in Rows |-> IF r \in aged THEN 0 ELSE latest[r]] BY DEF StartSweep, Gone
    <3> QED BY <3>1, <3>2
  <2>3. /\ table' \in 0 .. 5 /\ fetched' \in BOOLEAN /\ todo' = {} /\ stranded' = {}
        /\ failed' = {} /\ fleet' \in BOOLEAN /\ straggled' \in BOOLEAN
        /\ verdict' \in Verdicts
        /\ UNCHANGED <<aged, begun, config, work, writes, troubles>>
    <3>1. /\ table' = 1 /\ fetched' = FALSE /\ todo' = {} /\ stranded' = {} /\ failed' = {}
          /\ fleet' = AllMoved /\ straggled' = FALSE /\ verdict' = NoVerdict
          /\ UNCHANGED <<aged, begun, config, work, writes, troubles>>
      BY DEF StartSweep
    <3>2. AllMoved \in BOOLEAN BY DEF AllMoved
    <3>3. 1 \in 0 .. 5 OBVIOUS
    <3> QED BY <3>1, <3>2, <3>3, BlankTypes
  <2> QED BY <2>1, <2>2, <2>3 DEF IInv, TypeOK
<1>4. NoOldRow => NoOldRow' BY <1>1, <1>2 DEF NoOldRow
<1>5. Fleet' BY <1>4 DEF StartSweep, IInv, Fleet, AllMoved, NoVerdict
<1>6. Kept'
  <2>1. NothingLost' BY <1>1 DEF IInv, Kept, NothingLost, Present
  <2>2. \A f \in Flows : row'[f] # NoRow => f \in begun' BY <1>1 DEF StartSweep, IInv, Kept
  <2> QED BY <2>1, <2>2 DEF Kept, StartSweep
<1>7. Renewable'
  BY <1>1, <1>2, SweepLeavesRenewals DEF StartSweep
<1>8. Walked'
  <2>1. table' = 1 /\ ~ fetched' BY DEF StartSweep
  <2> QED BY <2>1 DEF Walked, WalkedTable
<1>9. Reports' BY DEF StartSweep, Reports, NoVerdict, DiagnosisIsTrue
<1>10. SecretsBounded'
  <2>1. writes \in Nat /\ writes' = writes BY DEF StartSweep, IInv, TypeOK
  <2> QED BY <1>1, <1>2, <2>1 DEF IInv, SecretsBounded
<1> QED BY <1>3, <1>5, <1>6, <1>7, <1>8, <1>9, <1>10 DEF IInv

LEMMA FetchKeeps == ASSUME IInv, Fetch PROVE IInv'
<1> USE RotationAssumption, Apart
<1>1. /\ table \in 1 .. 4 /\ fetched'
      /\ todo' = {[row |-> r, blob |-> Blob(r)] :
                   r \in {q \in Tables[table] : Present(q) /\ row[q].key # "new"}}
      /\ UNCHANGED <<row, aged, begun, table, stranded, failed, config, work, verdict,
                     latest, fleet, straggled, writes, troubles>>
      /\ fetched' \in BOOLEAN
  BY DEF Fetch, store, history
<1>2. Tables[table] \subseteq Rows BY <1>1, TablesAre
<1>3. \A t \in todo' : t.row \in Rows /\ t.blob = Blob(t.row) /\ Present(t.row)
  BY <1>1, <1>2
<1>4. TypeOK'
  <2>1. todo' \subseteq [row : Rows, blob : Blobs] BY <1>1, <1>2, BlobType DEF IInv
  <2> QED BY <1>1, <2>1 DEF IInv, TypeOK
<1>5. Fleet' BY <1>1 DEF IInv, Fleet, AllMoved, NoOldRow
<1>6. Kept'
  <2>1. NothingLost' BY <1>1 DEF IInv, Kept, NothingLost, Present
  <2>2. \A t \in todo' : t.row \in Flows => t.row \in begun /\ (~ t.blob.good => ~ row[t.row].good)
    <3>1. \A r \in Rows : Blob(r).good = row[r].good BY DEF Blob
    <3>2. \A f \in Flows : Present(f) => f \in begun BY DEF IInv, Kept, Present
    <3>3. \A t \in todo' : t.blob.good = row[t.row].good BY <1>3, <3>1
    <3> QED BY <1>3, <3>2, <3>3
  <2> QED BY <1>1, <2>1, <2>2 DEF IInv, Kept
<1>7. Renewable' BY <1>1 DEF IInv, Renewable, RenewalsLand
<1>8. Walked'
  <2> SUFFICES ASSUME ~ straggled, NEW i \in 1 .. 4 PROVE WalkedTable(i)'
    BY <1>1 DEF Walked
  <2>1. WalkedTable(i) BY <1>1 DEF IInv, Walked
  <2>2. \A r \in Tables[table] : row[r].key = "old" => [row |-> r, blob |-> Blob(r)] \in todo'
    BY <1>1, <1>2 DEF Present, NoRow
  <2> QED BY <1>1, <2>1, <2>2 DEF WalkedTable, Blob
<1>9. Reports' BY <1>1 DEF IInv, Reports, DiagnosisIsTrue
<1>10. SecretsBounded' BY <1>1 DEF IInv, SecretsBounded
<1> QED BY <1>4, <1>5, <1>6, <1>7, <1>8, <1>9, <1>10 DEF IInv

\* One row of a pass: what it leaves of the others that were read, and of the rows.
Treats(t) ==
    /\ todo' = todo \ {t}
    /\ UNCHANGED <<aged, begun, config, work, table, fetched, failed, verdict, history, writes,
                   troubles>>
    /\ row' \in [Rows -> Columns]
    /\ stranded' \subseteq Durable /\ stranded \subseteq stranded'
    /\ \A r \in Rows :
          \/ row'[r] = row[r]
          \/ Present(r) /\ row'[r] = [row[r] EXCEPT !.key = "new"]
          \/ row'[r] = NoRow /\ latest[r] = 0
    /\ \A r \in Rows : row[r].key = "old" /\ t.row = r /\ t.blob = Blob(r)
                          => row'[r].key # "old" \/ r \in stranded'

LEMMA ItemKeeps == ASSUME IInv, NEW t \in todo, Treats(t) PROVE IInv'
<1> USE RotationAssumption, Apart
<1>0. /\ todo' = todo \ {t}
      /\ UNCHANGED <<aged, begun, config, work, table, fetched, failed, verdict, latest, fleet,
                     straggled, writes, troubles>>
      /\ row' \in [Rows -> Columns] /\ stranded' \subseteq Durable /\ stranded \subseteq stranded'
  BY DEF Treats, history
<1>1. NoRow.key = "none" /\ ~ NoRow.good /\ NoRow.secret = 0 BY DEF NoRow
<1>2. ASSUME NEW r \in Rows
      PROVE  \/ row'[r] = row[r]
             \/ /\ Present(r) /\ row'[r].key = "new" /\ row'[r].good = row[r].good
                /\ row'[r].secret = row[r].secret /\ row'[r].stamp = row[r].stamp
             \/ row'[r] = NoRow /\ latest[r] = 0
  <2>1. row[r] \in Columns BY DEF IInv, TypeOK
  <2> QED BY <2>1 DEF Columns, Treats
<1>3. TypeOK' BY <1>0 DEF IInv, TypeOK, history
<1>4. NoOldRow => NoOldRow' BY <1>1, <1>2 DEF NoOldRow
<1>5. Fleet' BY <1>0, <1>4 DEF IInv, Fleet, AllMoved
<1>6. Kept'
  <2>1. NothingLost'
    <3>1. \A r \in Rows : latest[r] # 0 => row'[r].good /\ row'[r].secret = latest[r]
      BY <1>2 DEF IInv, Kept, NothingLost
    <3> QED BY <1>0, <1>1, <3>1 DEF NothingLost, Present
  <2>2. \A r \in Rows : row'[r].good => row[r].good BY <1>1, <1>2
  <2>3. \A f \in Flows : row'[f] # NoRow => f \in begun
    <3>1. \A f \in Flows : row'[f] # NoRow => row[f] # NoRow BY <1>2 DEF Present
    <3> QED BY <3>1 DEF IInv, Kept
  <2>4. \A s \in todo' : s.row \in Flows =>
          s.row \in begun /\ (~ s.blob.good => ~ row'[s.row].good)
    BY <1>0, <2>2 DEF IInv, Kept
  <2> QED BY <1>0, <2>1, <2>3, <2>4 DEF Kept
<1>7. Renewable'
  <2>1. \A r \in Rows : latest'[r] # 0 => row'[r].stamp = row[r].stamp BY <1>0, <1>2
  <2>2. \A r \in Rows : row'[r].good => row[r].good /\ row'[r].secret = row[r].secret
    BY <1>1, <1>2
  <2> QED BY <1>0, <2>1, <2>2, SweepLeavesRenewals
<1>8. Walked'
  <2> SUFFICES ASSUME table # 0, ~ straggled, NEW i \in 1 .. 4 PROVE WalkedTable(i)'
    BY <1>0 DEF Walked
  <2>1. WalkedTable(i) BY DEF IInv, Walked
  <2> SUFFICES ASSUME NEW r \in Tables[i], row'[r].key = "old", i \notin failed
               PROVE  /\ i < table => r \in stranded'
                      /\ i = table /\ fetched =>
                            r \in stranded' \/ [row |-> r, blob |-> Blob(r)'] \in todo'
    BY <1>0 DEF WalkedTable
  <2>2. r \in Rows BY TablesAre
  <2>3. row'[r] = row[r] BY <1>1, <1>2, <2>2
  <2>4. Blob(r)' = Blob(r) BY <2>3 DEF Blob
  <2>5. i < table => r \in stranded' BY <1>0, <2>1, <2>3 DEF WalkedTable
  <2>6. ASSUME i = table, fetched, r \notin stranded'
        PROVE  [row |-> r, blob |-> Blob(r)'] \in todo'
    <3>1. [row |-> r, blob |-> Blob(r)] \in todo BY <1>0, <2>1, <2>3, <2>6 DEF WalkedTable
    <3>2. ~ (t.row = r /\ t.blob = Blob(r)) BY <2>2, <2>3, <2>6 DEF Treats
    <3> QED BY <1>0, <2>4, <3>1, <3>2
  <2> QED BY <2>5, <2>6
<1>9. Reports' BY <1>0 DEF IInv, Reports, DiagnosisIsTrue
<1>10. SecretsBounded'
  <2>1. writes \in Nat BY DEF IInv, TypeOK
  <2> QED BY <1>0, <1>1, <1>2, <2>1 DEF IInv, SecretsBounded
<1> QED BY <1>3, <1>5, <1>6, <1>7, <1>8, <1>9, <1>10 DEF IInv

\* What a pass read is a row and its blob.
LEMMA ItemType == ASSUME TypeOK, NEW t \in todo
                  PROVE  t.row \in Rows /\ t.blob \in Blobs /\ t = [row |-> t.row, blob |-> t.blob]
<1>1. t \in [row : Rows, blob : Blobs] BY DEF TypeOK
<1> QED BY <1>1

LEMMA ResealKeeps == ASSUME IInv, NEW t \in todo, Reseal(t) PROVE IInv'
<1>1. t.row \in Rows BY ItemType DEF IInv
<1>2. \A r \in Rows : row[r] \in Columns BY DEF IInv, TypeOK
<1>3. row \in [Rows -> Columns] BY DEF IInv, TypeOK
<1>4. [row[t.row] EXCEPT !.key = "new"] \in Columns BY <1>1, <1>2 DEF Columns
<1>5. /\ todo' = todo \ {t}
      /\ UNCHANGED <<aged, begun, config, work, table, fetched, stranded, failed, verdict,
                     history, writes, troubles>>
      /\ row' = IF Present(t.row) /\ Blob(t.row) = t.blob
                THEN [row EXCEPT ![t.row] = [row[t.row] EXCEPT !.key = "new"]]
                ELSE row
  BY <1>3 DEF Reseal
<1>6. row' \in [Rows -> Columns] BY <1>1, <1>3, <1>4, <1>5
<1>7. \A r \in Rows : row'[r] = IF r = t.row /\ Present(t.row) /\ Blob(t.row) = t.blob
                                THEN [row[r] EXCEPT !.key = "new"] ELSE row[r]
  BY <1>3, <1>5
<1>8. \A r \in Rows : row'[r] = row[r] \/ (Present(r) /\ row'[r] = [row[r] EXCEPT !.key = "new"])
  BY <1>7
<1>9. \A r \in Rows : row[r].key = "old" /\ t.row = r /\ t.blob = Blob(r) => row'[r].key # "old"
  <2> SUFFICES ASSUME NEW r \in Rows, row[r].key = "old", t.row = r, t.blob = Blob(r)
               PROVE  row'[r].key # "old"
    OBVIOUS
  <2>1. NoRow.key # "old" BY DEF NoRow
  <2>2. Present(r) BY <2>1 DEF Present
  <2>3. row'[r] = [row[r] EXCEPT !.key = "new"] BY <1>7, <2>2
  <2>4. row'[r].key = "new" BY <1>2, <2>3 DEF Columns
  <2> QED BY <2>4
<1>10. stranded' \subseteq Durable /\ stranded \subseteq stranded' BY <1>5 DEF IInv, TypeOK
<1>11. Treats(t) BY <1>5, <1>6, <1>8, <1>9, <1>10 DEF Treats
<1> QED BY <1>11, ItemKeeps

LEMMA SkipKeeps == ASSUME IInv, NEW t \in todo, Skip(t) PROVE IInv'
<1>1. /\ todo' = todo \ {t} /\ t.blob.key # "old"
      /\ UNCHANGED <<row, aged, begun, config, work, table, fetched, stranded, failed, verdict,
                     history, writes, troubles>>
  BY DEF Skip, SweepHeld, store
<1>2. row' \in [Rows -> Columns] /\ stranded' \subseteq Durable /\ stranded \subseteq stranded'
  BY <1>1 DEF IInv, TypeOK
<1>3. \A r \in Rows : ~ (row[r].key = "old" /\ t.row = r /\ t.blob = Blob(r)) BY <1>1 DEF Blob
<1>4. Treats(t) BY <1>1, <1>2, <1>3 DEF Treats
<1> QED BY <1>4, ItemKeeps

LEMMA RefuseKeeps == ASSUME IInv, NEW t \in todo, Refuse(t) PROVE IInv'
<1>1. t.row \in Rows BY ItemType DEF IInv
<1>2. row \in [Rows -> Columns] /\ stranded \subseteq Durable BY DEF IInv, TypeOK
<1>3. /\ todo' = todo \ {t} /\ ~ t.blob.good
      /\ UNCHANGED <<aged, begun, config, work, table, fetched, failed, verdict, history,
                     writes, troubles>>
  BY DEF Refuse
<1>4. CASE t.row \in Flows
  <2>1. row' = [row EXCEPT ![t.row] = NoRow] /\ stranded' = stranded BY <1>4 DEF Refuse
  <2>2. row' \in [Rows -> Columns] BY <1>2, <2>1, BlankTypes
  <2>3. latest[t.row] = 0
    <3>1. ~ row[t.row].good BY <1>3, <1>4 DEF IInv, Kept
    <3> QED BY <1>1, <3>1 DEF IInv, Kept, NothingLost
  <2>4. \A r \in Rows : row'[r] = IF r = t.row THEN NoRow ELSE row[r] BY <1>2, <2>1
  <2>5. NoRow.key # "old" BY DEF NoRow
  <2>6. ASSUME NEW r \in Rows PROVE row'[r] = row[r] \/ (row'[r] = NoRow /\ latest[r] = 0)
    <3>1. CASE r = t.row BY <2>3, <2>4, <3>1
    <3>2. CASE r # t.row BY <2>4, <3>2
    <3> QED BY <3>1, <3>2
  <2>7. \A r \in Rows : t.row = r => row'[r].key # "old" BY <2>4, <2>5
  <2>8. Treats(t) BY <1>2, <1>3, <2>1, <2>2, <2>6, <2>7 DEF Treats
  <2> QED BY <2>8, ItemKeeps
<1>5. CASE t.row \notin Flows
  <2>1. row' = row /\ stranded' = stranded \cup {t.row} BY <1>5 DEF Refuse
  <2>2. t.row \in Durable BY <1>1, <1>5 DEF Rows
  <2>3. Treats(t) BY <1>2, <1>3, <2>1, <2>2 DEF Treats
  <2> QED BY <2>3, ItemKeeps
<1> QED BY <1>4, <1>5

\* A pass ends: it was walked to the end, or the report will say it was not.
LEMMA NextPassKeeps ==
    ASSUME IInv, NextPass, table \in 1 .. 4, troubles' \in 0 .. MaxTroubles,
           \/ failed' = failed /\ fetched /\ todo = {}
           \/ failed' = failed \cup {table}
    PROVE  IInv'
<1>1. /\ table' = table + 1 /\ fetched' = FALSE /\ todo' = {}
      /\ UNCHANGED <<row, aged, begun, stranded, config, work, verdict, latest, fleet, straggled,
                     writes>>
  BY DEF NextPass, store, history
<1>2. TypeOK'
  <2>1. table' \in 0 .. 5 BY <1>1
  <2>2. failed \subseteq 1 .. 4 BY DEF IInv, TypeOK
  <2>3. failed' \subseteq 1 .. 4 BY <2>2
  <2> QED BY <1>1, <2>1, <2>3 DEF IInv, TypeOK
<1>3. Fleet' BY <1>1 DEF IInv, Fleet, AllMoved, NoOldRow
<1>4. Kept' BY <1>1 DEF IInv, Kept, NothingLost, Present
<1>5. Renewable' BY <1>1 DEF IInv, Renewable, RenewalsLand
<1>6. Walked'
  <2> SUFFICES ASSUME ~ straggled, NEW i \in 1 .. 4, NEW r \in Tables[i],
                      row[r].key = "old", i \notin failed', i < table'
               PROVE  r \in stranded
    BY <1>1 DEF Walked, WalkedTable
  <2>1. WalkedTable(i) /\ i \notin failed BY DEF IInv, Walked
  <2>2. i < table \/ i = table BY <1>1
  <2> QED BY <2>1, <2>2 DEF WalkedTable
<1>7. Reports' BY <1>1 DEF IInv, Reports, DiagnosisIsTrue
<1>8. SecretsBounded' BY <1>1 DEF IInv, SecretsBounded
<1> QED BY <1>2, <1>3, <1>4, <1>5, <1>6, <1>7, <1>8 DEF IInv

\* The report in the making is gone, and the last one is NEW or what it was.
LEMMA SweepEnds ==
    ASSUME IInv, table' = 0, fetched' \in BOOLEAN, todo' \subseteq todo, Reported,
           troubles' \in 0 .. MaxTroubles, verdict' \in Verdicts, Reports',
           verdict'.fleet => AllMoved,
           verdict'.finished /\ verdict'.fleet => NoOldRow,
           UNCHANGED <<store, latest, config, work, writes>>
    PROVE  IInv'
<1>1. UNCHANGED <<row, aged, begun>> BY DEF store
<1>2. stranded' = {} /\ failed' = {} /\ fleet' = FALSE /\ straggled' = FALSE BY DEF Reported
<1>3. TypeOK'
  <2>1. table' \in 0 .. 5 OBVIOUS
  <2> QED BY <1>1, <1>2, <2>1 DEF IInv, TypeOK
<1>4. Fleet' BY <1>1, <1>2 DEF IInv, Fleet, AllMoved, NoOldRow
<1>5. Kept' BY <1>1 DEF IInv, Kept, NothingLost, Present
<1>6. Renewable' BY <1>1 DEF IInv, Renewable, RenewalsLand
<1>7. Walked' BY DEF Walked
<1>8. SecretsBounded' BY <1>1 DEF IInv, SecretsBounded
<1> QED BY <1>3, <1>4, <1>5, <1>6, <1>7, <1>8 DEF IInv

LEMMA CutShortKeeps == ASSUME IInv, CutShort PROVE IInv'
<1>1. /\ table' = 0 /\ fetched' = FALSE /\ todo' = {} /\ Reported /\ verdict' = verdict
      /\ UNCHANGED <<store, latest, config, work, writes>>
  BY DEF CutShort
<1>2. troubles' \in 0 .. MaxTroubles BY RotationAssumption DEF CutShort, IInv, TypeOK
<1>3. verdict' \in Verdicts BY <1>1 DEF IInv, TypeOK
<1>4. Reports' BY <1>1 DEF IInv, Reports, DiagnosisIsTrue
<1>5. /\ verdict'.fleet => AllMoved
      /\ verdict'.finished /\ verdict'.fleet => NoOldRow
  BY <1>1 DEF IInv, Fleet
<1> QED BY <1>1, <1>2, <1>3, <1>4, <1>5, SweepEnds

LEMMA CensusKeeps == ASSUME IInv, Census PROVE IInv'
<1>1. /\ table = 5 /\ table' = 0 /\ Reported
      /\ verdict' = [given       |-> TRUE,
                     finished    |-> \A i \in 1 .. 4 : StillRetired(i) = {},
                     fleet       |-> fleet,
                     whole       |-> failed = {},
                     left        |-> UNION {StillRetired(i) : i \in 1 .. 4},
                     stranded    |-> stranded,
                     writtenBack |-> WrittenBack,
                     straggled   |-> straggled]
      /\ UNCHANGED <<store, latest, fetched, todo, config, work, writes, troubles>>
  BY DEF Census
<1>2. \A i \in 1 .. 4 : StillRetired(i) = {r \in Tables[i] : row[r].key = "old"}
  BY DEF StillRetired, Retired
<1>3. verdict' \in Verdicts
  <2>1. \A i \in 1 .. 4 : StillRetired(i) \subseteq Rows BY <1>2, TablesAre
  <2>2. UNION {StillRetired(i) : i \in 1 .. 4} \in SUBSET Rows BY <2>1
  <2>3. WrittenBack \in BOOLEAN BY DEF WrittenBack
  <2>4. fleet \in BOOLEAN /\ straggled \in BOOLEAN /\ stranded \in SUBSET Durable
    BY DEF IInv, TypeOK
  <2> QED BY <1>1, <2>2, <2>3, <2>4 DEF Verdicts
<1>4. ASSUME failed = {}, ~ straggled, NEW i \in 1 .. 4
      PROVE  StillRetired(i) \subseteq Accounted(i)
  <2>1. WalkedTable(i) BY <1>1, <1>4 DEF IInv, Walked
  <2>2. i < table BY <1>1
  <2> QED BY <1>2, <1>4, <2>1, <2>2 DEF WalkedTable, Accounted
<1>5. Reports'
  <2>1. failed = {} /\ ~ straggled => UNION {StillRetired(i) : i \in 1 .. 4} \subseteq stranded
    BY <1>4 DEF Accounted
  <2>2. failed = {} /\ ~ straggled => ~ WrittenBack
    <3> SUFFICES ASSUME failed = {}, ~ straggled, NEW i \in 1 .. 4
                 PROVE  ~ (Cardinality(StillRetired(i)) > Cardinality(Accounted(i)))
      BY DEF WrittenBack
    <3>1. StillRetired(i) \subseteq Accounted(i) BY <1>4
    <3>2. IsFiniteSet(Accounted(i))
      <4>1. Accounted(i) \subseteq Rows BY TablesAre DEF Accounted
      <4> QED BY <4>1, RotationAssumption, FS_Subset
    <3>3. IsFiniteSet(StillRetired(i)) BY <3>1, <3>2, FS_Subset
    <3>4. Cardinality(StillRetired(i)) <= Cardinality(Accounted(i)) BY <3>1, <3>2, FS_Subset
    <3>5. Cardinality(StillRetired(i)) \in Nat /\ Cardinality(Accounted(i)) \in Nat
      BY <3>2, <3>3, FS_CardinalityType
    <3> QED BY <3>4, <3>5
  <2>3. fleet => ~ straggled BY DEF IInv, Fleet
  <2>4. /\ verdict'.given /\ verdict'.whole /\ ~ verdict'.straggled =>
             verdict'.left \subseteq verdict'.stranded
        /\ verdict'.writtenBack /\ verdict'.whole => verdict'.straggled
        /\ verdict'.fleet => ~ verdict'.straggled
    BY <1>1, <2>1, <2>2, <2>3
  <2> QED BY <2>4 DEF Reports, DiagnosisIsTrue
<1>6. verdict'.fleet => AllMoved BY <1>1 DEF IInv, Fleet
<1>7. verdict'.finished => NoOldRow
  <2> SUFFICES ASSUME verdict'.finished, NEW r \in Rows PROVE row[r].key # "old"
    BY DEF NoOldRow
  <2>1. PICK i \in 1 .. 4 : r \in Tables[i] BY TablesAre
  <2>2. StillRetired(i) = {} BY <1>1
  <2> QED BY <1>2, <2>1, <2>2
<1>8. fetched' \in BOOLEAN /\ todo' \subseteq todo /\ troubles' \in 0 .. MaxTroubles
  BY <1>1 DEF IInv, TypeOK
<1> QED BY <1>1, <1>3, <1>5, <1>6, <1>7, <1>8, SweepEnds

-----------------------------------------------------------------------------
(* Every step.                                                             *)

LEMMA ServersKeep ==
    ASSUME IInv, NEW p \in Processes
    PROVE  /\ \A r \in Durable : Save(p, r) => IInv'
           /\ \A r \in Connections : StartRenewal(p, r) => IInv'
           /\ \A f \in Flows : Begin(p, f) \/ Callback(p, f) => IInv'
           /\ Renew(p) \/ Connect(p) \/ Abandon(p) => IInv'
           /\ Restart(p) \/ Drop(p) => IInv'
<1> USE Apart
<1>1. ASSUME NEW r \in Durable, Save(p, r) PROVE IInv'
  <2>1. Stores(p, r) BY <1>1 DEF Save, Stores
  <2> QED BY <2>1, StoresKeeps
<1>3. ASSUME NEW r \in Connections, StartRenewal(p, r) PROVE IInv'
  <2>1. /\ UNCHANGED <<row, begun, aged, config, sweep, verdict, history, writes, troubles>>
        /\ row[r].good
        /\ work' = [work EXCEPT ![p] = [at |-> "renewing", row |-> r, secret |-> row[r].secret,
                                        stamp |-> row[r].stamp]]
    BY <1>3 DEF StartRenewal, Opens, store
  <2>2. /\ aged' \subseteq begun /\ config' \in [Processes -> {"before", "rotated", "dropped"}]
        /\ row[r] \in Columns /\ work \in [Processes -> Works]
    BY <2>1 DEF IInv, TypeOK
  <2> DEFINE new == [at |-> "renewing", row |-> r, secret |-> row[r].secret,
                     stamp |-> row[r].stamp]
  <2>3. /\ new \in Works /\ new.at = "renewing" /\ new.row = r
        /\ new.secret = row[r].secret /\ new.stamp = row[r].stamp
    BY <2>2 DEF Works, Columns
  <2>4. work' = [work EXCEPT ![p] = new] BY <2>1
  <2> HIDE DEF new
  <2>5. /\ work' \in [Processes -> Works]
        /\ \A q \in Processes : work'[q] = work[q] \/ work'[q] = new
    BY <2>2, <2>3, <2>4
  <2>6. UNCHANGED <<row, begun, sweep, verdict, history, writes, troubles>> BY <2>1
  <2>7. \A q \in Processes :
           \/ work'[q] = work[q]
           \/ \E c \in Connections :
                 /\ row[c].good
                 /\ work'[q].at = "renewing" /\ work'[q].row = c
                 /\ work'[q].secret = row[c].secret /\ work'[q].stamp = row[c].stamp
    BY <2>1, <2>3, <2>5
  <2>8. \A q \in Processes : config'[q] = config[q] BY <2>1
  <2> QED BY <2>2, <2>5, <2>6, <2>7, <2>8, WorkKeeps
<1>4. ASSUME NEW f \in Flows, Begin(p, f) PROVE IInv'
  <2>1. Stores(p, f) BY <1>4 DEF Begin, Stores
  <2> QED BY <2>1, StoresKeeps
<1>5. ASSUME NEW f \in Flows, Callback(p, f) PROVE IInv'
  <2>1. /\ Gone({f})
        /\ UNCHANGED <<config, aged, begun, sweep, verdict, fleet, straggled, writes, troubles>>
    BY <1>5 DEF Callback
  <2> DEFINE new == [Idle EXCEPT !.at = "exchanging", !.row = ConnectionOf[f]]
  <2>2. new \in Works /\ new.at = "exchanging" /\ new.row \in Connections
    BY ExchangeType, RotationAssumption
  <2>3. work' = work \/ work' = [work EXCEPT ![p] = new] BY <1>5 DEF Callback
  <2> HIDE DEF new
  <2>4. work \in [Processes -> Works] BY DEF IInv, TypeOK
  <2>5. \/ work' = work
        \/ work'[p] = new /\ \A q \in Processes \ {p} : work'[q] = work[q]
    BY <2>3, <2>4
  <2>6. work' \in [Processes -> Works] BY <2>2, <2>3, <2>4
  <2>7. \A q \in Processes :
           \/ work'[q] = work[q]
           \/ work'[q].at = "exchanging" /\ work'[q].row \in Connections
    BY <2>2, <2>5
  <2>8. {f} \in SUBSET Rows OBVIOUS
  <2> QED BY <2>1, <2>6, <2>7, <2>8, GoneKeeps
<1>7. ASSUME work' = [work EXCEPT ![p] = Idle], aged' = aged,
             UNCHANGED <<row, begun, sweep, verdict, history, writes, troubles>>,
             \/ config' = config
             \/ /\ config' = [config EXCEPT ![p] = "rotated"]
                /\ config[p] = "before"
             \/ /\ config' = [config EXCEPT ![p] = "dropped"]
                /\ verdict.finished /\ verdict.fleet
      PROVE  IInv'
  <2>1. /\ aged' \subseteq begun /\ work \in [Processes -> Works]
        /\ config \in [Processes -> {"before", "rotated", "dropped"}]
    BY <1>7 DEF IInv, TypeOK
  <2>2. /\ config' \in [Processes -> {"before", "rotated", "dropped"}]
        /\ \A q \in Processes :
              \/ config'[q] = config[q]
              \/ config'[q] = "rotated"
              \/ config'[q] = "dropped" /\ verdict.finished /\ verdict.fleet
    BY <1>7, <2>1
  <2>3. Idle.at = "idle" BY DEF Idle
  <2>4. /\ work' \in [Processes -> Works]
        /\ \A q \in Processes : work'[q] = work[q] \/ work'[q].at = "idle"
    BY <1>7, <2>1, <2>3, BlankTypes
  <2>5. UNCHANGED <<row, begun, sweep, verdict, history, writes, troubles>> BY <1>7
  <2> QED BY <2>1, <2>2, <2>4, <2>5, WorkKeeps
<1>8. ASSUME Renew(p) PROVE IInv'
  <2>1. /\ work[p].at = "renewing" /\ work' = [work EXCEPT ![p] = Idle]
        /\ UNCHANGED <<config, aged, begun, sweep, verdict, fleet, troubles>>
    BY <1>8 DEF Renew
  <2>2. work[p].row \in Connections BY <2>1 DEF IInv, Renewable
  <2>3. CASE row[work[p].row].stamp = work[p].stamp
    <3>1. Write(p, work[p].row) BY <1>8, <2>3 DEF Renew
    <3>2. Stores(p, work[p].row) BY <2>1, <2>2, <3>1 DEF Stores
    <3> QED BY <2>2, <3>2, StoresKeeps
  <2>4. CASE row[work[p].row].stamp # work[p].stamp
    <3>1. UNCHANGED <<row, latest, straggled, writes>> BY <1>8, <2>4 DEF Renew
    <3> QED BY <1>7, <2>1, <3>1 DEF history
  <2> QED BY <2>3, <2>4
<1>9. ASSUME Connect(p) PROVE IInv'
  <2>1. work[p].row \in Connections BY <1>9 DEF Connect, IInv, Renewable
  <2>2. Stores(p, work[p].row) BY <1>9, <2>1 DEF Connect, Stores
  <2> QED BY <2>1, <2>2, StoresKeeps
<1>10. ASSUME Abandon(p) PROVE IInv' BY <1>7, <1>10 DEF Abandon, store
<1>11. ASSUME Restart(p) PROVE IInv' BY <1>7, <1>11 DEF Restart, store
<1>12. ASSUME Drop(p) PROVE IInv' BY <1>7, <1>12 DEF Drop, store
<1> QED BY <1>1, <1>3, <1>4, <1>5, <1>8, <1>9, <1>10, <1>11, <1>12

LEMMA PassesKeep == IInv /\ (EndPass \/ FailPass) => IInv'
<1>1. ASSUME IInv, EndPass PROVE IInv'
  <2>1. /\ table \in 1 .. 4 /\ NextPass /\ failed' = failed /\ fetched /\ todo = {}
        /\ troubles' = troubles
    BY <1>1 DEF EndPass
  <2>2. troubles' \in 0 .. MaxTroubles BY <1>1, <2>1 DEF IInv, TypeOK
  <2> QED BY <1>1, <2>1, <2>2, NextPassKeeps
<1>2. ASSUME IInv, FailPass PROVE IInv'
  <2>1. /\ table \in 1 .. 4 /\ NextPass /\ failed' = failed \cup {table}
        /\ troubles < MaxTroubles /\ troubles' = troubles + 1
    BY <1>2 DEF FailPass
  <2>2. troubles' \in 0 .. MaxTroubles BY <1>2, <2>1, RotationAssumption DEF IInv, TypeOK
  <2> QED BY <1>2, <2>1, <2>2, NextPassKeeps
<1> QED BY <1>1, <1>2

LEMMA StutterKeeps == IInv /\ UNCHANGED vars => IInv'
<1> SUFFICES ASSUME IInv, UNCHANGED vars PROVE IInv'
  OBVIOUS
<1>1. UNCHANGED <<row, aged, begun, config, work, table, fetched, todo, stranded, failed, verdict,
                  latest, fleet, straggled, writes, troubles>>
  BY DEF vars, store, sweep, history
<1>2. TypeOK' BY <1>1 DEF IInv, TypeOK
<1>3. Fleet' BY <1>1 DEF IInv, Fleet, AllMoved, NoOldRow
<1>4. Kept' BY <1>1 DEF IInv, Kept, NothingLost, Present
<1>5. Renewable' BY <1>1 DEF IInv, Renewable, RenewalsLand
<1>6. Walked' BY <1>1 DEF IInv, Walked, WalkedTable, Blob
<1>7. Reports' BY <1>1 DEF IInv, Reports, DiagnosisIsTrue
<1>8. SecretsBounded' BY <1>1 DEF IInv, SecretsBounded
<1> QED BY <1>2, <1>3, <1>4, <1>5, <1>6, <1>7, <1>8 DEF IInv

LEMMA NextKeeps == IInv /\ [Next]_vars => IInv'
<1> SUFFICES ASSUME IInv, [Next]_vars PROVE IInv'
  OBVIOUS
<1>1. ASSUME NEW p \in Processes,
             \/ \E r \in Durable : Save(p, r)
             \/ \E r \in Connections : StartRenewal(p, r)
             \/ \E f \in Flows : Begin(p, f) \/ Callback(p, f)
             \/ Renew(p) \/ Connect(p) \/ Abandon(p) \/ Restart(p) \/ Drop(p)
      PROVE  IInv'
  BY <1>1, ServersKeep
<1>2. ASSUME NEW r \in Durable, Remove(r) PROVE IInv'
  <2>1. /\ Gone({r}) /\ work' = work
        /\ UNCHANGED <<config, aged, begun, sweep, verdict, fleet, straggled, writes, troubles>>
    BY <1>2 DEF Remove
  <2>2. {r} \in SUBSET Rows BY Apart
  <2>3. work' \in [Processes -> Works] BY <2>1 DEF IInv, TypeOK
  <2> QED BY <2>1, <2>2, <2>3, GoneKeeps
<1>3. ASSUME NEW f \in Flows, Age(f) PROVE IInv'
  <2>1. /\ UNCHANGED <<row, begun, config, work, sweep, verdict, history, writes, troubles>>
        /\ aged' = aged \cup {f} /\ f \in begun
    BY <1>3 DEF Age
  <2>2. /\ aged' \subseteq begun /\ work' \in [Processes -> Works]
        /\ config' \in [Processes -> {"before", "rotated", "dropped"}]
    BY <2>1 DEF IInv, TypeOK
  <2>3. \A q \in Processes : config'[q] = config[q] /\ work'[q] = work[q] BY <2>1
  <2> QED BY <2>1, <2>2, <2>3, WorkKeeps
<1>4. ASSUME NEW t \in todo, Reseal(t) \/ Skip(t) \/ Refuse(t) PROVE IInv'
  BY <1>4, ResealKeeps, SkipKeeps, RefuseKeeps
<1>5. CASE StartSweep \/ Fetch BY <1>5, StartSweepKeeps, FetchKeeps
<1>6. CASE EndPass \/ FailPass BY <1>6, PassesKeep
<1>7. CASE CutShort \/ Census BY <1>7, CutShortKeeps, CensusKeeps
<1>8. CASE UNCHANGED vars BY <1>8, StutterKeeps
<1> QED BY <1>1, <1>2, <1>3, <1>4, <1>5, <1>6, <1>7, <1>8 DEF Next

-----------------------------------------------------------------------------
(* The theorems.                                                           *)

\* The inductive invariant holds of every behaviour of the deployment.
THEOREM Invariance == Spec => []IInv
<1>1. Init => IInv BY InitIInv
<1>2. IInv /\ [Next]_vars => IInv' BY NextKeeps
<1> QED BY <1>1, <1>2, PTL DEF Spec

\* Every variable keeps its type, and only durable rows are reported as blocking.
THEOREM TypeCorrect == Spec => []TypeOK
<1>1. IInv => TypeOK BY DEF IInv
<1> QED BY <1>1, Invariance, PTL

\* The sweep destroys no secret that a row owes its readers (reseal_*, Stranded).
THEOREM NothingLostHolds == Spec => []NothingLost
<1>1. IInv => NothingLost BY DEF IInv, Kept
<1> QED BY <1>1, Invariance, PTL

\* The sweep keeps no renewal from storing what the provider gave it.
THEOREM RenewalsLandHold == Spec => []RenewalsLand
<1>1. IInv => RenewalsLand BY DEF IInv, Renewable
<1> QED BY <1>1, Invariance, PTL

\* A finished report of a sweep that began after the last restart is enough to drop the
\* old key (finished, _finish_rotation).
THEOREM DropStrandsNobodyHolds == Spec => []DropStrandsNobody
<1>1. IInv => DropStrandsNobody BY DEF IInv, Fleet, NoOldRow, DropStrandsNobody
<1> QED BY <1>1, Invariance, PTL

\* One whole sweep after the last restart leaves no row but those it named.
THEOREM OneSweepSufficesHolds == Spec => []OneSweepSuffices
<1>1. IInv => OneSweepSuffices BY DEF IInv, Reports, OneSweepSuffices
<1> QED BY <1>1, Invariance, PTL

\* rows_written_under_a_retired_key is counted only when some process wrote one.
THEOREM DiagnosisIsTrueHolds == Spec => []DiagnosisIsTrue
<1>1. IInv => DiagnosisIsTrue BY DEF IInv, Reports
<1> QED BY <1>1, Invariance, PTL

\* What the report says is so, of the rows it leaves and of the processes it blames.
THEOREM ReportIsTrueHolds == Spec => []ReportIsTrue
BY OneSweepSufficesHolds, DiagnosisIsTrueHolds, PTL DEF ReportIsTrue
=============================================================================
