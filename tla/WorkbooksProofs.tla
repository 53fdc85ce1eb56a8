--------------------------- MODULE WorkbooksProofs ---------------------------
(***************************************************************************)
(* Proofs about Workbooks for any sheets, customers, staff directories and *)
(* uploads in flight.                                                      *)
(*                                                                         *)
(* The charge of a customer is always what the last write of its history   *)
(* left (ChargeIsLast).  The snapshot an upload carries is right for every *)
(* customer nobody else wrote since, which the upload's count of the       *)
(* writes it has seen tells (UploadKnows): a drift takes an overlap.       *)
(***************************************************************************)
EXTENDS Workbooks, FiniteSetTheorems, SequenceTheorems, WellFoundedInduction, TLAPS

IsUpload(q) ==
  q = [pc |-> q.pc, id |-> q.id, sheet |-> q.sheet, left |-> q.left, arc |-> q.arc,
       status |-> q.status, basis |-> q.basis, names |-> q.names]

\* The writes of k the upload has seen are all there are.
UpToDate(q, k) == q.basis[k] = Len(history[k])

Snapshot(q) ==
  /\ DOMAIN q.arc \subseteq Circuits
  /\ q.arc \in [DOMAIN q.arc -> Nat]
  /\ q.basis \in [DOMAIN q.arc -> Nat]
  /\ \A k \in DOMAIN q.arc :
       /\ Known(k)
       /\ q.basis[k] <= Len(history[k])
       /\ UpToDate(q, k) => q.arc[k] = account[k].arc

\* What an upload may rely on at each of its awaits.
UploadKnows(q) ==
  /\ IsUpload(q)
  /\ q.pc \in {"none", "bulk", "backfill", "find", "write", "create"}
  /\ q.pc # "none" => q.id \in 1..MaxUploads
  /\ q.pc = "bulk" =>
       /\ q.sheet \in BulkSheets /\ q.left \subseteq ParsedRows(q.sheet)
       /\ Snapshot(q)
       /\ q.status \in [DOMAIN q.arc -> Statuses]
       /\ \A k \in DOMAIN q.arc : UpToDate(q, k) => q.status[k] = account[k].status
  /\ q.pc = "backfill" =>
       /\ Snapshot(q)
       /\ \A k \in DOMAIN q.arc : UpToDate(q, k) => account[k].status # "TERMINATED"
  /\ q.pc \in {"find", "write", "create"} =>
       q.sheet \in LeadSheets /\ q.left \subseteq DOMAIN q.sheet /\ q.names \in SamNames
  /\ q.pc \in {"write", "create"} =>
       q.left # {} /\ LeadRowIsValid(LeadNow(q)) /\ LeadNow(q).lead # NoCircuit

ChargeIsLast(k) ==
  /\ account[k].arc = Replaced(k, Len(history[k]) + 1)
  /\ ~Known(k) => history[k] = <<>>

BooksInvariant ==
  /\ WorkbookTypeOK
  /\ DOMAIN upload = Uploads
  /\ \A k \in Circuits : ChargeIsLast(k)
  /\ OnlyOverlapsDrift
  /\ \A i \in Uploads : UploadKnows(upload[i])

\* Uploads are told apart by their numbers, in flight and in the histories.
Numbered ==
  /\ \A i \in Uploads : upload[i].pc # "none" => upload[i].id <= uploads
  /\ \A i, j \in Uploads :
       i # j /\ upload[i].pc # "none" /\ upload[j].pc # "none" => upload[i].id # upload[j].id
  /\ \A k \in Circuits : \A n \in DOMAIN history[k] : history[k][n].by <= uploads

\* Entry m is the last of upload id so far.
LastOf(id, k, m) ==
  /\ history[k][m].by = id
  /\ \A o \in (m + 1)..Len(history[k]) : history[k][o].by # id

\* What a bulk import has written is behind what it has left, and its snapshot
\* goes on from there.
ChainKnows(q) ==
  /\ q.pc = "bulk" =>
       \A k \in Circuits : \A m \in DOMAIN history[k] : history[k][m].by = q.id =>
         /\ \A n \in q.left : history[k][m].date <= RowDate(q.sheet[n])
         /\ history[k][m].type = "DISCONNECTION" => q.status[k] = "TERMINATED"
         /\ LastOf(q.id, k, m) => q.arc[k] = history[k][m].new
  /\ q.pc = "backfill" =>
       \A k \in Circuits : \A m \in DOMAIN history[k] : history[k][m].by # q.id

ChainsInvariant ==
  /\ BooksInvariant
  /\ Numbered
  /\ BatchChains
  /\ \A i \in Uploads : ChainKnows(upload[i])

\* Customers stay, and one whose history did not grow is as it was.
Moves ==
  \A k \in Circuits :
    /\ Known(k) => Known(k)'
    /\ Len(history[k]) <= Len(history'[k])
    /\ Len(history[k]) = Len(history'[k]) => account'[k] = account[k]

-----------------------------------------------------------------------------
(* The next row is one of the rows                                         *)

LEMMA LeastNumber ==
  ASSUME NEW S \in SUBSET Nat, S # {}
  PROVE  \E m \in S : \A n \in S : m <= n
<1>1. IsWellFoundedOn(OpToRel(<, Nat), Nat)
  BY NatLessThanWellFounded
<1>2. PICK m \in S : \A n \in S : ~(<<n, m>> \in OpToRel(<, Nat))
  BY <1>1, WFMin
<1>3. \A n \in Nat, k \in Nat : n < k => <<n, k>> \in OpToRel(<, Nat)
  BY DEF OpToRel
<1>4. \A n \in S : ~(n < m)
  BY <1>2, <1>3, Zenon
<1> QED
  BY <1>4

BulkLine == [circuit : Circuits \cup {NoCircuit}, type : ChangeTypes \cup {"BLANK", "BOGUS"},
             arc : Cell(Nat), date : Cell(Nat)]
LeadLine == [lead : Circuits \cup {NoCircuit}, status : DOMAIN StatusAliases \cup {"BLANK", "BOGUS"},
             arc : Cell(Nat), sam : STRING]

LEMMA Lines ==
  /\ \A sheet \in BulkSheets : \A n \in DOMAIN sheet : n \in Nat /\ sheet[n] \in BulkLine
  /\ \A sheet \in LeadSheets : \A n \in DOMAIN sheet : n \in Nat /\ sheet[n] \in LeadLine
<1>1. \A sheet \in BulkSheets : sheet \in Seq(BulkLine)
  BY WorkbookAssumption DEF BulkLine
<1>2. \A sheet \in LeadSheets : sheet \in Seq(LeadLine)
  BY WorkbookAssumption DEF LeadLine
<1>3. ASSUME NEW sheet \in Seq(BulkLine), NEW n \in DOMAIN sheet
      PROVE  n \in Nat /\ sheet[n] \in BulkLine
  OBVIOUS
<1>4. ASSUME NEW sheet \in Seq(LeadLine), NEW n \in DOMAIN sheet
      PROVE  n \in Nat /\ sheet[n] \in LeadLine
  OBVIOUS
<1> QED
  BY <1>1, <1>2, <1>3, <1>4

\* The stable sort by date has a first row, of the earliest date.
LEMMA NextRowIsFirst ==
  ASSUME NEW sheet \in BulkSheets, NEW left \in SUBSET ParsedRows(sheet), left # {}
  PROVE  /\ NextRow(sheet, left) \in left
         /\ \A m \in left : RowDate(sheet[NextRow(sheet, left)]) <= RowDate(sheet[m])
<1> DEFINE date(n) == RowDate(sheet[n])
<1>1. \A n \in left : n \in Nat /\ sheet[n] \in BulkLine /\ sheet[n].date # Bad
  BY Lines DEF ParsedRows
<1>2. \A n \in left : date(n) \in Nat
  BY <1>1 DEF RowDate, BulkLine, Cell, Late, Blank, Bad
<1> HIDE DEF date
<1> DEFINE days == {d \in Nat : \E n \in left : d = date(n)}
<1>3. PICK d \in days : \A e \in days : d <= e
  <2>1. days \in SUBSET Nat /\ days # {}
    BY <1>2
  <2> HIDE DEF days
  <2> QED
    BY <2>1, LeastNumber
<1> DEFINE early == {n \in left : date(n) = d}
<1>4. PICK n \in early : \A m \in early : n <= m
  <2>1. early \in SUBSET Nat /\ early # {}
    BY <1>1, <1>3
  <2> HIDE DEF early
  <2> QED
    BY <2>1, LeastNumber
<1>5. \A m \in left : date(n) < date(m) \/ (date(n) = date(m) /\ n <= m)
  <2> TAKE m \in left
  <2>1. date(m) \in days /\ date(n) = d /\ date(m) \in Nat /\ d \in Nat
    BY <1>2, <1>4
  <2>2. d <= date(m)
    BY <1>3, <2>1
  <2>3. date(m) = d => n <= m
    BY <1>4
  <2> HIDE DEF days
  <2> QED
    BY <2>1, <2>2, <2>3
<1> USE DEF date
<1>6. n \in left /\ \A m \in left : \/ RowDate(sheet[n]) < RowDate(sheet[m])
                                    \/ RowDate(sheet[n]) = RowDate(sheet[m]) /\ n <= m
  BY <1>4, <1>5
<1> DEFINE next == NextRow(sheet, left)
<1>7. next \in left /\ \A m \in left : \/ RowDate(sheet[next]) < RowDate(sheet[m])
                                       \/ RowDate(sheet[next]) = RowDate(sheet[m]) /\ next <= m
  BY <1>6 DEF NextRow
<1> HIDE DEF next
<1>8. \A m \in left : RowDate(sheet[m]) \in Nat
  BY <1>2
<1> QED
  BY <1>7, <1>8 DEF next

LEMMA FirstLeft ==
  ASSUME NEW left \in SUBSET Nat, left # {}
  PROVE  (CHOOSE n \in left : \A m \in left : n <= m) \in left
BY LeastNumber

-----------------------------------------------------------------------------
(* One write, and what it leaves of the snapshots                          *)

\* What an upload knows lasts while others write.
LEMMA UploadKnowledgeLasts ==
  ASSUME BooksInvariant, NEW q, UploadKnows(q), Moves, account' \in [Circuits -> CustomerRow],
         history' \in [Circuits -> Seq(ChargeWrite)]
  PROVE  UploadKnows(q)'
<1>1. ASSUME Snapshot(q), NEW k \in DOMAIN q.arc
      PROVE  /\ Known(k)' /\ q.basis[k] <= Len(history'[k])
             /\ q.basis[k] = Len(history'[k]) => UpToDate(q, k) /\ account'[k] = account[k]
  <2>1. k \in Circuits /\ q.basis[k] \in Nat /\ q.basis[k] <= Len(history[k]) /\ Known(k)
    BY <1>1 DEF Snapshot
  <2>2. Len(history[k]) \in Nat /\ Len(history'[k]) \in Nat
    BY <2>1 DEF BooksInvariant, WorkbookTypeOK
  <2>3. Known(k)' /\ Len(history[k]) <= Len(history'[k])
        /\ (Len(history[k]) = Len(history'[k]) => account'[k] = account[k])
    BY <2>1 DEF Moves
  <2> QED
    BY <2>1, <2>2, <2>3 DEF UpToDate
<1>2. Snapshot(q) => Snapshot(q)'
  BY <1>1 DEF Snapshot, UpToDate
<1>3. q.pc = "bulk" =>
        /\ Snapshot(q)'
        /\ \A k \in DOMAIN q.arc : UpToDate(q, k)' => q.status[k] = account'[k].status
  BY <1>1, <1>2 DEF UploadKnows, UpToDate
<1>4. q.pc = "backfill" =>
        /\ Snapshot(q)'
        /\ \A k \in DOMAIN q.arc : UpToDate(q, k)' => account'[k].status # "TERMINATED"
  BY <1>1, <1>2 DEF UploadKnows, UpToDate
<1> QED
  BY <1>3, <1>4 DEF UploadKnows

LEMMA BooksStep ==
  ASSUME BooksInvariant, NEW i \in Uploads, NEW q, upload' = [upload EXCEPT ![i] = q],
         UploadKnows(q)', uploads' \in 0..MaxUploads, Moves, account' \in [Circuits -> CustomerRow],
         history' \in [Circuits -> Seq(ChargeWrite)],
         \A k \in Circuits : ChargeIsLast(k)', OnlyOverlapsDrift'
  PROVE  BooksInvariant'
<1>1. DOMAIN upload' = Uploads /\ \A j \in Uploads : upload'[j] = upload[j] \/ upload'[j] = q
  BY DEF BooksInvariant
<1>2. ASSUME NEW j \in Uploads PROVE UploadKnows(upload[j])'
  <2>1. CASE upload'[j] = q
    BY <2>1
  <2>2. CASE upload'[j] = upload[j]
    <3>1. PICK p : p = upload[j] /\ p = upload'[j]
      BY <2>2
    <3>2. UploadKnows(p)
      BY <3>1 DEF BooksInvariant
    <3>3. UploadKnows(p)'
      BY <3>2, UploadKnowledgeLasts
    <3> QED
      BY <3>1, <3>3
  <2> QED
    BY <1>1, <2>1, <2>2
<1>3. WorkbookTypeOK'
  BY <1>2 DEF WorkbookTypeOK, UploadKnows
<1> QED
  BY <1>1, <1>2, <1>3 DEF BooksInvariant

\* A step that writes no customer.
LEMMA QuietBooks ==
  ASSUME BooksInvariant, UNCHANGED <<account, history>>
  PROVE  /\ Moves /\ account' \in [Circuits -> CustomerRow]
         /\ history' \in [Circuits -> Seq(ChargeWrite)]
         /\ \A k \in Circuits : ChargeIsLast(k)'
         /\ OnlyOverlapsDrift'
<1>1. Moves
  BY DEF Moves, BooksInvariant, WorkbookTypeOK, Known
<1>2. \A k \in Circuits : ChargeIsLast(k)'
  BY DEF BooksInvariant, ChargeIsLast, Replaced, Known
<1>3. OnlyOverlapsDrift'
  BY DEF BooksInvariant, OnlyOverlapsDrift, Replaced
<1> QED
  BY <1>1, <1>2, <1>3 DEF BooksInvariant, WorkbookTypeOK

\* One customer is written, with the entry that says so.
LEMMA OneWrite ==
  ASSUME BooksInvariant, NEW k \in Circuits, NEW row \in CustomerRow, NEW e \in ChargeWrite,
         account' = [account EXCEPT ![k] = row], Record(k, e), row.status # "NONE",
         row.arc = e.new, row.start = account[k].start \/ ~Known(k),
         ~Known(k) => e.type = "IMPORT",
         e.type # "IMPORT" /\ e.basis = Len(history[k]) =>
           e.old = account[k].arc /\ e.was # "TERMINATED"
  PROVE  /\ Moves /\ account' \in [Circuits -> CustomerRow]
         /\ history' \in [Circuits -> Seq(ChargeWrite)]
         /\ \A c \in Circuits : ChargeIsLast(c)'
         /\ OnlyOverlapsDrift'
<1> DEFINE old == history[k]
<1>1. /\ account \in [Circuits -> CustomerRow] /\ history \in [Circuits -> Seq(ChargeWrite)]
      /\ history' = [history EXCEPT ![k] = Append(old, e)]
      /\ old \in Seq(ChargeWrite) /\ Len(old) \in Nat
  BY DEF BooksInvariant, WorkbookTypeOK, Record
<1>2. account' \in [Circuits -> CustomerRow] /\ account'[k] = row
      /\ \A c \in Circuits \ {k} : account'[c] = account[c]
  BY <1>1
<1>3. /\ Append(old, e) \in Seq(ChargeWrite) /\ Len(Append(old, e)) = Len(old) + 1
      /\ Append(old, e)[Len(old) + 1] = e
      /\ \A n \in 1..Len(old) : Append(old, e)[n] = old[n]
  BY <1>1
<1>4. history' \in [Circuits -> Seq(ChargeWrite)] /\ history'[k] = Append(old, e)
      /\ \A c \in Circuits \ {k} : history'[c] = history[c]
  BY <1>1, <1>3
<1>5. Moves
  BY <1>1, <1>2, <1>3, <1>4 DEF Moves, Known
<1>6. ChargeIsLast(k) /\ ChargeIsLast(k)'
  <2>1. ChargeIsLast(k)
    BY DEF BooksInvariant
  <2>2. Len(history'[k]) + 1 = Len(old) + 2 /\ Len(old) + 2 # 1 /\ Len(old) + 2 - 1 = Len(old) + 1
    BY <1>1, <1>3, <1>4
  <2>3. account'[k].arc = Replaced(k, Len(history[k]) + 1)'
    BY <1>1, <1>2, <1>3, <1>4, <2>2 DEF Replaced
  <2>4. Known(k)'
    BY <1>2 DEF Known
  <2> QED
    BY <2>1, <2>3, <2>4 DEF ChargeIsLast
<1>7. ASSUME NEW c \in Circuits \ {k} PROVE ChargeIsLast(c)'
  <2>1. ChargeIsLast(c)
    BY DEF BooksInvariant
  <2> QED
    BY <1>2, <1>4, <1>7, <2>1 DEF ChargeIsLast, Replaced, Known
<1>8. ASSUME NEW c \in Circuits, NEW n \in DOMAIN history'[c],
             history'[c][n].type # "IMPORT", history'[c][n].basis = n - 1
      PROVE  history'[c][n].old = Replaced(c, n)' /\ history'[c][n].was # "TERMINATED"
  <2>1. CASE c # k
    <3>1. /\ history'[c] = history[c] /\ account'[c] = account[c]
      BY <1>2, <1>4, <2>1
    <3> QED
      BY <1>8, <3>1 DEF BooksInvariant, OnlyOverlapsDrift, Replaced
  <2>2. CASE c = k /\ n \in 1..Len(old)
    <3>1. history'[k][n] = old[n] /\ (n # 1 => n - 1 \in 1..Len(old) /\ history'[k][n - 1] = old[n - 1])
      BY <1>1, <1>3, <1>4, <2>2
    <3>2. old[n].old = Replaced(k, n) /\ old[n].was # "TERMINATED"
      <4>1. n \in DOMAIN history[k]
        BY <1>1, <2>2
      <4> QED
        BY <1>8, <2>2, <3>1, <4>1 DEF BooksInvariant, OnlyOverlapsDrift
    <3>3. Replaced(k, n)' = Replaced(k, n)
      <4>1. CASE n = 1
        <5>1. old # <<>>
          BY <1>1, <2>2
        <5>2. account'[k].start = account[k].start
          BY <1>2, <1>6, <5>1 DEF ChargeIsLast
        <5> QED
          BY <4>1, <5>2 DEF Replaced
      <4>2. CASE n # 1
        BY <3>1, <4>2 DEF Replaced
      <4> QED
        BY <4>1, <4>2
    <3> QED
      BY <2>2, <3>1, <3>2, <3>3
  <2>3. CASE c = k /\ n = Len(old) + 1
    <3>1. history'[k][n] = e /\ e.basis = Len(old) /\ e.type # "IMPORT"
      BY <1>1, <1>3, <1>4, <1>8, <2>3
    <3>2. e.old = account[k].arc /\ e.was # "TERMINATED" /\ Known(k)
      BY <3>1
    <3>3. e.old = Replaced(k, n)
      BY <1>6, <2>3, <3>2 DEF ChargeIsLast
    <3>4. Replaced(k, n)' = Replaced(k, n)
      <4>1. CASE n = 1
        <5>1. account'[k].start = account[k].start
          BY <1>2, <3>2
        <5> QED
          BY <4>1, <5>1 DEF Replaced
      <4>2. CASE n # 1
        <5>1. n - 1 \in 1..Len(old) /\ history'[k][n - 1] = history[k][n - 1]
          BY <1>1, <1>3, <1>4, <2>3, <4>2
        <5> QED
          BY <4>2, <5>1 DEF Replaced
      <4> QED
        BY <4>1, <4>2
    <3> QED
      BY <2>3, <3>1, <3>2, <3>3, <3>4
  <2>4. n \in 1..(Len(old) + 1) \/ c # k
    BY <1>1, <1>3, <1>4
  <2>5. n \in 1..Len(old) \/ n = Len(old) + 1 \/ c # k
    BY <1>1, <2>4
  <2> QED
    BY <2>1, <2>2, <2>3, <2>5
<1>9. OnlyOverlapsDrift'
  BY <1>8 DEF OnlyOverlapsDrift
<1> QED
  BY <1>2, <1>4, <1>5, <1>6, <1>7, <1>9

-----------------------------------------------------------------------------
(* One lemma per action                                                    *)

LEMMA NoUploadKnows == UploadKnows(NoUpload) /\ UploadKnows(NoUpload)'
BY DEF UploadKnows, IsUpload, NoUpload

LEMMA WorkbookInitHolds == WorkbookInit => BooksInvariant
<1> SUFFICES ASSUME WorkbookInit PROVE BooksInvariant
  OBVIOUS
<1>1. account \in [Circuits -> CustomerRow]
  <2>1. NoAccount \in CustomerRow /\ [NoAccount EXCEPT !.status = "ACTIVE", !.arc = OpeningArc,
                                                       !.start = OpeningArc] \in CustomerRow
    BY WorkbookAssumption DEF NoAccount, CustomerRow, Statuses
  <2> QED
    BY <2>1 DEF WorkbookInit
<1>2. history \in [Circuits -> Seq(ChargeWrite)] /\ \A k \in Circuits : history[k] = <<>>
  BY DEF WorkbookInit
<1>3. ASSUME NEW k \in Circuits PROVE ChargeIsLast(k)
  <2>1. account[k].arc = account[k].start
    <3>1. NoAccount.arc = NoAccount.start
      BY DEF NoAccount
    <3>2. PICK open : open = [NoAccount EXCEPT !.status = "ACTIVE", !.arc = OpeningArc,
                                               !.start = OpeningArc]
      OBVIOUS
    <3>3. open.arc = open.start
      BY <3>2 DEF NoAccount
    <3>4. account[k] \in {NoAccount, open}
      BY <3>2 DEF WorkbookInit
    <3> QED
      BY <3>1, <3>3, <3>4
  <2>2. Len(history[k]) + 1 = 1
    BY <1>2
  <2> QED
    BY <1>2, <2>1, <2>2 DEF ChargeIsLast, Replaced
<1>4. OnlyOverlapsDrift
  <2>1. \A k \in Circuits : DOMAIN history[k] = {}
    BY <1>2
  <2> QED
    BY <2>1 DEF OnlyOverlapsDrift
<1>5. DOMAIN upload = Uploads /\ \A i \in Uploads : upload[i] = NoUpload
  BY DEF WorkbookInit
<1>6. WorkbookTypeOK
  BY <1>1, <1>2, <1>5, WorkbookAssumption DEF WorkbookTypeOK, WorkbookInit, NoUpload
<1> QED
  BY <1>3, <1>4, <1>5, <1>6, NoUploadKnows DEF BooksInvariant

\* A new upload gets the next number.
LEMMA NextUpload ==
  ASSUME BooksInvariant, uploads < MaxUploads, uploads' = uploads + 1
  PROVE  uploads' \in 0..MaxUploads /\ uploads' \in 1..MaxUploads
BY WorkbookAssumption DEF BooksInvariant, WorkbookTypeOK

LEMMA BulkStartKeeps ==
  ASSUME BooksInvariant, NEW i \in Uploads, NEW sheet \in BulkSheets, BulkStart(i, sheet)
  PROVE  BooksInvariant'
<1> DEFINE rows == ParsedRows(sheet)
<1> DEFINE found == {k \in Circuits : Known(k) /\ \E n \in rows : sheet[n].circuit = k}
<1>1. PICK q : q = [NoUpload EXCEPT !.id = uploads', !.pc = "bulk", !.sheet = sheet, !.left = rows,
                      !.arc = [k \in found |-> account[k].arc],
                      !.status = [k \in found |-> account[k].status],
                      !.basis = [k \in found |-> Len(history[k])]]
  OBVIOUS
<1>2. upload' = [upload EXCEPT ![i] = q] /\ uploads < MaxUploads /\ uploads' = uploads + 1
      /\ UNCHANGED <<account, history>>
  BY <1>1 DEF BulkStart
<1>3. uploads' \in 0..MaxUploads /\ uploads' \in 1..MaxUploads
  BY <1>2, NextUpload
<1> HIDE DEF rows
<1>4. IsUpload(q) /\ q.pc = "bulk" /\ q.id = uploads' /\ q.sheet = sheet /\ q.left = rows
      /\ q.arc = [k \in found |-> account[k].arc] /\ q.status = [k \in found |-> account[k].status]
      /\ q.basis = [k \in found |-> Len(history[k])]
  BY <1>1 DEF NoUpload, IsUpload
<1>5. \A k \in found : /\ k \in Circuits /\ Known(k) /\ account[k].arc \in Nat
                       /\ account[k].status \in Statuses /\ Len(history[k]) \in Nat
  BY DEF BooksInvariant, WorkbookTypeOK, CustomerRow, Known
<1> HIDE DEF found
<1>6. DOMAIN q.arc = found
  BY <1>4
<1>7. Snapshot(q)
  BY <1>4, <1>5, <1>6 DEF Snapshot, UpToDate
<1>8. q.status \in [DOMAIN q.arc -> Statuses]
      /\ \A k \in DOMAIN q.arc : q.status[k] = account[k].status
  BY <1>4, <1>5, <1>6
<1>9. UploadKnows(q)
  BY <1>3, <1>4, <1>7, <1>8 DEF UploadKnows, rows
<1>10. /\ Moves /\ account' \in [Circuits -> CustomerRow]
       /\ history' \in [Circuits -> Seq(ChargeWrite)]
       /\ (\A k \in Circuits : ChargeIsLast(k)') /\ OnlyOverlapsDrift'
  BY <1>2, QuietBooks
<1>11. UploadKnows(q)'
  BY <1>9, <1>10, UploadKnowledgeLasts
<1> QED
  BY <1>2, <1>3, <1>10, <1>11, BooksStep

\* A row written over what the snapshot says keeps the snapshot as good as it was.
LEMMA BulkRowKeeps ==
  ASSUME BooksInvariant, NEW i \in Uploads, BulkRow(i)
  PROVE  BooksInvariant'
<1>1. PICK q : q = upload[i]
  OBVIOUS
<1>2. UploadKnows(q) /\ q.pc = "bulk" /\ q.left # {} /\ uploads' = uploads
      /\ uploads \in 0..MaxUploads
  BY <1>1 DEF BooksInvariant, WorkbookTypeOK, BulkRow, Uploading
<1>3. /\ q.sheet \in BulkSheets /\ q.left \subseteq ParsedRows(q.sheet) /\ Snapshot(q) /\ IsUpload(q)
      /\ q.status \in [DOMAIN q.arc -> Statuses] /\ q.id \in 1..MaxUploads
      /\ \A k \in DOMAIN q.arc : UpToDate(q, k) => q.status[k] = account[k].status
  BY <1>2 DEF UploadKnows
<1> DEFINE n == NextRow(q.sheet, q.left)
<1> DEFINE row == q.sheet[n]
<1> DEFINE k == row.circuit
<1> DEFINE gone == row.type = "DISCONNECTION"
<1> DEFINE arc == IF gone THEN 0 ELSE row.arc
<1> DEFINE status == IF gone THEN "TERMINATED" ELSE q.status[k]
<1> DEFINE after == [account[k] EXCEPT !.arc = arc,
                                       !.status = IF gone THEN "TERMINATED" ELSE account[k].status]
<1> DEFINE e == Entry(q.id, row.type, row.date, q.arc[k], arc, account[k].status, q.basis[k])
<1>4. n \in q.left /\ n \in DOMAIN q.sheet
  BY <1>2, <1>3, NextRowIsFirst DEF ParsedRows
<1>5. row \in BulkLine /\ row.arc # Bad /\ row.date # Bad
  BY <1>3, <1>4, Lines DEF ParsedRows
<1>6. CASE RowIsValid(row, q.arc, q.status)
           /\ account' = [account EXCEPT ![k] = after]
           /\ Record(k, e)
           /\ upload' = [upload EXCEPT ![i] = Chained(q, n, k, arc, status)]
  <2> HIDE DEF n
  <2>1. k \in DOMAIN q.arc /\ row.type \in ChangeTypes /\ row.date # Blank
        /\ q.status[k] # "TERMINATED" /\ (gone \/ row.arc # Blank)
    BY <1>6 DEF RowIsValid, ChangeTypes
  <2> HIDE DEF row
  <2>2. arc \in Nat /\ row.date \in Nat
    BY <1>5, <2>1 DEF BulkLine, Cell, Blank, Bad
  <2>3. /\ k \in Circuits /\ Known(k) /\ q.arc[k] \in Nat /\ q.basis[k] \in Nat
        /\ q.basis[k] <= Len(history[k]) /\ q.status[k] \in Statuses
        /\ q.basis[k] = Len(history[k]) =>
             q.arc[k] = account[k].arc /\ account[k].status = q.status[k]
    BY <1>3, <2>1 DEF Snapshot, UpToDate
  <2>4. account[k] \in CustomerRow /\ account[k].status # "NONE"
        /\ account \in [Circuits -> CustomerRow] /\ history \in [Circuits -> Seq(ChargeWrite)]
    BY <2>3 DEF BooksInvariant, WorkbookTypeOK, Known
  <2>5. after \in CustomerRow /\ after.status # "NONE" /\ after.arc = arc
        /\ after.start = account[k].start
        /\ after.status = (IF gone THEN "TERMINATED" ELSE account[k].status)
    BY <2>2, <2>4 DEF CustomerRow, Statuses
  <2>6. e \in ChargeWrite /\ e.new = arc /\ e.type = row.type /\ e.basis = q.basis[k]
        /\ e.old = q.arc[k] /\ e.was = account[k].status /\ row.type # "IMPORT"
    BY <1>3, <2>1, <2>2, <2>3, <2>4 DEF ChargeWrite, Entry, ChangeTypes, CustomerRow
  <2> HIDE DEF e, after, gone
  <2>7. /\ Moves /\ account' \in [Circuits -> CustomerRow]
        /\ history' \in [Circuits -> Seq(ChargeWrite)]
        /\ (\A c \in Circuits : ChargeIsLast(c)') /\ OnlyOverlapsDrift'
    BY <1>6, <2>1, <2>3, <2>5, <2>6, OneWrite
  <2> DEFINE chained == Chained(q, n, k, arc, status)
  <2>8. PICK p : p = chained
    OBVIOUS
  <2>9. /\ IsUpload(p) /\ p.pc = "bulk" /\ p.id = q.id /\ p.sheet = q.sheet /\ p.left = q.left \ {n}
        /\ p.arc = [q.arc EXCEPT ![k] = arc] /\ p.status = [q.status EXCEPT ![k] = status]
        /\ p.basis = [q.basis EXCEPT ![k] = q.basis[k] + 1]
    BY <1>2, <1>3, <2>8 DEF Chained, IsUpload
  <2>10. status \in Statuses
    BY <2>3 DEF Statuses
  <2>11. /\ DOMAIN p.arc = DOMAIN q.arc /\ DOMAIN q.arc \subseteq Circuits
         /\ p.arc \in [DOMAIN q.arc -> Nat] /\ p.basis \in [DOMAIN q.arc -> Nat]
         /\ p.status \in [DOMAIN q.arc -> Statuses]
    BY <1>3, <2>1, <2>2, <2>3, <2>9, <2>10 DEF Snapshot
  <2>12. /\ account'[k] = after /\ Len(history'[k]) = Len(history[k]) + 1
         /\ Len(history[k]) \in Nat
         /\ \A c \in Circuits \ {k} : account'[c] = account[c] /\ history'[c] = history[c]
    BY <1>6, <2>3, <2>4, <2>6 DEF Record
  <2>13. ASSUME NEW c \in DOMAIN q.arc
         PROVE  /\ Known(c)' /\ p.basis[c] <= Len(history'[c])
                /\ p.basis[c] = Len(history'[c]) =>
                     p.arc[c] = account'[c].arc /\ p.status[c] = account'[c].status
    <3>1. c \in Circuits /\ Known(c) /\ q.basis[c] <= Len(history[c])
          /\ (q.basis[c] = Len(history[c]) =>
                q.arc[c] = account[c].arc /\ q.status[c] = account[c].status)
      BY <1>3, <2>13 DEF Snapshot, UpToDate
    <3>2. CASE c # k
      <4>1. p.basis[c] = q.basis[c] /\ p.arc[c] = q.arc[c] /\ p.status[c] = q.status[c]
        BY <1>3, <2>9, <2>13, <3>2 DEF Snapshot
      <4> QED
        BY <2>12, <3>1, <3>2, <4>1 DEF Known
    <3>3. CASE c = k
      <4>1. p.basis[c] = q.basis[k] + 1 /\ p.arc[c] = arc /\ p.status[c] = status
        BY <1>3, <2>1, <2>9, <3>3 DEF Snapshot
      <4>2. Known(c)'
        BY <2>5, <2>12, <3>3 DEF Known
      <4>3. p.basis[c] <= Len(history'[c])
        BY <2>3, <2>12, <3>3, <4>1
      <4>4. p.basis[c] = Len(history'[c]) => q.basis[k] = Len(history[k])
        BY <2>3, <2>12, <3>3, <4>1
      <4> QED
        BY <2>3, <2>5, <2>12, <3>3, <4>1, <4>2, <4>3, <4>4
    <3> QED
      BY <3>2, <3>3
  <2>14. Snapshot(p)'
    BY <2>11, <2>13 DEF Snapshot, UpToDate
  <2>15. UploadKnows(p)'
    BY <1>3, <2>9, <2>11, <2>13, <2>14 DEF UploadKnows, UpToDate
  <2> QED
    BY <1>2, <1>6, <2>7, <2>8, <2>15, BooksStep
<1>7. CASE upload' = [upload EXCEPT ![i] = [q EXCEPT !.left = @ \ {n}]]
           /\ UNCHANGED <<account, history>>
  <2> HIDE DEF n
  <2>1. PICK p : p = [q EXCEPT !.left = @ \ {n}]
    OBVIOUS
  <2>2. /\ IsUpload(p) /\ p.pc = q.pc /\ p.id = q.id /\ p.sheet = q.sheet /\ p.left = q.left \ {n}
        /\ p.arc = q.arc /\ p.status = q.status /\ p.basis = q.basis
    BY <1>3, <2>1 DEF IsUpload
  <2>3. UploadKnows(p)
    BY <1>2, <1>3, <2>2 DEF UploadKnows, Snapshot, UpToDate
  <2>4. /\ Moves /\ account' \in [Circuits -> CustomerRow]
        /\ history' \in [Circuits -> Seq(ChargeWrite)]
        /\ (\A c \in Circuits : ChargeIsLast(c)') /\ OnlyOverlapsDrift'
    BY <1>7, QuietBooks
  <2>5. UploadKnows(p)'
    BY <2>3, <2>4, UploadKnowledgeLasts
  <2> QED
    BY <1>2, <1>7, <2>1, <2>4, <2>5, BooksStep
<1> QED
  BY <1>1, <1>6, <1>7 DEF BulkRow

LEMMA BackfillStartKeeps ==
  ASSUME BooksInvariant, NEW i \in Uploads, NEW k \in Circuits, BackfillStart(i, k)
  PROVE  BooksInvariant'
<1>1. PICK q : q = [NoUpload EXCEPT !.id = uploads', !.pc = "backfill",
                      !.arc = [c \in {k} |-> account[k].arc],
                      !.basis = [c \in {k} |-> Len(history[k])]]
  OBVIOUS
<1>2. upload' = [upload EXCEPT ![i] = q] /\ uploads < MaxUploads /\ uploads' = uploads + 1
      /\ UNCHANGED <<account, history>> /\ Known(k) /\ account[k].status # "TERMINATED"
  BY <1>1 DEF BackfillStart
<1>3. uploads' \in 0..MaxUploads /\ uploads' \in 1..MaxUploads
  BY <1>2, NextUpload
<1>4. IsUpload(q) /\ q.pc = "backfill" /\ q.id = uploads'
      /\ q.arc = [c \in {k} |-> account[k].arc] /\ q.basis = [c \in {k} |-> Len(history[k])]
  BY <1>1 DEF NoUpload, IsUpload
<1>5. account[k].arc \in Nat /\ Len(history[k]) \in Nat
  BY DEF BooksInvariant, WorkbookTypeOK, CustomerRow
<1>6. DOMAIN q.arc = {k} /\ q.arc[k] = account[k].arc /\ q.basis[k] = Len(history[k])
  BY <1>4
<1>7. Snapshot(q)
  BY <1>2, <1>4, <1>5, <1>6 DEF Snapshot, UpToDate
<1>8. UploadKnows(q)
  BY <1>2, <1>3, <1>4, <1>6, <1>7 DEF UploadKnows
<1>9. /\ Moves /\ account' \in [Circuits -> CustomerRow]
      /\ history' \in [Circuits -> Seq(ChargeWrite)]
      /\ (\A c \in Circuits : ChargeIsLast(c)') /\ OnlyOverlapsDrift'
  BY <1>2, QuietBooks
<1>10. UploadKnows(q)'
  BY <1>8, <1>9, UploadKnowledgeLasts
<1> QED
  BY <1>2, <1>3, <1>9, <1>10, BooksStep

LEMMA BackfillTxKeeps ==
  ASSUME BooksInvariant, NEW i \in Uploads, BackfillTx(i)
  PROVE  BooksInvariant'
<1>1. PICK q : q = upload[i]
  OBVIOUS
<1>2. PICK k \in Circuits :
        /\ k \in DOMAIN q.arc
        /\ account' = [account EXCEPT ![k] = [@ EXCEPT !.arc = 0, !.status = "TERMINATED"]]
        /\ Record(k, Entry(q.id, "DISCONNECTION", 0, q.arc[k], 0, account[k].status, q.basis[k]))
        /\ upload' = [upload EXCEPT ![i] = NoUpload]
  BY <1>1 DEF BackfillTx
<1>3. q.pc = "backfill" /\ UploadKnows(q) /\ uploads' = uploads /\ uploads \in 0..MaxUploads
  BY <1>1 DEF BackfillTx, Uploading, BooksInvariant, WorkbookTypeOK
<1>4. /\ q.id \in 1..MaxUploads /\ q.arc[k] \in Nat /\ q.basis[k] \in Nat /\ Known(k)
      /\ q.basis[k] = Len(history[k]) =>
           q.arc[k] = account[k].arc /\ account[k].status # "TERMINATED"
  BY <1>2, <1>3 DEF UploadKnows, Snapshot, UpToDate
<1>5. account[k] \in CustomerRow
  BY DEF BooksInvariant, WorkbookTypeOK
<1> DEFINE row == [account[k] EXCEPT !.arc = 0, !.status = "TERMINATED"]
<1> DEFINE e == Entry(q.id, "DISCONNECTION", 0, q.arc[k], 0, account[k].status, q.basis[k])
<1>6. row \in CustomerRow /\ row.status # "NONE" /\ row.arc = 0 /\ row.start = account[k].start
  BY <1>5 DEF CustomerRow, Statuses
<1>7. e \in ChargeWrite /\ e.new = 0 /\ e.type = "DISCONNECTION" /\ e.basis = q.basis[k]
      /\ e.old = q.arc[k] /\ e.was = account[k].status
  BY <1>4, <1>5 DEF ChargeWrite, Entry, ChangeTypes, CustomerRow
<1>8. account' = [account EXCEPT ![k] = row] /\ Record(k, e)
  BY <1>2
<1> HIDE DEF row, e
<1>9. /\ Moves /\ account' \in [Circuits -> CustomerRow]
      /\ history' \in [Circuits -> Seq(ChargeWrite)]
      /\ (\A c \in Circuits : ChargeIsLast(c)') /\ OnlyOverlapsDrift'
  BY <1>4, <1>6, <1>7, <1>8, OneWrite
<1> QED
  BY <1>2, <1>3, <1>9, NoUploadKnows, BooksStep

-----------------------------------------------------------------------------
(* The import of customers                                                 *)

\* A cell that matches exactly one user names that user.
LEMMA ResolvedIsNamed ==
  ASSUME NEW names \in SamNames, NEW cell, ResolveSam(names, cell) # NoSam
  PROVE  /\ cell \in DOMAIN names
         /\ names[cell] = {ResolveSam(names, cell)}
         /\ ResolveSam(names, cell) \in Sams
<1>1. cell \in DOMAIN names /\ Cardinality(names[cell]) = 1
      /\ ResolveSam(names, cell) = CHOOSE u \in names[cell] : TRUE
  BY DEF ResolveSam
<1>2. names[cell] \subseteq Sams
  BY <1>1, WorkbookAssumption
<1>3. IsFiniteSet(names[cell])
  BY <1>2, WorkbookAssumption, FS_Subset
<1>4. PICK u : names[cell] = {u}
  BY <1>1, <1>3, FS_Singleton
<1> QED
  BY <1>1, <1>2, <1>4

LEMMA LeadDataTyped ==
  ASSUME NEW row \in LeadLine, LeadRowIsValid(row), NEW names \in SamNames
  PROVE  /\ LeadData(row, names).status \in Statuses
         /\ LeadData(row, names).arc \in Nat
         /\ LeadData(row, names).owner \in Sams \cup {NoSam}
         /\ LeadData(row, names).status # "TERMINATED" => row.status # "closed"
         /\ LeadData(row, names).owner = ResolveSam(names, row.sam)
<1>1. row.status \in {"completed", "new", "paused", "closed", "BLANK"}
  BY DEF LeadLine, LeadRowIsValid, StatusAliases
<1>2. (IF row.status = "BLANK" THEN "ACTIVE" ELSE StatusAliases[row.status]) \in Statuses
  BY <1>1 DEF StatusAliases, Statuses
<1>3. (IF row.arc \in {Blank, Bad} THEN 0 ELSE row.arc) \in Nat
  BY DEF LeadLine, Cell
<1>4. ResolveSam(names, row.sam) \in Sams \cup {NoSam}
  BY ResolvedIsNamed
<1>5. row.status = "closed" =>
        (IF row.status = "BLANK" THEN "ACTIVE" ELSE StatusAliases[row.status]) = "TERMINATED"
  BY DEF StatusAliases
<1> QED
  BY <1>2, <1>3, <1>4, <1>5 DEF LeadData

LEMMA LeadNowIsARow ==
  ASSUME NEW q, UploadKnows(q), q.pc \in {"find", "write", "create"}, q.left # {}
  PROVE  LeadNow(q) \in LeadLine /\ q.names \in SamNames
<1>1. q.sheet \in LeadSheets /\ q.left \subseteq DOMAIN q.sheet /\ q.names \in SamNames
  BY DEF UploadKnows
<1>2. q.left \subseteq Nat
  BY <1>1, Lines
<1>3. (CHOOSE n \in q.left : \A m \in q.left : n <= m) \in q.left
  BY <1>2, FirstLeft
<1> QED
  BY <1>1, <1>3, Lines DEF LeadNow

\* Nothing a handler knows is carried from row to row.
LEMMA LeadAfterKnows ==
  ASSUME NEW q, UploadKnows(q), q.pc \in {"find", "write", "create"},
         NEW p, p = LeadAfter(q)
  PROVE  UploadKnows(p) /\ UploadKnows(p)' /\ p.pc = "find"
<1>1. IsUpload(q) /\ q.sheet \in LeadSheets /\ q.left \subseteq DOMAIN q.sheet
      /\ q.names \in SamNames /\ q.id \in 1..MaxUploads
  BY DEF UploadKnows
<1>2. IsUpload(p) /\ p.pc = "find" /\ p.sheet = q.sheet /\ p.left \subseteq q.left
      /\ p.names = q.names /\ p.id = q.id
  BY <1>1 DEF LeadAfter, IsUpload
<1> QED
  BY <1>1, <1>2 DEF UploadKnows, IsUpload

LEMMA LeadStartKeeps ==
  ASSUME BooksInvariant, NEW i \in Uploads, NEW sheet \in LeadSheets, NEW names \in SamNames,
         LeadStart(i, sheet, names)
  PROVE  BooksInvariant'
<1>1. PICK q : q = [NoUpload EXCEPT !.id = uploads', !.pc = "find", !.sheet = sheet,
                      !.left = DOMAIN sheet, !.names = names]
  OBVIOUS
<1>2. upload' = [upload EXCEPT ![i] = q] /\ uploads < MaxUploads /\ uploads' = uploads + 1
      /\ UNCHANGED <<account, history>>
  BY <1>1 DEF LeadStart
<1>3. uploads' \in 0..MaxUploads /\ uploads' \in 1..MaxUploads
  BY <1>2, NextUpload
<1>4. IsUpload(q) /\ q.pc = "find" /\ q.id = uploads' /\ q.sheet = sheet /\ q.left = DOMAIN sheet
      /\ q.names = names
  BY <1>1 DEF NoUpload, IsUpload
<1>5. UploadKnows(q)
  BY <1>3, <1>4 DEF UploadKnows
<1>6. /\ Moves /\ account' \in [Circuits -> CustomerRow]
      /\ history' \in [Circuits -> Seq(ChargeWrite)]
      /\ (\A c \in Circuits : ChargeIsLast(c)') /\ OnlyOverlapsDrift'
  BY <1>2, QuietBooks
<1>7. UploadKnows(q)'
  BY <1>5, <1>6, UploadKnowledgeLasts
<1> QED
  BY <1>2, <1>3, <1>6, <1>7, BooksStep

LEMMA LeadFindKeeps ==
  ASSUME BooksInvariant, NEW i \in Uploads, LeadFind(i)
  PROVE  BooksInvariant'
<1>1. PICK q : q = upload[i]
  OBVIOUS
<1>2. UploadKnows(q) /\ q.pc = "find" /\ q.left # {} /\ UNCHANGED <<account, history>>
      /\ uploads' = uploads /\ uploads \in 0..MaxUploads
  BY <1>1 DEF LeadFind, Uploading, BooksInvariant, WorkbookTypeOK
<1>3. PICK p : p = IF ~LeadRowIsValid(LeadNow(q)) \/ LeadNow(q).lead = NoCircuit THEN LeadAfter(q)
                   ELSE [q EXCEPT !.pc = IF Known(LeadNow(q).lead) THEN "write" ELSE "create"]
  OBVIOUS
<1>4. upload' = [upload EXCEPT ![i] = p]
  BY <1>1, <1>3 DEF LeadFind
<1>5. UploadKnows(p)
  <2>1. CASE ~LeadRowIsValid(LeadNow(q)) \/ LeadNow(q).lead = NoCircuit
    BY <1>2, <1>3, <2>1, LeadAfterKnows
  <2>2. CASE LeadRowIsValid(LeadNow(q)) /\ LeadNow(q).lead # NoCircuit
    <3>1. PICK pc \in {"write", "create"} : p = [q EXCEPT !.pc = pc]
      BY <1>3, <2>2
    <3>2. IsUpload(p) /\ p.pc = pc /\ p.id = q.id /\ p.sheet = q.sheet /\ p.left = q.left
          /\ p.names = q.names
      BY <1>2, <3>1 DEF UploadKnows, IsUpload
    <3>3. LeadNow(p) = LeadNow(q)
      BY <3>2 DEF LeadNow
    <3> QED
      BY <1>2, <2>2, <3>2, <3>3 DEF UploadKnows
  <2> QED
    BY <2>1, <2>2
<1>6. /\ Moves /\ account' \in [Circuits -> CustomerRow]
      /\ history' \in [Circuits -> Seq(ChargeWrite)]
      /\ (\A c \in Circuits : ChargeIsLast(c)') /\ OnlyOverlapsDrift'
  BY <1>2, QuietBooks
<1>7. UploadKnows(p)'
  BY <1>5, <1>6, UploadKnowledgeLasts
<1> QED
  BY <1>2, <1>4, <1>6, <1>7, BooksStep

\* A row of a customer workbook, written over a customer or as a new one.
LEMMA LeadRowKeeps ==
  ASSUME BooksInvariant, NEW i \in Uploads, NEW q, q = upload[i], q.pc \in {"write", "create"},
         NEW k, k = LeadNow(q).lead, NEW data, data = LeadData(LeadNow(q), q.names),
         NEW start \in Nat, start = account[k].start \/ ~Known(k),
         account' = [account EXCEPT ![k] = [status |-> data.status, arc |-> data.arc,
                                            owner |-> data.owner, start |-> start]],
         NEW old \in Nat, NEW was \in {"NONE"} \cup Statuses,
         Record(k, Entry(q.id, "IMPORT", 0, old, data.arc, was, Len(history[k]))),
         upload' = [upload EXCEPT ![i] = LeadAfter(q)], uploads' = uploads
  PROVE  BooksInvariant'
<1>1. UploadKnows(q) /\ uploads \in 0..MaxUploads
  BY DEF BooksInvariant, WorkbookTypeOK
<1>2. q.left # {} /\ LeadRowIsValid(LeadNow(q)) /\ LeadNow(q).lead # NoCircuit
      /\ q.id \in 1..MaxUploads
  BY <1>1 DEF UploadKnows
<1>3. LeadNow(q) \in LeadLine /\ q.names \in SamNames
  BY <1>1, <1>2, LeadNowIsARow
<1>4. data.status \in Statuses /\ data.arc \in Nat /\ data.owner \in Sams \cup {NoSam}
  BY <1>2, <1>3, LeadDataTyped
<1>5. k \in Circuits
  BY <1>2, <1>3 DEF LeadLine
<1>6. Len(history[k]) \in Nat
  BY <1>5 DEF BooksInvariant, WorkbookTypeOK
<1> DEFINE row == [status |-> data.status, arc |-> data.arc, owner |-> data.owner, start |-> start]
<1> DEFINE e == Entry(q.id, "IMPORT", 0, old, data.arc, was, Len(history[k]))
<1>7. row \in CustomerRow /\ row.status # "NONE" /\ row.arc = data.arc /\ row.start = start
  BY <1>4 DEF CustomerRow, Statuses
<1>8. e \in ChargeWrite /\ e.type = "IMPORT" /\ e.new = data.arc
  BY <1>2, <1>4, <1>6 DEF ChargeWrite, Entry
<1>9. account' = [account EXCEPT ![k] = row] /\ Record(k, e)
  OBVIOUS
<1> HIDE DEF row, e
<1>10. /\ Moves /\ account' \in [Circuits -> CustomerRow]
       /\ history' \in [Circuits -> Seq(ChargeWrite)]
       /\ (\A c \in Circuits : ChargeIsLast(c)') /\ OnlyOverlapsDrift'
  BY ZenonT(30), <1>5, <1>7, <1>8, <1>9, OneWrite
<1>11. PICK p : p = LeadAfter(q)
  OBVIOUS
<1>12. UploadKnows(p)'
  BY <1>1, <1>11, LeadAfterKnows
<1> QED
  BY <1>1, <1>10, <1>11, <1>12, BooksStep

LEMMA LeadWriteKeeps ==
  ASSUME BooksInvariant, NEW i \in Uploads, LeadWrite(i)
  PROVE  BooksInvariant'
<1>1. PICK q, k, data : q = upload[i] /\ k = LeadNow(q).lead /\ data = LeadData(LeadNow(q), q.names)
  OBVIOUS
<1>2. q.pc = "write" /\ UploadKnows(q)
  BY <1>1 DEF LeadWrite, Uploading, BooksInvariant
<1>3. k \in Circuits
  BY <1>1, <1>2, LeadNowIsARow DEF UploadKnows, LeadLine
<1>4. account[k] \in CustomerRow
  BY <1>3 DEF BooksInvariant, WorkbookTypeOK
<1>5. account[k].start \in Nat /\ account[k].arc \in Nat /\ account[k].status \in {"NONE"} \cup Statuses
  BY <1>4 DEF CustomerRow
<1>6. /\ account' = [account EXCEPT ![k] = [status |-> data.status, arc |-> data.arc,
                                            owner |-> data.owner, start |-> account[k].start]]
      /\ Record(k, Entry(q.id, "IMPORT", 0, account[k].arc, data.arc, account[k].status,
                         Len(history[k])))
      /\ upload' = [upload EXCEPT ![i] = LeadAfter(q)] /\ uploads' = uploads
  BY <1>1 DEF LeadWrite
<1> QED
  BY <1>1, <1>2, <1>5, <1>6, LeadRowKeeps

LEMMA LeadCreateKeeps ==
  ASSUME BooksInvariant, NEW i \in Uploads, LeadCreate(i)
  PROVE  BooksInvariant'
<1>1. PICK q, k, data : q = upload[i] /\ k = LeadNow(q).lead /\ data = LeadData(LeadNow(q), q.names)
  OBVIOUS
<1>2. q.pc = "create" /\ UploadKnows(q) /\ q.left # {} /\ LeadRowIsValid(LeadNow(q))
      /\ upload' = [upload EXCEPT ![i] = LeadAfter(q)] /\ uploads' = uploads
      /\ uploads \in 0..MaxUploads
  BY <1>1 DEF LeadCreate, Uploading, BooksInvariant, WorkbookTypeOK, UploadKnows
<1>3. data.arc \in Nat
  BY <1>1, <1>2, LeadNowIsARow, LeadDataTyped
<1>4. CASE ~Known(k)
           /\ account' = [account EXCEPT ![k] = [status |-> data.status, arc |-> data.arc,
                                                 owner |-> data.owner, start |-> data.arc]]
           /\ Record(k, Entry(q.id, "IMPORT", 0, 0, data.arc, "NONE", Len(history[k])))
  BY <1>1, <1>2, <1>3, <1>4, LeadRowKeeps
<1>5. CASE UNCHANGED <<account, history>>
  <2>1. PICK p : p = LeadAfter(q)
    OBVIOUS
  <2>2. UploadKnows(p)'
    BY <1>2, <2>1, LeadAfterKnows
  <2> QED
    BY <1>2, <1>5, <2>1, <2>2, QuietBooks, BooksStep
<1> QED
  BY <1>1, <1>4, <1>5 DEF LeadCreate

LEMMA UploadEndsKeeps ==
  ASSUME BooksInvariant, NEW i \in Uploads, UploadEnds(i)
  PROVE  BooksInvariant'
<1>1. UNCHANGED <<account, history, uploads>> /\ upload' = [upload EXCEPT ![i] = NoUpload]
      /\ uploads' \in 0..MaxUploads
  BY DEF UploadEnds, BooksInvariant, WorkbookTypeOK
<1> QED
  BY <1>1, NoUploadKnows, QuietBooks, BooksStep

-----------------------------------------------------------------------------
LEMMA BooksKept ==
  ASSUME BooksInvariant, [WorkbookNext]_workbookVars
  PROVE  BooksInvariant'
<1>1. CASE UNCHANGED workbookVars
  <2>1. UNCHANGED <<account, history, upload, uploads>>
    BY <1>1 DEF workbookVars
  <2>2. /\ Moves /\ account' \in [Circuits -> CustomerRow]
        /\ history' \in [Circuits -> Seq(ChargeWrite)]
        /\ (\A c \in Circuits : ChargeIsLast(c)') /\ OnlyOverlapsDrift'
    BY <2>1, QuietBooks
  <2>3. ASSUME NEW i \in Uploads PROVE UploadKnows(upload[i])'
    <3>1. PICK p : p = upload[i] /\ p = upload'[i]
      BY <2>1
    <3>2. UploadKnows(p)'
      BY <2>2, <3>1, UploadKnowledgeLasts DEF BooksInvariant
    <3> QED
      BY <3>1, <3>2
  <2>4. WorkbookTypeOK'
    BY <2>1 DEF BooksInvariant, WorkbookTypeOK
  <2> QED
    BY <2>1, <2>2, <2>3, <2>4 DEF BooksInvariant
<1>2. CASE WorkbookNext
  BY <1>2, BulkStartKeeps, LeadStartKeeps, BackfillStartKeeps, BulkRowKeeps, BackfillTxKeeps,
     LeadFindKeeps, LeadWriteKeeps, LeadCreateKeeps, UploadEndsKeeps DEF WorkbookNext
<1> QED
  BY <1>1, <1>2

\* Customers, histories and uploads keep their types, whatever the sheets hold.
THEOREM WorkbookTypesHold == WorkbookSpec => []WorkbookTypeOK
<1>1. BooksInvariant => WorkbookTypeOK
  BY DEF BooksInvariant
<1> QED
  BY <1>1, WorkbookInitHolds, BooksKept, PTL DEF WorkbookSpec

\* A change of a bulk import or a backfill that drifts (starts from another charge
\* than it replaces, or terminates a terminated customer) overlapped another
\* request: for any number of uploads, sheets and customers.
THEOREM DriftTakesAnOverlap == WorkbookSpec => []OnlyOverlapsDrift
<1>1. BooksInvariant => OnlyOverlapsDrift
  BY DEF BooksInvariant
<1> QED
  BY <1>1, WorkbookInitHolds, BooksKept, PTL DEF WorkbookSpec

-----------------------------------------------------------------------------
(* What a customer workbook may do                                         *)

\* Charge and status apart, a change leaves the customer alone, and it brings
\* nobody back.
LEMMA ChangesSayNothing ==
  ASSUME BooksInvariant, NEW k \in Circuits, NEW c \in Circuits, NEW arc, NEW status,
         status \in {account[c].status, "TERMINATED"},
         account' = [account EXCEPT ![c] = [@ EXCEPT !.arc = arc, !.status = status]],
         account'[k] # account[k]
  PROVE  SaidByAWorkbook(k)
<1>1. account[c] \in CustomerRow /\ k = c
  BY DEF BooksInvariant, WorkbookTypeOK
<1>2. account'[k] = [account[k] EXCEPT !.arc = arc, !.status = status]
  BY <1>1 DEF BooksInvariant, WorkbookTypeOK
<1>3. account'[k].start = account[k].start /\ account'[k].owner = account[k].owner
      /\ account'[k].status = status
  BY <1>1, <1>2 DEF CustomerRow
<1> QED
  BY <1>1, <1>3 DEF SaidByAWorkbook

LEMMA WorkbookSaysStep ==
  ASSUME BooksInvariant, WorkbookNext, NEW k \in Circuits, Known(k), account'[k] # account[k]
  PROVE  SaidByAWorkbook(k)
<1>1. PICK i \in Uploads : BulkRow(i) \/ BackfillTx(i) \/ LeadWrite(i) \/ LeadCreate(i)
  BY DEF WorkbookNext, BulkStart, LeadStart, BackfillStart, LeadFind, UploadEnds
<1>2. account \in [Circuits -> CustomerRow]
  BY DEF BooksInvariant, WorkbookTypeOK
<1>3. CASE BulkRow(i)
  <2> DEFINE row == upload[i].sheet[NextRow(upload[i].sheet, upload[i].left)]
  <2> DEFINE c == row.circuit
  <2> DEFINE arc == IF row.type = "DISCONNECTION" THEN 0 ELSE row.arc
  <2> DEFINE status == IF row.type = "DISCONNECTION" THEN "TERMINATED" ELSE account[c].status
  <2>1. \/ account' = [account EXCEPT ![c] = [@ EXCEPT !.arc = arc, !.status = status]]
        \/ account' = account
    BY <1>3 DEF BulkRow
  <2>2. status \in {account[c].status, "TERMINATED"}
    OBVIOUS
  <2> HIDE DEF c, arc, status
  <2>3. account' = [account EXCEPT ![c] = [@ EXCEPT !.arc = arc, !.status = status]]
    BY <2>1
  <2>4. c \in Circuits
    BY <1>2, <2>3
  <2> QED
    BY <2>2, <2>3, <2>4, ChangesSayNothing
<1>4. CASE BackfillTx(i)
  <2>1. PICK c \in Circuits :
          account' = [account EXCEPT ![c] = [@ EXCEPT !.arc = 0, !.status = "TERMINATED"]]
    BY <1>4 DEF BackfillTx
  <2> QED
    BY <2>1, ChangesSayNothing
<1>5. CASE LeadWrite(i)
  <2>1. PICK q, data : q = upload[i] /\ data = LeadData(LeadNow(q), q.names)
    OBVIOUS
  <2>2. UploadKnows(q) /\ q.pc = "write" /\ q.left # {} /\ LeadRowIsValid(LeadNow(q))
        /\ Uploading(i, "write")
    BY <1>5, <2>1 DEF LeadWrite, Uploading, BooksInvariant, UploadKnows
  <2>3. LeadNow(q) \in LeadLine /\ q.names \in SamNames
    BY <2>2, LeadNowIsARow
  <2>4. PICK c : /\ c = LeadNow(q).lead
                 /\ account' = [account EXCEPT ![c] =
                      [status |-> data.status, arc |-> data.arc, owner |-> data.owner,
                       start |-> account[c].start]]
    BY <1>5, <2>1 DEF LeadWrite
  <2>5. k = c
    BY <1>2, <2>4
  <2>6. account'[k].start = account[k].start /\ account'[k].status = data.status
        /\ account'[k].owner = data.owner
    BY <1>2, <2>4, <2>5
  <2>7. data.status # "TERMINATED" => LeadNow(q).status # "closed"
    BY <2>1, <2>2, <2>3, LeadDataTyped
  <2>8. data.owner # NoSam =>
          LeadNow(q).sam \in DOMAIN q.names /\ q.names[LeadNow(q).sam] = {data.owner}
    BY <2>1, <2>2, <2>3, LeadDataTyped, ResolvedIsNamed
  <2> QED
    BY <2>1, <2>2, <2>4, <2>5, <2>6, <2>7, <2>8 DEF SaidByAWorkbook
<1>6. CASE LeadCreate(i)
  <2>1. PICK c, row : ~Known(c) /\ account' = [account EXCEPT ![c] = row]
    BY <1>6 DEF LeadCreate
  <2> QED
    BY <1>2, <2>1
<1> QED
  BY <1>1, <1>3, <1>4, <1>5, <1>6

\* Only a row of its own brings a TERMINATED customer back, gives it the owner its
\* cell names, and never another opening charge: for any sheets, directories and
\* uploads in flight.
THEOREM WorkbookSaysWhatItDoes == WorkbookSpec => WorkbookSaysSo
<1>1. BooksInvariant /\ [WorkbookNext]_workbookVars =>
        [\A k \in Circuits : Known(k) /\ account'[k] # account[k] => SaidByAWorkbook(k)]_workbookVars
  BY WorkbookSaysStep
<1> QED
  BY <1>1, WorkbookInitHolds, BooksKept, PTL DEF WorkbookSpec, WorkbookSaysSo

-----------------------------------------------------------------------------
(* The rows of one upload follow on each other                             *)

\* No write; the upload goes on, ends, or has just begun.
LEMMA QuietChains ==
  ASSUME ChainsInvariant, BooksInvariant', NEW i \in Uploads, NEW p,
         upload' = [upload EXCEPT ![i] = p], history' = history,
         \/ p.pc = "none" /\ uploads' = uploads
         \/ upload[i].pc # "none" /\ p.id = upload[i].id /\ uploads' = uploads
         \/ p.id = uploads' /\ uploads' = uploads + 1,
         ChainKnows(p)
  PROVE  ChainsInvariant'
<1>1. BooksInvariant /\ DOMAIN upload = Uploads /\ uploads \in Nat /\ uploads' \in Nat
      /\ uploads <= uploads'
  BY DEF ChainsInvariant, BooksInvariant, WorkbookTypeOK
<1>2. upload'[i] = p /\ \A j \in Uploads \ {i} : upload'[j] = upload[j]
  BY <1>1
<1>3. \A j \in Uploads : upload[j].pc # "none" => upload[j].id \in Nat /\ upload[j].id <= uploads
  BY DEF ChainsInvariant, Numbered, BooksInvariant, UploadKnows
<1>4. \A j \in Uploads : upload'[j].pc # "none" => upload'[j].id <= uploads'
  BY <1>1, <1>2, <1>3
<1>5. \A j, l \in Uploads :
        j # l /\ upload'[j].pc # "none" /\ upload'[l].pc # "none" => upload'[j].id # upload'[l].id
  <2>1. ASSUME NEW j \in Uploads \ {i}, upload'[j].pc # "none", p.pc # "none"
        PROVE  upload'[j].id # p.id
    BY <1>1, <1>2, <1>3, <2>1 DEF ChainsInvariant, Numbered
  <2> QED
    BY <1>2, <2>1 DEF ChainsInvariant, Numbered
<1>6. \A k \in Circuits : \A n \in DOMAIN history'[k] : history'[k][n].by <= uploads'
  <2> SUFFICES ASSUME NEW k \in Circuits, NEW n \in DOMAIN history[k]
               PROVE  history[k][n].by <= uploads'
    OBVIOUS
  <2>1. history[k] \in Seq(ChargeWrite)
    BY <1>1 DEF BooksInvariant, WorkbookTypeOK
  <2>2. history[k][n].by \in Nat
    <3>1. history[k][n] \in ChargeWrite
      BY <2>1
    <3> QED
      BY <3>1 DEF ChargeWrite
  <2>3. history[k][n].by <= uploads
    BY DEF ChainsInvariant, Numbered
  <2> QED
    BY <1>1, <2>2, <2>3
<1>7. BatchChains'
  BY DEF ChainsInvariant, BatchChains
<1>8. ASSUME NEW j \in Uploads PROVE ChainKnows(upload[j])'
  <2>1. PICK r : r = upload'[j]
    OBVIOUS
  <2>2. ChainKnows(r)
    BY <1>2, <2>1 DEF ChainsInvariant
  <2> QED
    BY <2>1, <2>2 DEF ChainKnows, LastOf
<1> QED
  BY <1>4, <1>5, <1>6, <1>7, <1>8 DEF ChainsInvariant, Numbered

\* One write, by an upload that knows its own last one.
LEMMA WriteChains ==
  ASSUME ChainsInvariant, BooksInvariant', NEW i \in Uploads, NEW q, q = upload[i], q.pc # "none",
         NEW p, upload' = [upload EXCEPT ![i] = p], uploads' = uploads,
         p.pc = "none" \/ p.id = q.id,
         NEW k \in Circuits, NEW e \in ChargeWrite, e.by = q.id, Record(k, e), ChainKnows(p)',
         e.type # "IMPORT" => \A m \in DOMAIN history[k] :
           LastOf(q.id, k, m) /\ history[k][m].type # "IMPORT" =>
             /\ history[k][m].date <= e.date
             /\ e.old = history[k][m].new
             /\ history[k][m].type # "DISCONNECTION"
  PROVE  ChainsInvariant'
<1> DEFINE old == history[k]
<1>1. /\ BooksInvariant /\ DOMAIN upload = Uploads /\ old \in Seq(ChargeWrite)
      /\ history \in [Circuits -> Seq(ChargeWrite)] /\ Len(old) \in Nat
      /\ history' = [history EXCEPT ![k] = Append(old, e)]
  BY DEF ChainsInvariant, BooksInvariant, WorkbookTypeOK, Record
<1>2. /\ history'[k] = Append(old, e) /\ Len(history'[k]) = Len(old) + 1
      /\ DOMAIN history'[k] = 1..(Len(old) + 1) /\ DOMAIN old = 1..Len(old)
      /\ history'[k][Len(old) + 1] = e
      /\ (\A n \in 1..Len(old) : history'[k][n] = old[n])
      /\ \A c \in Circuits \ {k} : history'[c] = history[c]
  BY <1>1
<1>3. upload'[i] = p /\ \A j \in Uploads \ {i} : upload'[j] = upload[j]
  BY <1>1
<1>4. Numbered'
  <2>1. e.by <= uploads
    BY DEF ChainsInvariant, Numbered
  <2>2. \A c \in Circuits : \A n \in DOMAIN history'[c] : history'[c][n].by <= uploads
    <3> SUFFICES ASSUME NEW c \in Circuits, NEW n \in DOMAIN history'[c]
                 PROVE  history'[c][n].by <= uploads
      OBVIOUS
    <3>1. CASE c # k
      BY <1>2, <3>1 DEF ChainsInvariant, Numbered
    <3>2. CASE c = k
      <4>1. n \in 1..Len(old) \/ n = Len(old) + 1
        BY <1>1, <1>2, <3>2
      <4> QED
        BY <1>2, <2>1, <3>2, <4>1 DEF ChainsInvariant, Numbered
    <3> QED
      BY <3>1, <3>2
  <2>3. \A j \in Uploads : upload'[j].pc # "none" => upload'[j].id <= uploads'
    BY <1>3 DEF ChainsInvariant, Numbered
  <2>4. \A j, l \in Uploads :
          j # l /\ upload'[j].pc # "none" /\ upload'[l].pc # "none" => upload'[j].id # upload'[l].id
    BY <1>3 DEF ChainsInvariant, Numbered
  <2> QED
    BY <2>2, <2>3, <2>4 DEF Numbered
<1>5. ASSUME NEW c \in Circuits, NEW n \in DOMAIN history'[c], NEW m \in DOMAIN history'[c],
             m < n, history'[c][m].by = history'[c][n].by,
             "IMPORT" \notin {history'[c][m].type, history'[c][n].type},
             \A o \in (m + 1)..(n - 1) : history'[c][o].by # history'[c][n].by
      PROVE  /\ history'[c][m].date <= history'[c][n].date
             /\ history'[c][n].old = history'[c][m].new
             /\ history'[c][m].type # "DISCONNECTION"
  <2>1. CASE c # k
    BY <1>2, <1>5, <2>1 DEF ChainsInvariant, BatchChains
  <2>2. CASE c = k /\ n \in 1..Len(old)
    <3>1. m \in 1..Len(old) /\ history'[k][n] = old[n] /\ history'[k][m] = old[m]
      BY <1>1, <1>2, <1>5, <2>2
    <3>2. \A o \in (m + 1)..(n - 1) : old[o].by # old[n].by
      <4> TAKE o \in (m + 1)..(n - 1)
      <4>1. o \in 1..Len(old)
        BY <1>1, <2>2, <3>1
      <4> QED
        BY <1>2, <1>5, <2>2, <3>1, <4>1
    <3>3. m < n /\ old[m].by = old[n].by /\ "IMPORT" \notin {old[m].type, old[n].type}
          /\ m \in DOMAIN old /\ n \in DOMAIN old
      BY <1>2, <1>5, <2>2, <3>1
    <3>4. old[m].date <= old[n].date /\ old[n].old = old[m].new /\ old[m].type # "DISCONNECTION"
      BY <3>2, <3>3 DEF ChainsInvariant, BatchChains
    <3> QED
      BY <2>2, <3>1, <3>4
  <2>3. CASE c = k /\ n = Len(old) + 1
    <3>1. m \in 1..Len(old) /\ history'[k][n] = e /\ history'[k][m] = old[m] /\ e.type # "IMPORT"
      BY <1>1, <1>2, <1>5, <2>3
    <3>2. \A o \in (m + 1)..Len(old) : old[o].by # q.id
      <4> TAKE o \in (m + 1)..Len(old)
      <4>1. o \in 1..Len(old) /\ o \in (m + 1)..(n - 1)
        BY <1>1, <2>3, <3>1
      <4> QED
        BY ZenonT(30), <1>2, <1>5, <2>3, <3>1, <4>1
    <3>3. LastOf(q.id, k, m) /\ old[m].type # "IMPORT" /\ m \in DOMAIN history[k]
      BY <1>2, <1>5, <2>3, <3>1, <3>2 DEF LastOf
    <3> QED
      BY <2>3, <3>1, <3>3
  <2>4. c = k => n \in 1..Len(old) \/ n = Len(old) + 1
    BY <1>1, <1>2
  <2> QED
    BY <2>1, <2>2, <2>3, <2>4
<1>6. BatchChains'
  BY <1>5 DEF BatchChains
<1>7. ASSUME NEW j \in Uploads PROVE ChainKnows(upload[j])'
  <2>1. CASE j = i
    BY <1>3, <2>1
  <2>2. CASE j # i
    <3>1. PICK r : r = upload[j] /\ r = upload'[j]
      BY <1>3, <2>2
    <3>2. ChainKnows(r) /\ (r.pc # "none" => r.id # e.by)
      BY <2>2, <3>1 DEF ChainsInvariant, Numbered
    <3>3. ASSUME r.pc # "none", NEW c \in Circuits, NEW m \in DOMAIN history'[c],
                 history'[c][m].by = r.id
          PROVE  /\ m \in DOMAIN history[c] /\ history'[c][m] = history[c][m]
                 /\ LastOf(r.id, c, m)' => LastOf(r.id, c, m)
      <4>1. CASE c # k
        BY <1>2, <4>1 DEF LastOf
      <4>2. CASE c = k
        <5>1. m \in 1..Len(old)
          BY <1>1, <1>2, <3>2, <3>3, <4>2
        <5>2. \A o \in (m + 1)..Len(old) : o \in (m + 1)..Len(history'[k]) /\ history'[k][o] = old[o]
          BY <1>1, <1>2, <5>1
        <5> QED
          BY <1>2, <4>2, <5>1, <5>2 DEF LastOf
      <4> QED
        BY <4>1, <4>2
    <3>4. ChainKnows(r)'
      BY <3>2, <3>3 DEF ChainKnows
    <3> QED
      BY <3>1, <3>4
  <2> QED
    BY <2>1, <2>2
<1> QED
  BY <1>4, <1>6, <1>7 DEF ChainsInvariant

\* A number that nothing carries yet.
LEMMA NewNumber ==
  ASSUME ChainsInvariant, NEW k \in Circuits, NEW m \in DOMAIN history[k], NEW id,
         id = uploads + 1
  PROVE  history[k][m].by # id
<1>1. uploads \in Nat /\ history[k] \in Seq(ChargeWrite)
  BY DEF ChainsInvariant, BooksInvariant, WorkbookTypeOK
<1>2. history[k][m] \in ChargeWrite
  BY <1>1
<1>3. history[k][m].by \in Nat /\ history[k][m].by <= uploads
  BY <1>2 DEF ChainsInvariant, Numbered, ChargeWrite
<1> QED
  BY <1>1, <1>3

LEMMA StartsChain ==
  ASSUME ChainsInvariant, BooksInvariant', NEW i \in Uploads
  PROVE  /\ \A sheet \in BulkSheets : BulkStart(i, sheet) => ChainsInvariant'
         /\ \A sheet \in LeadSheets, names \in SamNames : LeadStart(i, sheet, names) => ChainsInvariant'
         /\ \A k \in Circuits : BackfillStart(i, k) => ChainsInvariant'
<1>1. ASSUME NEW p, upload' = [upload EXCEPT ![i] = p], p.id = uploads', uploads' = uploads + 1,
             history' = history
      PROVE  ChainsInvariant'
  <2>1. ChainKnows(p)
    BY <1>1, NewNumber DEF ChainKnows
  <2> QED
    BY <1>1, <2>1, QuietChains
<1>2. ASSUME NEW sheet \in BulkSheets, BulkStart(i, sheet) PROVE ChainsInvariant'
  <2>1. PICK p : upload' = [upload EXCEPT ![i] = p] /\ p.id = uploads'
    <3> DEFINE rows == ParsedRows(sheet)
    <3> DEFINE found == {k \in Circuits : Known(k) /\ \E n \in rows : sheet[n].circuit = k}
    <3>1. PICK p : p = [NoUpload EXCEPT !.id = uploads', !.pc = "bulk", !.sheet = sheet,
                          !.left = rows, !.arc = [k \in found |-> account[k].arc],
                          !.status = [k \in found |-> account[k].status],
                          !.basis = [k \in found |-> Len(history[k])]]
      OBVIOUS
    <3>2. p.id = uploads'
      BY <3>1 DEF NoUpload
    <3>3. upload' = [upload EXCEPT ![i] = p]
      BY <1>2, <3>1 DEF BulkStart
    <3> QED
      BY <3>2, <3>3
  <2> QED
    BY <1>1, <1>2, <2>1 DEF BulkStart
<1>3. ASSUME NEW sheet \in LeadSheets, NEW names \in SamNames, LeadStart(i, sheet, names)
      PROVE  ChainsInvariant'
  <2>1. PICK p : p = [NoUpload EXCEPT !.id = uploads', !.pc = "find", !.sheet = sheet,
                        !.left = DOMAIN sheet, !.names = names]
    OBVIOUS
  <2>2. p.id = uploads' /\ upload' = [upload EXCEPT ![i] = p]
    BY <1>3, <2>1 DEF NoUpload, LeadStart
  <2> QED
    BY <1>1, <1>3, <2>2 DEF LeadStart
<1>4. ASSUME NEW k \in Circuits, BackfillStart(i, k) PROVE ChainsInvariant'
  <2>1. PICK p : p = [NoUpload EXCEPT !.id = uploads', !.pc = "backfill",
                        !.arc = [c \in {k} |-> account[k].arc],
                        !.basis = [c \in {k} |-> Len(history[k])]]
    OBVIOUS
  <2>2. p.id = uploads' /\ upload' = [upload EXCEPT ![i] = p]
    BY <1>4, <2>1 DEF NoUpload, BackfillStart
  <2> QED
    BY <1>1, <1>4, <2>2 DEF BackfillStart
<1> QED
  BY <1>2, <1>3, <1>4

\* The row that is next has no row left before it.
LEMMA BulkRowChains ==
  ASSUME ChainsInvariant, BooksInvariant', NEW i \in Uploads, BulkRow(i)
  PROVE  ChainsInvariant'
<1>1. PICK q : q = upload[i]
  OBVIOUS
<1>2. BooksInvariant /\ UploadKnows(q) /\ q.pc = "bulk" /\ q.left # {} /\ uploads' = uploads
      /\ ChainKnows(q)
  BY <1>1 DEF ChainsInvariant, BooksInvariant, BulkRow, Uploading
<1>3. /\ q.sheet \in BulkSheets /\ q.left \subseteq ParsedRows(q.sheet) /\ Snapshot(q) /\ IsUpload(q)
      /\ q.status \in [DOMAIN q.arc -> Statuses]
  BY <1>2 DEF UploadKnows
<1> DEFINE n == NextRow(q.sheet, q.left)
<1> DEFINE row == q.sheet[n]
<1> DEFINE k == row.circuit
<1> DEFINE gone == row.type = "DISCONNECTION"
<1> DEFINE arc == IF gone THEN 0 ELSE row.arc
<1> DEFINE status == IF gone THEN "TERMINATED" ELSE q.status[k]
<1> DEFINE e == Entry(q.id, row.type, row.date, q.arc[k], arc, account[k].status, q.basis[k])
<1>4. n \in q.left /\ n \in DOMAIN q.sheet /\ \A m \in q.left : RowDate(row) <= RowDate(q.sheet[m])
  BY <1>2, <1>3, NextRowIsFirst DEF ParsedRows
<1>5. row \in BulkLine /\ row.arc # Bad /\ row.date # Bad
  BY <1>3, <1>4, Lines DEF ParsedRows
<1>6. CASE RowIsValid(row, q.arc, q.status)
           /\ Record(k, e)
           /\ upload' = [upload EXCEPT ![i] = Chained(q, n, k, arc, status)]
  <2> HIDE DEF n
  <2>1. k \in DOMAIN q.arc /\ row.type \in ChangeTypes /\ row.date # Blank
        /\ q.status[k] # "TERMINATED" /\ (gone \/ row.arc # Blank)
    BY <1>6 DEF RowIsValid, ChangeTypes
  <2>2. row.date = RowDate(q.sheet[n]) /\ row.date = RowDate(row) /\ row.date \in Nat
    BY <1>5, <2>1 DEF RowDate, BulkLine, Cell, Blank, Bad
  <2> HIDE DEF row
  <2>3. /\ k \in Circuits /\ q.arc[k] \in Nat /\ q.basis[k] \in Nat /\ arc \in Nat
        /\ account[k] \in CustomerRow /\ q.id \in 1..MaxUploads
    <3>1. arc \in Nat
      BY <1>5, <2>1 DEF BulkLine, Cell, Blank, Bad
    <3> QED
      BY <1>2, <1>3, <2>1, <3>1 DEF Snapshot, UploadKnows, BooksInvariant, WorkbookTypeOK
  <2>4. e \in ChargeWrite /\ e.by = q.id /\ e.type = row.type /\ e.date = row.date
        /\ e.old = q.arc[k] /\ e.new = arc
    BY <2>1, <2>2, <2>3 DEF ChargeWrite, Entry, ChangeTypes, CustomerRow
  <2> HIDE DEF e
  <2>5. PICK p : p = Chained(q, n, k, arc, status)
    OBVIOUS
  <2>6. /\ p.pc = "bulk" /\ p.id = q.id /\ p.sheet = q.sheet /\ p.left = q.left \ {n}
        /\ p.arc = [q.arc EXCEPT ![k] = arc] /\ p.status = [q.status EXCEPT ![k] = status]
    BY <1>2, <1>3, <2>5 DEF Chained, IsUpload
  <2>7. /\ p.arc[k] = arc /\ p.status[k] = status
        /\ \A c \in DOMAIN q.arc \ {k} : p.arc[c] = q.arc[c] /\ p.status[c] = q.status[c]
    BY <1>3, <2>1, <2>6 DEF Snapshot
  <2>8. /\ history[k] \in Seq(ChargeWrite) /\ Len(history[k]) \in Nat
        /\ history'[k] = Append(history[k], e) /\ Len(history'[k]) = Len(history[k]) + 1
        /\ DOMAIN history'[k] = 1..(Len(history[k]) + 1)
        /\ DOMAIN history[k] = 1..Len(history[k])
        /\ history'[k][Len(history[k]) + 1] = e
        /\ (\A m \in 1..Len(history[k]) : history'[k][m] = history[k][m])
        /\ \A c \in Circuits \ {k} : history'[c] = history[c]
    BY <1>2, <1>6, <2>3, <2>4 DEF BooksInvariant, WorkbookTypeOK, Record
  \* Nothing of this upload follows a disconnection of its own.
  <2>9. ASSUME NEW m \in DOMAIN history[k], history[k][m].by = q.id
        PROVE  /\ history[k][m].type # "DISCONNECTION" /\ history[k][m].date <= row.date
               /\ LastOf(q.id, k, m) => q.arc[k] = history[k][m].new
    <3>1. /\ history[k][m].date <= RowDate(q.sheet[n])
          /\ history[k][m].type = "DISCONNECTION" => q.status[k] = "TERMINATED"
          /\ LastOf(q.id, k, m) => q.arc[k] = history[k][m].new
      BY <1>2, <1>4, <2>3, <2>9 DEF ChainKnows
    <3> QED
      BY <2>1, <2>2, <3>1
  <2>10. ASSUME NEW c \in Circuits, NEW m \in DOMAIN history'[c], history'[c][m].by = q.id
         PROVE  /\ \A r \in p.left : history'[c][m].date <= RowDate(p.sheet[r])
                /\ history'[c][m].type = "DISCONNECTION" => p.status[c] = "TERMINATED"
                /\ LastOf(q.id, c, m)' => p.arc[c] = history'[c][m].new
    <3>1. CASE c # k
      <4>1. /\ \A r \in q.left : history[c][m].date <= RowDate(q.sheet[r])
            /\ history[c][m].type = "DISCONNECTION" => q.status[c] = "TERMINATED"
            /\ LastOf(q.id, c, m) => q.arc[c] = history[c][m].new
        BY <1>2, <2>8, <2>10, <3>1 DEF ChainKnows
      <4>2. p.arc[c] = q.arc[c] /\ p.status[c] = q.status[c]
        BY <1>3, <2>6, <2>7, <3>1 DEF Snapshot
      <4> QED
        BY <2>6, <2>8, <3>1, <4>1, <4>2 DEF LastOf
    <3>2. CASE c = k /\ m = Len(history[k]) + 1
      BY <1>4, <2>2, <2>4, <2>6, <2>7, <2>8, <3>2
    <3>3. CASE c = k /\ m \in 1..Len(history[k])
      <4>1. history'[k][m] = history[k][m] /\ m \in DOMAIN history[k] /\ history[k][m].by = q.id
        BY <2>8, <2>10, <3>3
      <4>2. history[k][m].type # "DISCONNECTION"
        BY <2>9, <4>1
      <4>3. \A r \in p.left : history[k][m].date <= RowDate(p.sheet[r])
        BY <1>2, <2>3, <2>6, <4>1 DEF ChainKnows
      <4>4. ~LastOf(q.id, k, m)'
        <5>1. Len(history[k]) + 1 \in (m + 1)..Len(history'[k])
          BY <2>8, <3>3
        <5> QED
          BY <2>4, <2>8, <5>1 DEF LastOf
      <4> QED
        BY <3>3, <4>1, <4>2, <4>3, <4>4
    <3> QED
      BY <2>8, <3>1, <3>2, <3>3
  <2>11. ChainKnows(p)'
    BY <2>6, <2>10 DEF ChainKnows
  <2>12. e.type # "IMPORT" => \A m \in DOMAIN history[k] :
           LastOf(q.id, k, m) /\ history[k][m].type # "IMPORT" =>
             /\ history[k][m].date <= e.date
             /\ e.old = history[k][m].new
             /\ history[k][m].type # "DISCONNECTION"
    BY <2>4, <2>9 DEF LastOf
  <2>13. upload' = [upload EXCEPT ![i] = p] /\ Record(k, e)
    BY <1>6, <2>5
  <2> HIDE DEF k, arc, status, gone
  <2>14. PICK c \in Circuits, w \in ChargeWrite : c = k /\ w = e
    BY <2>3, <2>4
  <2>15. /\ w.by = q.id /\ Record(c, w)
         /\ w.type # "IMPORT" => \A m \in DOMAIN history[c] :
              LastOf(q.id, c, m) /\ history[c][m].type # "IMPORT" =>
                /\ history[c][m].date <= w.date
                /\ w.old = history[c][m].new
                /\ history[c][m].type # "DISCONNECTION"
    BY <2>4, <2>12, <2>13, <2>14
  <2>16. q.pc # "none" /\ p.id = q.id /\ uploads' = uploads
    BY <1>2, <2>6
  <2> QED
    BY <1>1, <2>11, <2>13, <2>15, <2>16, WriteChains
<1>7. CASE upload' = [upload EXCEPT ![i] = [q EXCEPT !.left = @ \ {n}]]
           /\ UNCHANGED <<account, history>>
  <2> HIDE DEF n
  <2>1. PICK p : p = [q EXCEPT !.left = @ \ {n}]
    OBVIOUS
  <2>2. /\ p.pc = q.pc /\ p.id = q.id /\ p.sheet = q.sheet /\ p.left = q.left \ {n}
        /\ p.arc = q.arc /\ p.status = q.status
    BY <1>3, <2>1 DEF IsUpload
  <2>3. ChainKnows(p)
    BY <1>2, <2>2 DEF ChainKnows
  <2> QED
    BY <1>1, <1>2, <1>7, <2>1, <2>2, <2>3, QuietChains
<1> QED
  BY <1>1, <1>6, <1>7 DEF BulkRow

LEMMA BackfillTxChains ==
  ASSUME ChainsInvariant, BooksInvariant', NEW i \in Uploads, BackfillTx(i)
  PROVE  ChainsInvariant'
<1>1. PICK q : q = upload[i]
  OBVIOUS
<1>2. BooksInvariant /\ q.pc = "backfill" /\ UploadKnows(q) /\ uploads' = uploads /\ ChainKnows(q)
  BY <1>1 DEF BackfillTx, Uploading, ChainsInvariant, BooksInvariant
<1>3. PICK k \in Circuits :
        /\ k \in DOMAIN q.arc
        /\ Record(k, Entry(q.id, "DISCONNECTION", 0, q.arc[k], 0, account[k].status, q.basis[k]))
        /\ upload' = [upload EXCEPT ![i] = NoUpload]
  BY <1>1 DEF BackfillTx
<1>4. q.id \in 1..MaxUploads /\ q.arc[k] \in Nat /\ q.basis[k] \in Nat /\ account[k] \in CustomerRow
  BY <1>2, <1>3 DEF UploadKnows, Snapshot, BooksInvariant, WorkbookTypeOK
<1> DEFINE e == Entry(q.id, "DISCONNECTION", 0, q.arc[k], 0, account[k].status, q.basis[k])
<1>5. e \in ChargeWrite /\ e.by = q.id
  BY <1>4 DEF ChargeWrite, Entry, ChangeTypes, CustomerRow
<1>6. ChainKnows(NoUpload)' /\ NoUpload.pc = "none"
  BY DEF ChainKnows, NoUpload
<1>7. \A m \in DOMAIN history[k] : ~LastOf(q.id, k, m)
  BY <1>2 DEF ChainKnows, LastOf
<1> HIDE DEF e
<1> QED
  BY <1>1, <1>2, <1>3, <1>5, <1>6, <1>7, WriteChains DEF e

\* An import of customers is no change, and leaves no chain behind.
LEMMA LeadStepsChain ==
  ASSUME ChainsInvariant, BooksInvariant', NEW i \in Uploads,
         LeadFind(i) \/ LeadWrite(i) \/ LeadCreate(i)
  PROVE  ChainsInvariant'
<1>1. PICK q : q = upload[i]
  OBVIOUS
<1>2. BooksInvariant /\ UploadKnows(q) /\ q.pc \in {"find", "write", "create"} /\ uploads' = uploads
      /\ q.left # {} /\ (q.pc # "find" => LeadRowIsValid(LeadNow(q)) /\ LeadNow(q).lead # NoCircuit)
  BY <1>1 DEF ChainsInvariant, BooksInvariant, LeadFind, LeadWrite, LeadCreate, Uploading, UploadKnows
<1>3. PICK p : p = LeadAfter(q)
  OBVIOUS
<1>4. IsUpload(q) /\ q.id \in 1..MaxUploads
  BY <1>2 DEF UploadKnows
<1>5. p.pc = "find" /\ p.id = q.id
  BY <1>3, <1>4 DEF LeadAfter, IsUpload
<1>6. ChainKnows(p) /\ ChainKnows(p)'
  BY <1>5 DEF ChainKnows
<1>7. CASE upload' = [upload EXCEPT ![i] = p] /\ history' = history
  BY <1>1, <1>2, <1>5, <1>6, <1>7, QuietChains
<1>8. CASE LeadFind(i) /\ upload' # [upload EXCEPT ![i] = p]
  <2>1. PICK pc \in {"write", "create"} : upload' = [upload EXCEPT ![i] = [q EXCEPT !.pc = pc]]
    BY <1>1, <1>3, <1>8 DEF LeadFind
  <2>2. PICK r : r = [q EXCEPT !.pc = pc]
    OBVIOUS
  <2>3. r.pc = pc /\ r.id = q.id
    BY <1>4, <2>2 DEF IsUpload
  <2>4. ChainKnows(r)
    BY <2>3 DEF ChainKnows
  <2> QED
    BY <1>1, <1>2, <1>8, <2>1, <2>2, <2>3, <2>4, QuietChains DEF LeadFind
<1>9. ASSUME NEW k \in Circuits, NEW old \in Nat, NEW was \in {"NONE"} \cup Statuses, NEW arc \in Nat,
             Record(k, Entry(q.id, "IMPORT", 0, old, arc, was, Len(history[k]))),
             upload' = [upload EXCEPT ![i] = p]
      PROVE  ChainsInvariant'
  <2> DEFINE e == Entry(q.id, "IMPORT", 0, old, arc, was, Len(history[k]))
  <2>1. Len(history[k]) \in Nat
    BY <1>2 DEF BooksInvariant, WorkbookTypeOK
  <2>2. e \in ChargeWrite /\ e.by = q.id /\ e.type = "IMPORT"
    BY <1>4, <2>1 DEF ChargeWrite, Entry
  <2> HIDE DEF e
  <2> QED
    BY <1>1, <1>2, <1>5, <1>6, <1>9, <2>2, WriteChains DEF e
<1>10. CASE q.pc # "find"
  <2>1. PICK k, data : k = LeadNow(q).lead /\ data = LeadData(LeadNow(q), q.names)
    OBVIOUS
  <2>2. k \in Circuits /\ data.arc \in Nat
    BY <1>2, <1>10, <2>1, LeadNowIsARow, LeadDataTyped DEF LeadLine
  <2>3. account[k].arc \in Nat /\ account[k].status \in {"NONE"} \cup Statuses
    <3>1. account[k] \in CustomerRow
      BY <1>2, <2>2 DEF BooksInvariant, WorkbookTypeOK
    <3> QED
      BY <3>1 DEF CustomerRow
  <2>4. CASE LeadWrite(i)
    <3>1. Record(k, Entry(q.id, "IMPORT", 0, account[k].arc, data.arc, account[k].status,
                          Len(history[k])))
          /\ upload' = [upload EXCEPT ![i] = p]
      BY <1>1, <1>3, <2>1, <2>4 DEF LeadWrite
    <3> QED
      BY <1>9, <2>2, <2>3, <3>1
  <2>5. CASE LeadCreate(i)
    <3>1. upload' = [upload EXCEPT ![i] = p]
          /\ \/ Record(k, Entry(q.id, "IMPORT", 0, 0, data.arc, "NONE", Len(history[k])))
             \/ history' = history
      BY <1>1, <1>3, <2>1, <2>5 DEF LeadCreate
    <3> QED
      BY <1>7, <1>9, <2>2, <3>1
  <2>6. ~LeadFind(i)
    BY <1>1, <1>10 DEF LeadFind, Uploading
  <2> QED
    BY <2>4, <2>5, <2>6
<1>11. CASE q.pc = "find"
  <2>1. LeadFind(i)
    BY <1>1, <1>11 DEF LeadWrite, LeadCreate, Uploading
  <2> QED
    BY <1>7, <1>8, <2>1 DEF LeadFind
<1> QED
  BY <1>10, <1>11

LEMMA ChainsKept ==
  ASSUME ChainsInvariant, [WorkbookNext]_workbookVars
  PROVE  ChainsInvariant'
<1>1. BooksInvariant /\ BooksInvariant'
  BY BooksKept DEF ChainsInvariant
<1>2. CASE UNCHANGED workbookVars
  BY <1>1, <1>2 DEF workbookVars, ChainsInvariant, Numbered, BatchChains, ChainKnows, LastOf
<1>3. ASSUME NEW i \in Uploads, UploadEnds(i) PROVE ChainsInvariant'
  <2>1. ChainKnows(NoUpload) /\ NoUpload.pc = "none"
    BY DEF ChainKnows, NoUpload
  <2> QED
    BY <1>1, <1>3, <2>1, QuietChains DEF UploadEnds
<1> QED
  BY <1>1, <1>2, <1>3, StartsChain, BulkRowChains, BackfillTxChains, LeadStepsChain DEF WorkbookNext

\* "each change's oldArc must be the prior change's newArc": for any sheets and
\* uploads in flight, the rows of a circuit in one upload go by date, each from
\* the charge the one before it left, and none after a disconnection.
THEOREM RowsOfABatchChain == WorkbookSpec => []BatchChains
<1>1. WorkbookInit => ChainsInvariant
  <2> SUFFICES ASSUME WorkbookInit PROVE ChainsInvariant
    OBVIOUS
  <2>1. BooksInvariant
    BY WorkbookInitHolds
  <2>2. \A k \in Circuits : DOMAIN history[k] = {}
    BY DEF WorkbookInit
  <2>3. \A i \in Uploads : upload[i].pc = "none"
    BY DEF WorkbookInit, NoUpload
  <2> QED
    BY <2>1, <2>2, <2>3 DEF ChainsInvariant, Numbered, BatchChains, ChainKnows
<1>2. ChainsInvariant => BatchChains
  BY DEF ChainsInvariant
<1> QED
  BY <1>1, <1>2, ChainsKept, PTL DEF WorkbookSpec
=============================================================================
