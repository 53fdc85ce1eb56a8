------------------------------ MODULE Workbooks ------------------------------
(***************************************************************************)
(* The two spreadsheet uploads: customers (accounts/import) and historic   *)
(* commercial changes (commercial-changes/bulk-import), beside the         *)
(* backfill of a single disconnection.                                     *)
(*                                                                         *)
(* A bulk import reads the accounts once, keeps that snapshot up to date   *)
(* with its own rows only, and applies row after row, a transaction each.  *)
(* A customer import looks each row up and then writes it, without a       *)
(* transaction.  Nothing keeps two uploads apart.  A cell is modelled by   *)
(* what its parser makes of it: a value, Blank, or Bad (does not parse).   *)
(***************************************************************************)
EXTENDS Integers, FiniteSets, Sequences

CONSTANTS
  Circuits,     \* customers: a circuit id and a key (lead id or CRM id) each
  NoCircuit,    \* a row without its key
  BulkSheets,   \* bound: bulk workbooks, as sequences of rows
  LeadSheets,   \* bound: customer workbooks, as sequences of rows, which all name a
                \* customer by the same key
  SamNames,     \* bound: the staff directories an import may find, as the
                \* users each SAM cell matches
  Sams,         \* users a directory lists: of every role
  NoSam,        \* a NULL owner
  Uploads,      \* requests in flight
  MaxUploads,   \* bound: uploads
  OpeningArc    \* charge of the customers at the start

Blank == -1
Bad == -2
Cell(values) == values \cup {Blank, Bad}

ChangeTypes == {"UPGRADE", "DOWNGRADE", "RATE_REVISION", "DISCONNECTION"}

Statuses == {"ACTIVE", "PENDING", "EXPIRED", "TERMINATED"}

\* STATUS_ALIASES: what the words of a status column stand for.
StatusAliases ==
  [completed |-> "ACTIVE", new |-> "PENDING", paused |-> "EXPIRED", closed |-> "TERMINATED"]

ASSUME WorkbookAssumption ==
  /\ NoCircuit \notin Circuits
  /\ NoSam \notin Sams
  /\ IsFiniteSet(Sams)
  /\ \A names \in SamNames : /\ DOMAIN names \subseteq STRING
                            /\ \A cell \in DOMAIN names : names[cell] \subseteq Sams
  /\ \A sheet \in BulkSheets : sheet \in Seq(
       [circuit : Circuits \cup {NoCircuit}, type : ChangeTypes \cup {"BLANK", "BOGUS"},
        arc : Cell(Nat), date : Cell(Nat)])
  /\ \A sheet \in LeadSheets : sheet \in Seq(
       [lead : Circuits \cup {NoCircuit}, status : DOMAIN StatusAliases \cup {"BLANK", "BOGUS"},
        arc : Cell(Nat), sam : STRING])
  /\ MaxUploads \in Nat
  /\ OpeningArc \in Nat

VARIABLES
  account,   \* status, charge, opening charge and owner of each customer
  history,   \* every write of a charge, with what its writer knew
  upload,    \* the imports in flight
  uploads    \* uploads so far

workbookVars == <<account, history, upload, uploads>>

NoAccount == [status |-> "NONE", arc |-> 0, start |-> 0, owner |-> NoSam]

NoUpload ==
  [pc |-> "none", id |-> 0, sheet |-> <<>>, left |-> {}, arc |-> <<>>, status |-> <<>>,
   basis |-> <<>>, names |-> <<>>]

CustomerRow ==
  [status : {"NONE"} \cup Statuses, arc : Nat, start : Nat, owner : Sams \cup {NoSam}]

Known(k) == account[k].status # "NONE"

Uploading(i, pc) == upload[i].pc = pc

\* Ghost: an entry of the history says which upload wrote which charge over
\* which (believed) one, the status it found, and how many of the entries before
\* it its writer had seen.
Entry(by, type, date, old, new, was, basis) ==
  [by |-> by, type |-> type, date |-> date, old |-> old, new |-> new, was |-> was,
   basis |-> basis]

ChargeWrite ==
  [by : 1..MaxUploads, type : ChangeTypes \cup {"IMPORT"}, date : Nat, old : Nat, new : Nat,
   was : {"NONE"} \cup Statuses, basis : Nat]

Record(k, entry) == history' = [history EXCEPT ![k] = Append(@, entry)]

-----------------------------------------------------------------------------
(* Bulk import of commercial changes                                       *)

Late == 1000  \* a row without a date is sorted behind the others

\* parseWorkbook(): a cell that does not parse drops the row.
ParsedRows(sheet) == {n \in DOMAIN sheet : sheet[n].arc # Bad /\ sheet[n].date # Bad}

RowDate(row) == IF row.date = Blank THEN Late ELSE row.date

\* Mutant of NextRow: rows taken as they stand in the sheet.
NextRowAsListed(sheet, left) == CHOOSE n \in left : \A m \in left : n <= m

\* Stable sort by effective date.
NextRow(sheet, left) ==
  CHOOSE n \in left : \A m \in left :
    \/ RowDate(sheet[n]) < RowDate(sheet[m])
    \/ RowDate(sheet[n]) = RowDate(sheet[m]) /\ n <= m

\* Mutant of RowIsValid: a terminated customer is not refused.
RowIsValidAnyStatus(row, arcs, statuses) ==
  /\ row.circuit \in DOMAIN arcs
  /\ row.type \in ChangeTypes
  /\ row.date # Blank
  /\ \/ row.type = "DISCONNECTION"
     \/ row.type = "UPGRADE" /\ row.arc > arcs[row.circuit]

\* validateRow(), against the snapshot.
RowIsValid(row, arcs, statuses) ==
  /\ row.circuit \in DOMAIN arcs
  /\ row.type \in ChangeTypes
  /\ row.date # Blank
  /\ statuses[row.circuit] # "TERMINATED"
  /\ LET old == arcs[row.circuit] IN
     CASE row.type = "UPGRADE"       -> row.arc # Blank /\ row.arc > old
       [] row.type = "DOWNGRADE"     -> row.arc # Blank /\ row.arc < old
       [] row.type = "RATE_REVISION" -> row.arc # Blank /\ row.arc = old
       [] row.type = "DISCONNECTION" -> TRUE

\* The upload is parsed, and the accounts of its circuits are read, once.
BulkStart(i, sheet) ==
  LET rows == ParsedRows(sheet)
      found == {k \in Circuits : Known(k) /\ \E n \in rows : sheet[n].circuit = k}
  IN
  /\ upload[i] = NoUpload
  /\ uploads < MaxUploads
  /\ uploads' = uploads + 1
  /\ upload' = [upload EXCEPT ![i] =
       [NoUpload EXCEPT !.id = uploads', !.pc = "bulk", !.sheet = sheet, !.left = rows,
          !.arc = [k \in found |-> account[k].arc],
          !.status = [k \in found |-> account[k].status],
          !.basis = [k \in found |-> Len(history[k])]]]
  /\ UNCHANGED <<account, history>>

\* The next row of the same circuit starts from this one's result.
Chained(q, n, k, arc, status) ==
  [q EXCEPT !.left = @ \ {n}, !.arc = [@ EXCEPT ![k] = arc],
            !.status = [@ EXCEPT ![k] = status], !.basis = [@ EXCEPT ![k] = q.basis[k] + 1]]

\* One row: refused on the strength of the snapshot, or written in a transaction
\* of its own over whatever the account has become (or failing there).
BulkRow(i) ==
  LET q == upload[i]
      n == NextRow(q.sheet, q.left)
      row == q.sheet[n]
      k == row.circuit
      gone == row.type = "DISCONNECTION"
      arc == IF gone THEN 0 ELSE row.arc
      status == IF gone THEN "TERMINATED" ELSE q.status[k]
      skipped == [q EXCEPT !.left = @ \ {n}]
  IN
  /\ Uploading(i, "bulk")
  /\ q.left # {}
  /\ \/ /\ RowIsValid(row, q.arc, q.status)
        /\ account' = [account EXCEPT ![k] =
             [@ EXCEPT !.arc = arc, !.status = IF gone THEN "TERMINATED" ELSE account[k].status]]
        /\ Record(k, Entry(q.id, row.type, row.date, q.arc[k], arc, account[k].status, q.basis[k]))
        /\ upload' = [upload EXCEPT ![i] = Chained(q, n, k, arc, status)]
     \/ /\ upload' = [upload EXCEPT ![i] = skipped]
        /\ UNCHANGED <<account, history>>
  /\ UNCHANGED uploads

-----------------------------------------------------------------------------
(* backfillDisconnection(): read and guard, then one transaction           *)

BackfillStart(i, k) ==
  /\ upload[i] = NoUpload
  /\ uploads < MaxUploads
  /\ Known(k) /\ account[k].status # "TERMINATED"
  /\ uploads' = uploads + 1
  /\ upload' = [upload EXCEPT ![i] =
       [NoUpload EXCEPT !.id = uploads', !.pc = "backfill", !.arc = [c \in {k} |-> account[k].arc],
                        !.basis = [c \in {k} |-> Len(history[k])]]]
  /\ UNCHANGED <<account, history>>

BackfillTx(i) ==
  \E k \in Circuits :
    LET q == upload[i] IN
    /\ Uploading(i, "backfill")
    /\ k \in DOMAIN q.arc
    /\ account' = [account EXCEPT ![k] = [@ EXCEPT !.arc = 0, !.status = "TERMINATED"]]
    /\ Record(k, Entry(q.id, "DISCONNECTION", 0, q.arc[k], 0, account[k].status, q.basis[k]))
    /\ upload' = [upload EXCEPT ![i] = NoUpload]
    /\ UNCHANGED uploads

-----------------------------------------------------------------------------
(* Import of customers                                                     *)

\* A cell names its user when it matches exactly one; otherwise nobody.
ResolveSam(names, cell) ==
  IF cell \in DOMAIN names /\ Cardinality(names[cell]) = 1
  THEN CHOOSE u \in names[cell] : TRUE
  ELSE NoSam

\* validate(): a word it does not know refuses the row; everything else that is
\* missing or does not parse gets a default.
LeadRowIsValid(row) == row.status # "BOGUS"

LeadData(row, names) ==
  [status |-> IF row.status = "BLANK" THEN "ACTIVE" ELSE StatusAliases[row.status],
   arc    |-> IF row.arc \in {Blank, Bad} THEN 0 ELSE row.arc,
   owner  |-> ResolveSam(names, row.sam)]

LeadNow(q) == q.sheet[CHOOSE n \in q.left : \A m \in q.left : n <= m]
LeadAfter(q) == [q EXCEPT !.pc = "find", !.left = @ \ {CHOOSE n \in @ : \A m \in @ : n <= m}]

LeadStart(i, sheet, names) ==
  /\ upload[i] = NoUpload
  /\ uploads < MaxUploads
  /\ uploads' = uploads + 1
  /\ upload' = [upload EXCEPT ![i] =
       [NoUpload EXCEPT !.id = uploads', !.pc = "find", !.sheet = sheet, !.left = DOMAIN sheet, !.names = names]]
  /\ UNCHANGED <<account, history>>

\* Refused, found by the key of the row (its lead id or, without one, its CRM id),
\* or new.  A row with neither makes a customer that no other row can name; it is
\* left out.
LeadFind(i) ==
  LET q == upload[i]
      row == LeadNow(q)
  IN
  /\ Uploading(i, "find")
  /\ q.left # {}
  /\ upload' = [upload EXCEPT ![i] =
       IF ~LeadRowIsValid(row) \/ row.lead = NoCircuit THEN LeadAfter(q)
       ELSE [q EXCEPT !.pc = IF Known(row.lead) THEN "write" ELSE "create"]]
  /\ UNCHANGED <<account, history, uploads>>

\* Mutant of LeadWrite: the opening charge overwritten with the rest.
LeadWriteStart(i) ==
  LET q == upload[i]
      k == LeadNow(q).lead
      data == LeadData(LeadNow(q), q.names)
  IN
  /\ Uploading(i, "write")
  /\ account' = [account EXCEPT ![k] =
       [status |-> data.status, arc |-> data.arc, owner |-> data.owner, start |-> data.arc]]
  /\ Record(k, Entry(q.id, "IMPORT", 0, account[k].arc, data.arc, account[k].status,
                     Len(history[k])))
  /\ upload' = [upload EXCEPT ![i] = LeadAfter(q)]
  /\ UNCHANGED uploads

\* Every column of the row is written over, the opening charge apart.
LeadWrite(i) ==
  LET q == upload[i]
      k == LeadNow(q).lead
      data == LeadData(LeadNow(q), q.names)
  IN
  /\ Uploading(i, "write")
  /\ account' = [account EXCEPT ![k] =
       [status |-> data.status, arc |-> data.arc, owner |-> data.owner, start |-> @.start]]
  /\ Record(k, Entry(q.id, "IMPORT", 0, account[k].arc, data.arc, account[k].status,
                     Len(history[k])))
  /\ upload' = [upload EXCEPT ![i] = LeadAfter(q)]
  /\ UNCHANGED uploads

\* Both ids are unique: a customer created meanwhile fails the row, which is
\* skipped.
LeadCreate(i) ==
  LET q == upload[i]
      k == LeadNow(q).lead
      data == LeadData(LeadNow(q), q.names)
  IN
  /\ Uploading(i, "create")
  /\ \/ /\ ~Known(k)
        /\ account' = [account EXCEPT ![k] =
             [status |-> data.status, arc |-> data.arc, owner |-> data.owner, start |-> data.arc]]
        /\ Record(k, Entry(q.id, "IMPORT", 0, 0, data.arc, "NONE", Len(history[k])))
     \/ /\ Known(k)
        /\ UNCHANGED <<account, history>>
  /\ upload' = [upload EXCEPT ![i] = LeadAfter(q)]
  /\ UNCHANGED uploads

-----------------------------------------------------------------------------
\* The summary is sent, or the process restarts: the rows written stay.
UploadEnds(i) ==
  /\ upload[i] # NoUpload
  /\ upload' = [upload EXCEPT ![i] = NoUpload]
  /\ UNCHANGED <<account, history, uploads>>

WorkbookInit ==
  /\ account \in [Circuits -> {NoAccount, [NoAccount EXCEPT !.status = "ACTIVE",
                                             !.arc = OpeningArc, !.start = OpeningArc]}]
  /\ history = [k \in Circuits |-> <<>>]
  /\ upload = [i \in Uploads |-> NoUpload]
  /\ uploads = 0

WorkbookNext ==
  \E i \in Uploads :
    \/ \E sheet \in BulkSheets : BulkStart(i, sheet)
    \/ \E sheet \in LeadSheets, names \in SamNames : LeadStart(i, sheet, names)
    \/ \E k \in Circuits : BackfillStart(i, k)
    \/ BulkRow(i)
    \/ BackfillTx(i)
    \/ LeadFind(i)
    \/ LeadWrite(i)
    \/ LeadCreate(i)
    \/ UploadEnds(i)

WorkbookSpec == WorkbookInit /\ [][WorkbookNext]_workbookVars
-----------------------------------------------------------------------------
(* Properties                                                              *)

WorkbookTypeOK ==
  /\ account \in [Circuits -> CustomerRow]
  /\ history \in [Circuits -> Seq(ChargeWrite)]
  /\ \A i \in Uploads : upload[i].pc \in {"none", "bulk", "backfill", "find", "write", "create"}
  /\ uploads \in 0..MaxUploads

\* The charge the n-th write of a history replaced.
Replaced(k, n) == IF n = 1 THEN account[k].start ELSE history[k][n - 1].new

\* "each change's oldArc must be the prior change's newArc": within an upload the
\* rows of a circuit go by date, each starts where the one before it ended, and
\* nothing follows a disconnection, whatever another upload does in between.
BatchChains ==
  \A k \in Circuits : \A n \in DOMAIN history[k], m \in DOMAIN history[k] :
    LET h == history[k] IN
    /\ m < n
    /\ h[m].by = h[n].by
    /\ "IMPORT" \notin {h[m].type, h[n].type}
    /\ \A o \in (m + 1)..(n - 1) : h[o].by # h[n].by
    => /\ h[m].date <= h[n].date
       /\ h[n].old = h[m].new
       /\ h[m].type # "DISCONNECTION"

\* The waterfall of a customer drifts, and a change lands on a TERMINATED one, by
\* overlapping requests only: a change whose writer had seen every write before it
\* starts from the charge it replaces and finds the customer not terminated.
OnlyOverlapsDrift ==
  \A k \in Circuits : \A n \in DOMAIN history[k] :
    LET e == history[k][n] IN
    e.type # "IMPORT" /\ e.basis = n - 1 => e.old = Replaced(k, n) /\ e.was # "TERMINATED"

SaidByAWorkbook(k) ==
  LET now == account'[k]
      writing == {i \in Uploads : Uploading(i, "write") /\ LeadNow(upload[i]).lead = k}
  IN
  /\ now.start = account[k].start
  /\ account[k].status = "TERMINATED" /\ now.status # "TERMINATED" =>
       \E i \in writing : LeadNow(upload[i]).status # "closed"
  /\ now.owner \notin {account[k].owner, NoSam} =>
       \E i \in writing : LET names == upload[i].names
                              cell == LeadNow(upload[i]).sam
                          IN  cell \in DOMAIN names /\ names[cell] = {now.owner}

\* What a customer workbook may do to a customer the workflow works on: only a
\* row of its own brings a TERMINATED customer back; the owner becomes the one
\* user its cell could mean, or nobody; the opening charge ("never overwrite")
\* stays what it was when the customer was created.
WorkbookSaysSo ==
  [][\A k \in Circuits : Known(k) /\ account'[k] # account[k] => SaidByAWorkbook(k)]_workbookVars

-----------------------------------------------------------------------------
(* What the comments promise and the code does not keep                    *)

\* "Old ARC is read live from the DB so the spreadsheet can't accidentally race
\* against another change."
OldArcIsLive ==
  \A k \in Circuits : \A n \in DOMAIN history[k] :
    history[k][n].type # "IMPORT" => history[k][n].old = Replaced(k, n)
=============================================================================
