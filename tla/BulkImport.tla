----------------------------- MODULE BulkImport -----------------------------
(***************************************************************************)
(* Deliveries created from a CSV file: the tokenizer, which numbers the    *)
(* records by physical line, and the import, which validates the rows,     *)
(* drops those whose tracking number is taken, inserts the others and      *)
(* reports on every line.                                                  *)
(***************************************************************************)
EXTENDS Naturals, Sequences, FiniteSets, SequencesExt

CONSTANTS
    Tracking,    \* tracking numbers
    Importers,   \* uploads under way
    MaxRows,     \* BULK_UPLOAD_MAX_ROWS
    MaxText,     \* bound on the length of the texts that are tokenized
    NoImport     \* no delivery has the tracking number

ASSUME ImportAssumption ==
    MaxRows \in Nat \ {0} /\ MaxText \in Nat /\ NoImport \notin Importers \X (1..MaxRows)

VARIABLES
    csv,       \* the text tokenized last, and its records
    numbered,  \* the upload and the line that created the delivery with each tracking number
    upload     \* the uploads

importVars == <<csv, numbered, upload>>

\* The lines of a set, from the first to the last.
InOrder(lines) ==
    CHOOSE s \in [1..Cardinality(lines) -> lines] : \A m, n \in DOMAIN s : m < n => s[m] < s[n]

-----------------------------------------------------------------------------
(* The tokenizer.  A text is a sequence of characters: a quote, a comma, an end of line, a space or another. *)

Chars == {"quote", "comma", "eol", "space", "other"}

Texts == UNION {[1..n -> Chars] : n \in 0..MaxText}

Scan == [records |-> <<>>, fields |-> 0, inQuotes |-> FALSE, line |-> 1, start |-> 1, content |-> FALSE, skip |-> FALSE]

\* Mutant: an end of line inside quotes is not counted.
QuotedCharIgnored(s, c) == s

QuotedChar(s, c) == IF c = "eol" THEN [s EXCEPT !.line = @ + 1] ELSE s

\* Blank lines are skipped.
EndRecord(s) ==
    [s EXCEPT !.records = IF s.content THEN Append(@, [line |-> s.start, fields |-> s.fields + 1]) ELSE @,
              !.fields = 0, !.content = FALSE, !.start = s.line]

\* One character; next is the one after it.  A doubled quote inside quotes is a literal quote.
Consume(s, c, next) ==
    CASE s.skip -> [s EXCEPT !.skip = FALSE]
      [] ~s.skip /\ s.inQuotes /\ c = "quote" -> IF next = "quote" THEN [s EXCEPT !.skip = TRUE] ELSE [s EXCEPT !.inQuotes = FALSE]
      [] ~s.skip /\ s.inQuotes /\ c # "quote" -> QuotedChar(s, c)
      [] ~s.skip /\ ~s.inQuotes /\ c = "quote" -> [s EXCEPT !.inQuotes = TRUE, !.content = TRUE]
      [] ~s.skip /\ ~s.inQuotes /\ c = "comma" -> [s EXCEPT !.content = TRUE, !.fields = @ + 1]
      [] ~s.skip /\ ~s.inQuotes /\ c = "eol" -> EndRecord([s EXCEPT !.line = @ + 1])
      [] ~s.skip /\ ~s.inQuotes /\ c = "space" -> s
      [] ~s.skip /\ ~s.inQuotes /\ c = "other" -> [s EXCEPT !.content = TRUE]

\* The state of the scanner after each character.
Scanned(text) ==
    LET scanned[i \in 0..Len(text)] ==
            IF i = 0 THEN Scan
            ELSE Consume(scanned[i - 1], text[i], IF i < Len(text) THEN text[i + 1] ELSE "eof")
    IN  scanned

\* The records, or no answer for an unterminated quote.
Tokenize(text) ==
    LET last == Scanned(text)[Len(text)]
    IN  [unterminated |-> last.inQuotes,
         records |-> IF last.content \/ last.fields > 0 THEN EndRecord(last).records ELSE last.records]

\* parseCsv on some file.
ParseCsv ==
    /\ csv.text = <<>>
    /\ \E text \in Texts : csv' = [text |-> text, result |-> Tokenize(text)]
    /\ UNCHANGED <<numbered, upload>>

-----------------------------------------------------------------------------
(* The import.  An amount is well-formed, malformed or left blank. *)

Row == [tracking: Tracking \cup {"blank"}, amount: {"ok", "bad", "blank"}]

CsvFiles == UNION {[1..n -> Row] : n \in 1..MaxRows + 1}

IdleUpload == [pc |-> "idle"]

ImportTypeOK ==
    /\ csv.text \in Texts /\ csv.result.unterminated \in BOOLEAN
    /\ numbered \in [Tracking -> {NoImport} \cup (Importers \X (1..MaxRows))]
    /\ \A c \in Importers : upload[c].pc \in {"idle", "find", "insert", "report", "rejected", "failed"}

ImportInit ==
    /\ csv = [text |-> <<>>, result |-> Tokenize(<<>>)]
    /\ numbered = [t \in Tracking |-> NoImport]
    /\ upload = [c \in Importers |-> IdleUpload]

Lines(file) == DOMAIN file

\* deliveryRowSchema: a blank amount is coerced to zero, which is not negative.
ValidRow(row) == row.tracking # "blank" /\ row.amount # "bad"

\* A valid row whose tracking number an earlier valid row has.
Repeated(file, i) == \E j \in 1..i - 1 : ValidRow(file[j]) /\ file[j].tracking = file[i].tracking


ImportFromCsv(c) ==
    /\ upload[c] = IdleUpload
    /\ \E file \in CsvFiles :
         LET rejected == {i \in Lines(file) : ~ValidRow(file[i]) \/ Repeated(file, i)} IN
         upload' = [upload EXCEPT ![c] = IF Len(file) > MaxRows THEN [pc |-> "rejected"]
             ELSE [pc |-> "find", file |-> file, errors |-> rejected, rows |-> InOrder(Lines(file) \ rejected)]]
    /\ UNCHANGED <<csv, numbered>>

NumberOf(c, i) == upload[c].file[i].tracking

\* findExistingTrackingNumbers sees soft-deleted deliveries as well.
FindExisting(c) ==
    /\ upload[c].pc = "find"
    /\ LET existing == {i \in ToSet(upload[c].rows) : numbered[NumberOf(c, i)] # NoImport} IN
         upload' = [upload EXCEPT ![c].pc = "insert", ![c].errors = @ \cup existing,
                                  ![c].rows = InOrder(ToSet(@) \ existing)]
    /\ UNCHANGED <<csv, numbered>>

\* What the unique index lets through.
Insertable(c) == {n \in DOMAIN upload[c].rows : numbered[NumberOf(c, upload[c].rows[n])] = NoImport}

Inserted(c, indexes) ==
    [t \in Tracking |->
        IF \E n \in indexes : NumberOf(c, upload[c].rows[n]) = t
        THEN <<c, upload[c].rows[CHOOSE n \in indexes : NumberOf(c, upload[c].rows[n]) = t]>>
        ELSE numbered[t]]

\* Mutant: the index of a write error is taken for the line.
LineOfIndex(rows, n) == n

\* A write error names a row by its index among those that were inserted.
LineOf(rows, n) == rows[n]

\* bulkCreateDeliveries: the HTTP status of the report.
AnswerOf(created, errors) == IF created = {} THEN 422 ELSE IF errors = {} THEN 201 ELSE 207

InsertRows(c) ==
    /\ upload[c].pc = "insert"
    /\ LET created == {upload[c].rows[n] : n \in Insertable(c)}
           refused == DOMAIN upload[c].rows \ Insertable(c)
           errors == upload[c].errors \cup {LineOf(upload[c].rows, n) : n \in refused}
       IN /\ numbered' = Inserted(c, Insertable(c))
          /\ upload' = [upload EXCEPT ![c] = [pc |-> "report", file |-> upload[c].file, created |-> created,
                                              errors |-> errors, answer |-> AnswerOf(created, errors)]]
    /\ UNCHANGED csv

\* The connection breaks: part of the rows may be there, and the client gets a 500.
InsertBreaks(c) ==
    /\ upload[c].pc = "insert" /\ upload[c].rows # <<>>
    /\ \E part \in SUBSET Insertable(c) : numbered' = Inserted(c, part)
    /\ upload' = [upload EXCEPT ![c] = [pc |-> "failed"]]
    /\ UNCHANGED csv

ImportStep == \E c \in Importers : ImportFromCsv(c) \/ FindExisting(c) \/ InsertRows(c) \/ InsertBreaks(c)

-----------------------------------------------------------------------------
(* Correctness *)

Count(text, c, n) == Cardinality({i \in 1..n : text[i] = c})

\* Where a record ends: at an end of line that follows an even number of quotes.
RecordEnds(text) == {i \in DOMAIN text : text[i] = "eol" /\ Count(text, "quote", i) % 2 = 0}

\* What lies before the first character of each record that is not blank.
FilledRecords(text) ==
    {b \in {0} \cup RecordEnds(text) :
        \E i \in b + 1..Len(text) : text[i] # "space" /\ \A e \in RecordEnds(text) : e \notin b + 1..i}

\* Every record the tokenizer reports carries the number of the physical line it begins on, whatever
\* blank lines and quoted ends of line come before it: a merchant is pointed at the right line.
RecordsAreNumberedByLine ==
    ~csv.result.unterminated =>
        LET begins == InOrder(FilledRecords(csv.text))
        IN  [n \in DOMAIN csv.result.records |-> csv.result.records[n].line]
              = [n \in DOMAIN begins |-> 1 + Count(csv.text, "eol", begins[n])]

\* Every line is either created or reported, none is both, and those called created are the ones
\* this upload stored, with another upload of the same tracking numbers between the check and the
\* insertion; a merchant who is answered 201 has them all.
LinesAreAccountedFor ==
    \A c \in Importers : upload[c].pc = "report" =>
        /\ upload[c].created \cup upload[c].errors = Lines(upload[c].file)
        /\ upload[c].created \cap upload[c].errors = {}
        /\ \A i \in upload[c].created : numbered[NumberOf(c, i)] = <<c, i>>
        /\ upload[c].answer = 201 => \A i \in Lines(upload[c].file) : numbered[NumberOf(c, i)] = <<c, i>>

\* The report of an import is exact: its lines are numbered as in the file, and each is accounted for.
ReportIsExact == RecordsAreNumberedByLine /\ LinesAreAccountedFor
=============================================================================
