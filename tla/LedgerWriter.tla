---------------------------- MODULE LedgerWriter ----------------------------
(* The ledger file and the processes that append to it: runtime/ledger_writer.py
   as BusManager and the master program use it.  The master programs share one
   file by default.

   The file is a list of ended lines and the text after the last newline.  A
   line is an entry or holds no JSON; a short line reaches the file in one
   append, unless the disk is full or the machine stops.

   Its text is taken to be ASCII.  Of other text a piece may end within a
   character, and then read_all raises UnicodeDecodeError, which it does not
   catch, and changes nothing. *)
EXTENDS Naturals, Sequences, FiniteSets

CONSTANTS
    Writer,
    Blank,          \* No text after the last newline.
    Junk,           \* Text that holds no JSON.
    Nothing,
    MaxEntries,     \* Bound: entries given to append.
    MaxFailures     \* Bound: failed appends and crashes.

(* An entry has its author and its event id, which no other entry has: the ids
   are numbered here in the order of the calls of append.  Its vector clock is
   data the writer does not look at.  It comes from a frame that was computed from
   a bus that may have changed since, so that clocks repeat and go back. *)
Entry == [by : Writer, id : Nat]

ASSUME LedgerAssumption ==
    /\ \A x \in {Blank, Junk, Nothing} : x \notin Entry
    /\ Blank # Junk
    /\ MaxEntries \in Nat /\ MaxFailures \in Nat

VARIABLES
    lines,      \* The ended lines of the file.
    tail,       \* What follows them.
    entries,    \* _entries; _sequence_number is its length.
    writing,    \* The entry append is about to write.
    issued,     \* Entries given to append so far.
    present,    \* The file exists.
    written,    \* History: entries whose append was completed.
    failures    \* Appends that failed and crashes so far.

vars == <<lines, tail, entries, writing, issued, present, written, failures>>

(* The loop of read_all over a text: kept[n] has what the first n lines gave. *)
Kept(text) ==
    LET kept[n \in 0 .. Len(text)] ==
            IF n = 0 THEN <<>>
            ELSE IF text[n] \in Entry THEN Append(kept[n - 1], text[n])
                 ELSE kept[n - 1]
    IN  kept

(* Mutant: a line that is no JSON is not skipped. *)
ReadableUnskipped == SelectSeq(Append(lines, tail), LAMBDA text : text # Blank)

(* What read_all finds: it skips every line that is no JSON, and reads a last
   line without its newline. *)
Readable == Kept(Append(lines, tail))[Len(lines) + 1]

Records == ({lines[i] : i \in DOMAIN lines} \cup {tail}) \cap Entry

Init ==
    /\ lines = <<>>
    /\ tail = Blank
    /\ entries = [w \in Writer |-> <<>>]
    /\ writing = [w \in Writer |-> Nothing]
    /\ issued = 0
    /\ present = FALSE
    /\ written = {}
    /\ failures = 0

-----------------------------------------------------------------------------
(* append: first the memory, ... *)
Remember(w) ==
    /\ writing[w] = Nothing
    /\ issued < MaxEntries
    /\ issued' = issued + 1
    /\ LET entry == [by |-> w, id |-> issued + 1]
       IN  /\ entries' = [entries EXCEPT ![w] = Append(@, entry)]
           /\ writing' = [writing EXCEPT ![w] = entry]
    /\ UNCHANGED <<lines, tail, present, written, failures>>

(* ... then the file.  Text that is there already becomes one line with it. *)
Glued(entry) == IF tail = Blank THEN entry ELSE Junk

(* Mutant: the file is opened for writing, not for appending. *)
EndLineAlone(entry) == lines' = <<entry>> /\ tail' = Blank /\ present' = TRUE

EndLine(entry) ==
    lines' = Append(lines, Glued(entry)) /\ tail' = Blank /\ present' = TRUE

WriteLine(w) ==
    /\ writing[w] # Nothing
    /\ EndLine(writing[w])
    /\ written' = written \cup {writing[w]}
    /\ writing' = [writing EXCEPT ![w] = Nothing]
    /\ UNCHANGED <<entries, issued, failures>>

(* Mutant: the file was opened for writing. *)
InterruptedEmptied(entry) ==
    lines' = <<>> /\ tail' \in {Blank, Junk, entry} /\ present' = TRUE

(* A write that fails or is cut off leaves nothing, perhaps in a new file, a piece
   of the text, the text without its newline, or everything (fsync failed). *)
Interrupted(entry) ==
    \/ UNCHANGED <<lines, tail>> /\ present' \in {present, TRUE}
    \/ UNCHANGED lines /\ tail' \in {Junk, Glued(entry)} /\ present' = TRUE
    \/ EndLine(entry)

(* An OSError leaves append; BusManager drops it.  The memory keeps the entry. *)
AppendFails(w) ==
    /\ failures < MaxFailures
    /\ failures' = failures + 1
    /\ writing[w] # Nothing
    /\ Interrupted(writing[w])
    /\ writing' = [writing EXCEPT ![w] = Nothing]
    /\ UNCHANGED <<entries, issued, written>>

(* The process ends, perhaps within append, and starts with a new LedgerWriter
   on the old file. *)
Crash(w) ==
    /\ failures < MaxFailures
    /\ failures' = failures + 1
    /\ \/ writing[w] = Nothing /\ UNCHANGED <<lines, tail, present>>
       \/ writing[w] # Nothing /\ Interrupted(writing[w])
    /\ entries' = [entries EXCEPT ![w] = <<>>]
    /\ writing' = [writing EXCEPT ![w] = Nothing]
    /\ UNCHANGED <<issued, written>>

(* Mutant: what is read is added to the memory. *)
ReadAllAgain(w) ==
    /\ writing[w] = Nothing
    /\ present
    /\ entries' = [entries EXCEPT ![w] = @ \o Readable]
    /\ UNCHANGED <<lines, tail, writing, issued, present, written, failures>>

(* Without a file the memory stays as it is, and so does everything else. *)
ReadAll(w) ==
    /\ writing[w] = Nothing
    /\ present
    /\ entries' = [entries EXCEPT ![w] = Readable]
    /\ UNCHANGED <<lines, tail, writing, issued, present, written, failures>>

(* Only tests call clear, while nobody appends. *)
Clear(w) ==
    /\ \A v \in Writer : writing[v] = Nothing
    /\ lines' = <<>>
    /\ tail' = Blank
    /\ present' = FALSE
    /\ entries' = [entries EXCEPT ![w] = <<>>]
    /\ written' = {}
    /\ UNCHANGED <<writing, issued, failures>>

Next ==
    \E w \in Writer :
        \/ Remember(w)
        \/ WriteLine(w)
        \/ AppendFails(w)
        \/ Crash(w)
        \/ ReadAll(w)
        \/ Clear(w)

Spec == Init /\ [][Next]_vars

-----------------------------------------------------------------------------
(* Types; only entries are ever taken for entries. *)
TypeOK ==
    /\ lines \in Seq(Entry \cup {Junk})
    /\ tail \in Entry \cup {Blank, Junk}
    /\ entries \in [Writer -> Seq(Entry)]
    /\ \A w \in Writer : writing[w] \in [by : {w}, id : 1 .. issued] \cup {Nothing}
    /\ issued \in 0 .. MaxEntries
    /\ present \in BOOLEAN /\ (~present => lines = <<>> /\ tail = Blank)
    /\ written \subseteq Entry
    /\ failures \in 0 .. MaxFailures

(* A failed append costs at most one entry of an append that was completed:
   the one whose line is glued to the text the failure left behind.  However
   often appends fail and processes crash, no more entries than that are
   missing from what read_all returns. *)
LossBounded == Cardinality(written \ Records) <= failures

(* What a writer remembers, after any number of crashes, failed appends and
   recoveries, has the entries of each author once (rule 1 of
   assert_ledger_invariants) and in the order in which it appended them: what a
   failed append left in the file and in the memory is never taken for two
   entries, nor for a later one. *)
WritersInOrder ==
    \A w \in Writer : \A i, j \in DOMAIN entries[w] :
        i < j /\ entries[w][i].by = entries[w][j].by
            => entries[w][i].id < entries[w][j].id

(* An entry whose append was completed and that can be read stays readable,
   whatever is appended after it.  (An entry whose append failed for its
   newline can be read until the next one is glued to it.) *)
RecordsKept == [][written \cap written' \cap Records \subseteq Records']_vars
=============================================================================
