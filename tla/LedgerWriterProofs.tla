------------------------- MODULE LedgerWriterProofs -------------------------
(***************************************************************************)
(* Theorems about the ledger file, for any number of writers, appends and  *)
(* failures.  The inductive invariant says that an entry on its way is     *)
(* nowhere yet, that the unended text at the end of the file is never an   *)
(* entry whose append was completed, and that a failure which left such    *)
(* text has not cost an entry yet.  For the order of what is recovered the *)
(* loop of read_all is taken apart, by induction on the lines it has read. *)
(***************************************************************************)
EXTENDS LedgerWriter, FiniteSetTheorems, WellFoundedInduction, TLAPS

Typed ==
    /\ lines \in Seq(Entry \cup {Junk})
    /\ tail \in Entry \cup {Blank, Junk}
    /\ writing \in [Writer -> Entry \cup {Nothing}]
    /\ written \subseteq Entry
    /\ IsFiniteSet(written)
    /\ issued \in Nat
    /\ failures \in Nat

(* Entries have the ids that were given out, and an entry on its way is
   its author's only. *)
Numbered ==
    /\ \A entry \in written \cup Records : entry.id <= issued
    /\ \A w \in Writer : writing[w] # Nothing =>
          /\ writing[w].by = w
          /\ writing[w].id <= issued

InFlight == \A w \in Writer : writing[w] \notin written \cup Records

Lost == written \ Records

LossInv ==
    /\ tail \notin written
    /\ Cardinality(Lost) + (IF tail = Blank THEN 0 ELSE 1) <= failures

LedgerInv == Typed /\ Numbered /\ InFlight /\ LossInv

-----------------------------------------------------------------------------
(* What one write does to the file. *)

(* A line of its own is an entry more; a glued one costs the text it is glued
   to. *)
LEMMA EndLineRecords ==
    ASSUME Typed, NEW entry \in Entry, EndLine(entry)
    PROVE  /\ lines' \in Seq(Entry \cup {Junk})
           /\ tail' = Blank
           /\ Records' \subseteq Records \cup {entry}
           /\ Records \ {tail} \subseteq Records'
           /\ tail = Blank => entry \in Records'
  <1>1. /\ lines' = Append(lines, Glued(entry))
        /\ tail' = Blank
        /\ Glued(entry) \in {entry, Junk}
        /\ tail = Blank => Glued(entry) = entry
    BY DEF EndLine, Glued
  <1>2. Glued(entry) \in Entry \cup {Junk}
    BY <1>1
  <1>3. lines' \in Seq(Entry \cup {Junk}) /\ Len(lines') = Len(lines) + 1
    BY <1>1, <1>2 DEF Typed
  <1>4. /\ \A i \in 1 .. Len(lines) : lines'[i] = lines[i]
        /\ lines'[Len(lines) + 1] = Glued(entry)
    BY <1>1, <1>2 DEF Typed
  <1>5. /\ DOMAIN lines = 1 .. Len(lines)
        /\ DOMAIN lines' = 1 .. Len(lines) + 1
        /\ Len(lines) \in Nat
    BY <1>3 DEF Typed
  <1>6. {lines'[i] : i \in DOMAIN lines'}
            = {lines[i] : i \in DOMAIN lines} \cup {Glued(entry)}
    BY <1>4, <1>5
  <1>7. Records' = ({lines[i] : i \in DOMAIN lines} \cup {Glued(entry)}) \cap Entry
    BY <1>1, <1>6, LedgerAssumption DEF Records
  <1> QED
    BY <1>1, <1>3, <1>7, LedgerAssumption DEF Records

(* An interrupted write costs at most the text at the end of the file, and
   leaves there what was there, nothing, a piece, or the new entry. *)
LEMMA InterruptedRecords ==
    ASSUME Typed, NEW entry \in Entry, Interrupted(entry)
    PROVE  /\ lines' \in Seq(Entry \cup {Junk})
           /\ tail' \in {tail, Blank, Junk, entry}
           /\ Records' \subseteq Records \cup {entry}
           /\ Records \ {tail} \subseteq Records'
  <1>1. CASE UNCHANGED <<lines, tail>>
    BY <1>1 DEF Typed, Records
  <1>2. CASE UNCHANGED lines /\ tail' \in {Junk, Glued(entry)}
    BY <1>2, LedgerAssumption DEF Typed, Records, Glued
  <1>3. CASE EndLine(entry)
    BY <1>3, EndLineRecords
  <1> QED
    BY <1>1, <1>2, <1>3 DEF Interrupted

(* Fewer lost entries are no more of them. *)
LEMMA LostType ==
    ASSUME Typed
    PROVE  IsFiniteSet(Lost) /\ Cardinality(Lost) \in Nat
  BY FS_Difference, FS_CardinalityType DEF Typed, Lost

-----------------------------------------------------------------------------
(* The steps. *)

LEMMA RememberStep ==
    ASSUME LedgerInv, NEW w \in Writer, Remember(w)
    PROVE  LedgerInv'
  <1> USE DEF LedgerInv
  <1> DEFINE entry == [by |-> w, id |-> issued + 1]
  <1>1. /\ writing' = [writing EXCEPT ![w] = entry]
        /\ issued' = issued + 1
        /\ UNCHANGED <<lines, tail, written, failures>>
    BY DEF Remember
  <1>2. entry \in Entry /\ entry.by = w /\ entry.id = issued + 1
    BY DEF Typed, Entry
  <1>3. Records' = Records /\ Lost' = Lost
    BY <1>1 DEF Records, Lost
  <1>4. entry \notin written \cup Records
    BY <1>2 DEF Typed, Numbered
  <1> HIDE DEF entry
  <1>5. Typed'
    BY <1>1, <1>2 DEF Typed
  <1>6. Numbered'
    <2>1. \A e \in written \cup Records : e.id \in Nat /\ e.id <= issued
      BY DEF Typed, Numbered, Records, Entry
    <2>2. \A v \in Writer \ {w} : writing'[v] = writing[v]
      BY <1>1 DEF Typed
    <2>3. \A v \in Writer : writing[v] # Nothing => writing[v].id \in Nat
      BY DEF Typed, Entry
    <2>4. writing'[w] = entry
      BY <1>1 DEF Typed
    <2> QED
      BY <1>1, <1>2, <1>3, <2>1, <2>2, <2>3, <2>4 DEF Numbered, Typed
  <1>7. InFlight'
    BY <1>1, <1>3, <1>4 DEF InFlight, Typed
  <1>8. LossInv'
    BY <1>1, <1>3 DEF LossInv
  <1> QED
    BY <1>5, <1>6, <1>7, <1>8

(* What a step does that ends w's append, well or not. *)
LEMMA EndOfAppend ==
    ASSUME LedgerInv, NEW w \in Writer, writing[w] # Nothing,
           writing' = [writing EXCEPT ![w] = Nothing],
           lines' \in Seq(Entry \cup {Junk}),
           tail' \in {tail, Blank, Junk, writing[w]},
           Records' \subseteq Records \cup {writing[w]},
           written' \subseteq written \cup {writing[w]},
           issued' = issued, failures' \in Nat
    PROVE  Typed' /\ Numbered' /\ InFlight'
  <1> USE DEF LedgerInv
  <1>1. writing[w] \in Entry
    BY DEF Typed
  <1>2. written' \subseteq Entry /\ IsFiniteSet(written')
    BY <1>1, FS_AddElement, FS_Subset DEF Typed
  <1>3. Typed'
    BY <1>1, <1>2 DEF Typed
  <1>4. Numbered'
    BY <1>1 DEF Typed, Numbered
  <1>5. InFlight'
    <2>1. ASSUME NEW v \in Writer, v # w PROVE writing'[v] \notin written' \cup Records'
      <3>1. writing'[v] = writing[v] /\ writing[v] \notin written \cup Records
        BY <2>1 DEF Typed, InFlight
      <3>2. writing[v] # writing[w]
        BY <2>1, <1>1, LedgerAssumption DEF Numbered
      <3> QED
        BY <3>1, <3>2
    <2>2. Nothing \notin written' \cup Records'
      BY <1>2, LedgerAssumption DEF Records
    <2>3. writing'[w] = Nothing
      BY DEF Typed
    <2> QED
      BY <2>1, <2>2, <2>3 DEF InFlight
  <1> QED
    BY <1>3, <1>4, <1>5

LEMMA WriteLineStep ==
    ASSUME LedgerInv, NEW w \in Writer, WriteLine(w)
    PROVE  LedgerInv'
  <1> USE DEF LedgerInv
  <1> DEFINE entry == writing[w]
  <1>1. entry \in Entry /\ entry # Nothing
    BY DEF WriteLine, Typed
  <1>2. /\ EndLine(entry)
        /\ written' = written \cup {entry}
        /\ writing' = [writing EXCEPT ![w] = Nothing]
        /\ UNCHANGED <<entries, issued, failures>>
    BY DEF WriteLine
  <1>3. /\ lines' \in Seq(Entry \cup {Junk})
        /\ tail' = Blank
        /\ Records' \subseteq Records \cup {entry}
        /\ Records \ {tail} \subseteq Records'
        /\ tail = Blank => entry \in Records'
    BY <1>1, <1>2, EndLineRecords
  <1>4. Typed' /\ Numbered' /\ InFlight'
    BY <1>1, <1>2, <1>3, EndOfAppend DEF Typed
  <1>5. IsFiniteSet(Lost) /\ Cardinality(Lost) \in Nat
    BY LostType
  <1>6. tail' \notin written'
    BY <1>1, <1>2, <1>3, LedgerAssumption DEF Typed
  <1>7. CASE tail = Blank
    <2>1. Lost' \subseteq Lost
      BY <1>2, <1>3, <1>7 DEF Lost, LossInv
    <2>2. Cardinality(Lost') <= Cardinality(Lost) /\ IsFiniteSet(Lost')
      BY <2>1, <1>5, FS_Subset
    <2>3. Cardinality(Lost') \in Nat
      BY <2>2, FS_CardinalityType
    <2> QED
      BY <1>2, <1>3, <1>4, <1>5, <1>6, <1>7, <2>2, <2>3 DEF LossInv, Typed
  <1>8. CASE tail # Blank
    <2>1. Lost' \subseteq Lost \cup {entry}
      BY <1>2, <1>3 DEF Lost, LossInv
    <2>2. /\ IsFiniteSet(Lost \cup {entry})
          /\ Cardinality(Lost \cup {entry}) <= Cardinality(Lost) + 1
      <3>1. /\ IsFiniteSet(Lost \cup {entry})
            /\ Cardinality(Lost \cup {entry})
                  = IF entry \in Lost THEN Cardinality(Lost) ELSE Cardinality(Lost) + 1
        BY <1>5, FS_AddElement
      <3> QED
        BY <1>5, <3>1
    <2>3. Cardinality(Lost \cup {entry}) \in Nat
      BY <2>2, FS_CardinalityType
    <2>4. Cardinality(Lost') <= Cardinality(Lost \cup {entry}) /\ IsFiniteSet(Lost')
      BY <2>1, <2>2, FS_Subset
    <2>5. Cardinality(Lost') \in Nat
      BY <2>4, FS_CardinalityType
    <2> QED
      BY <1>2, <1>3, <1>4, <1>5, <1>6, <1>8, <2>2, <2>3, <2>4, <2>5 DEF LossInv, Typed
  <1> QED
    BY <1>7, <1>8

(* Both ways an append ends early. *)
LEMMA InterruptedStep ==
    ASSUME LedgerInv, NEW w \in Writer, writing[w] # Nothing,
           Interrupted(writing[w]),
           writing' = [writing EXCEPT ![w] = Nothing],
           failures' = failures + 1, UNCHANGED <<issued, written>>
    PROVE  LedgerInv'
  <1> USE DEF LedgerInv
  <1>1. writing[w] \in Entry
    BY DEF Typed
  <1>2. /\ lines' \in Seq(Entry \cup {Junk})
        /\ tail' \in {tail, Blank, Junk, writing[w]}
        /\ Records' \subseteq Records \cup {writing[w]}
        /\ Records \ {tail} \subseteq Records'
    BY <1>1, InterruptedRecords
  <1>3. Typed' /\ Numbered' /\ InFlight'
    <2>1. issued' = issued /\ failures' \in Nat /\ written' \subseteq written \cup {writing[w]}
      BY DEF Typed
    <2> QED
      BY <1>2, <2>1, EndOfAppend
  <1>4. tail' \notin written'
    BY <1>2, LedgerAssumption DEF Typed, InFlight, LossInv
  <1>5. Lost' \subseteq Lost
    BY <1>2 DEF Lost, LossInv
  <1>6. IsFiniteSet(Lost) /\ Cardinality(Lost) \in Nat
    BY LostType
  <1>7. Cardinality(Lost') <= Cardinality(Lost) /\ IsFiniteSet(Lost')
    BY <1>5, <1>6, FS_Subset
  <1>8. Cardinality(Lost') \in Nat
    BY <1>7, FS_CardinalityType
  <1> QED
    BY <1>3, <1>4, <1>6, <1>7, <1>8 DEF LossInv, Typed

(* A process that dies outside append leaves the file as it is. *)
LEMMA IdleCrashStep ==
    ASSUME LedgerInv, NEW w \in Writer, writing[w] = Nothing,
           writing' = [writing EXCEPT ![w] = Nothing],
           failures' = failures + 1, UNCHANGED <<lines, tail, issued, written>>
    PROVE  LedgerInv'
  <1> USE DEF LedgerInv
  <1>1. writing' = writing /\ Records' = Records /\ Lost' = Lost
    BY DEF Typed, Records, Lost
  <1>2. Cardinality(Lost) \in Nat
    BY LostType
  <1> QED
    BY <1>1, <1>2 DEF Typed, Numbered, InFlight, LossInv

LEMMA ClearStep ==
    ASSUME LedgerInv, NEW w \in Writer, Clear(w)
    PROVE  LedgerInv'
  <1> USE DEF LedgerInv
  <1>1. Records' = {} /\ Lost' = {}
    BY LedgerAssumption DEF Clear, Records, Lost
  <1>2. Cardinality({}) = 0 /\ IsFiniteSet({})
    BY FS_EmptySet
  <1> QED
    BY <1>1, <1>2 DEF Clear, Typed, Numbered, InFlight, LossInv

LEMMA LedgerInvInductive == LedgerInv /\ [Next]_vars => LedgerInv'
  <1> SUFFICES ASSUME LedgerInv, [Next]_vars
               PROVE  LedgerInv'
    OBVIOUS
  <1>1. ASSUME NEW w \in Writer, Remember(w) PROVE LedgerInv'
    BY <1>1, RememberStep
  <1>2. ASSUME NEW w \in Writer, WriteLine(w) PROVE LedgerInv'
    BY <1>2, WriteLineStep
  <1>3. ASSUME NEW w \in Writer, AppendFails(w) PROVE LedgerInv'
    BY <1>3, InterruptedStep DEF AppendFails
  <1>4. ASSUME NEW w \in Writer, Crash(w) PROVE LedgerInv'
    BY <1>4, InterruptedStep, IdleCrashStep DEF Crash
  <1>5. ASSUME NEW w \in Writer, ReadAll(w) PROVE LedgerInv'
    BY <1>5 DEF ReadAll, LedgerInv, Typed, Numbered, InFlight, LossInv, Lost, Records
  <1>6. ASSUME NEW w \in Writer, Clear(w) PROVE LedgerInv'
    BY <1>6, ClearStep
  <1>7. CASE UNCHANGED vars
    BY <1>7 DEF vars, LedgerInv, Typed, Numbered, InFlight, LossInv, Lost, Records
  <1> QED
    BY <1>1, <1>2, <1>3, <1>4, <1>5, <1>6, <1>7 DEF Next

LEMMA LedgerInvCorrect == Spec => []LedgerInv
  <1>1. Init => LedgerInv
    <2> SUFFICES ASSUME Init PROVE LedgerInv
      OBVIOUS
    <2>1. Records = {} /\ Lost = {}
      BY LedgerAssumption DEF Init, Records, Lost
    <2>2. Cardinality({}) = 0 /\ IsFiniteSet({})
      BY FS_EmptySet
    <2> QED
      BY <2>1, <2>2 DEF Init, LedgerInv, Typed, Numbered, InFlight, LossInv
  <1> QED
    BY <1>1, LedgerInvInductive, PTL DEF Spec

(* Never are more completed appends missing from what read_all returns than
   appends failed and processes crashed. *)
THEOREM LossIsBounded == Spec => []LossBounded
  <1>1. LedgerInv => LossBounded
    <2> SUFFICES ASSUME LedgerInv PROVE LossBounded
      OBVIOUS
    <2>1. Cardinality(Lost) \in Nat
      BY LostType DEF LedgerInv
    <2> QED
      BY <2>1 DEF LedgerInv, LossInv, LossBounded, Lost, Typed
  <1> QED
    BY <1>1, LedgerInvCorrect, PTL

(* An entry whose append was completed and that can be read stays readable:
   only the unended text at the end of the file is ever glued to. *)
THEOREM RecordsAreKept == Spec => RecordsKept
  <1>1. LedgerInv /\ [Next]_vars
            => [written \cap written' \cap Records \subseteq Records']_vars
    <2> SUFFICES ASSUME LedgerInv, [Next]_vars
                 PROVE  written \cap written' \cap Records \subseteq Records'
      OBVIOUS
    <2>1. Typed /\ tail \notin written
      BY DEF LedgerInv, LossInv
    <2>2. ASSUME NEW w \in Writer, writing[w] # Nothing,
                 Interrupted(writing[w]) \/ EndLine(writing[w])
          PROVE  Records \ {tail} \subseteq Records'
      BY <2>1, <2>2, InterruptedRecords, EndLineRecords DEF Typed
    <2>3. ASSUME NEW w \in Writer, WriteLine(w) \/ AppendFails(w)
          PROVE  written \cap written' \cap Records \subseteq Records'
      BY <2>1, <2>2, <2>3 DEF WriteLine, AppendFails
    <2>4. ASSUME NEW w \in Writer, Crash(w)
          PROVE  written \cap written' \cap Records \subseteq Records'
      BY <2>1, <2>2, <2>4 DEF Crash, Records
    <2>5. ASSUME NEW w \in Writer, Remember(w) \/ ReadAll(w)
          PROVE  written \cap written' \cap Records \subseteq Records'
      BY <2>5 DEF Remember, ReadAll, Records
    <2>6. ASSUME NEW w \in Writer, Clear(w)
          PROVE  written \cap written' \cap Records \subseteq Records'
      BY <2>6 DEF Clear
    <2>7. CASE UNCHANGED vars
      BY <2>7 DEF vars, Records
    <2> QED
      BY <2>3, <2>4, <2>5, <2>6, <2>7 DEF Next
  <1> QED
    BY <1>1, LedgerInvCorrect, PTL DEF Spec, RecordsKept


-----------------------------------------------------------------------------
(* Induction over the naturals, on a set instead of a formula. *)
LEMMA LeastOf ==
    ASSUME NEW T, T \subseteq Nat, T # {}
    PROVE  \E x \in T : \A y \in T : x <= y
  <1>1. IsWellFoundedOn(OpToRel(<, Nat), Nat)
    BY NatLessThanWellFounded, Zenon
  <1>2. \E x \in T : \A y \in T : ~ (<<y, x>> \in OpToRel(<, Nat))
    BY ONLY <1>1, WFMin, T \subseteq Nat, T # {}, Zenon
  <1>3. PICK x \in T : \A y \in T : ~ (<<y, x>> \in OpToRel(<, Nat))
    BY <1>2, Zenon
  <1>4. ASSUME NEW y \in T, y < x PROVE FALSE
    <2>1. <<y, x>> \in OpToRel(<, Nat)
      BY <1>4 DEF OpToRel
    <2> QED
      BY <2>1, <1>3, Zenon
  <1> QED
    BY <1>4

LEMMA Induction ==
    ASSUME NEW G, 0 \in G, \A n \in Nat : n \in G => n + 1 \in G
    PROVE  Nat \subseteq G
  <1> SUFFICES ASSUME Nat \ G # {} PROVE FALSE
    OBVIOUS
  <1>1. PICK x \in Nat \ G : \A y \in Nat \ G : x <= y
    BY LeastOf
  <1>2. x # 0 /\ x - 1 \in Nat /\ x - 1 \notin Nat \ G
    BY <1>1
  <1>3. x - 1 \in G /\ (x - 1) + 1 = x
    BY <1>2
  <1> QED
    BY <1>2, <1>3

-----------------------------------------------------------------------------
(* The loop of read_all.  What one more line gives: *)
More(text, n, before) ==
    IF text[n] \in Entry THEN Append(before, text[n]) ELSE before

Loop(text, m, kept) ==
    kept = [n \in 0 .. m |-> IF n = 0 THEN <<>> ELSE More(text, n, kept[n - 1])]

LEMMA LoopExists ==
    ASSUME NEW text
    PROVE  \A m \in Nat : \E kept : Loop(text, m, kept)
  <1> DEFINE G == {m \in Nat : \E kept : Loop(text, m, kept)}
  <1>1. 0 \in G
    <2> DEFINE kept == [n \in 0 .. 0 |-> <<>>]
    <2>1. \A n \in 0 .. 0 : n = 0
      OBVIOUS
    <2>2. Loop(text, 0, kept)
      BY <2>1 DEF Loop
    <2> QED
      BY <2>2
  <1>2. ASSUME NEW m \in Nat, m \in G PROVE m + 1 \in G
    <2>1. PICK kept : Loop(text, m, kept)
      BY <1>2
    <2> DEFINE longer == [n \in 0 .. m + 1 |->
                             IF n = m + 1 THEN More(text, n, kept[m]) ELSE kept[n]]
    <2>2. ASSUME NEW n \in 0 .. m + 1
          PROVE  longer[n] = IF n = 0 THEN <<>> ELSE More(text, n, longer[n - 1])
      <3>1. CASE n = m + 1
        BY <3>1
      <3>2. CASE n = 0
        BY <2>1, <3>2 DEF Loop
      <3>3. CASE n \in 1 .. m
        <4>1. n \in 0 .. m /\ n - 1 \in 0 .. m + 1 /\ n - 1 # m + 1 /\ n # 0 /\ n # m + 1
          BY <3>3
        <4>2. longer[n] = kept[n] /\ longer[n - 1] = kept[n - 1]
          BY <4>1
        <4>3. kept[n] = More(text, n, kept[n - 1])
          BY <2>1, <4>1 DEF Loop
        <4> QED
          BY <4>1, <4>2, <4>3
      <3> QED
        BY <3>1, <3>2, <3>3
    <2> HIDE DEF longer
    <2>3. longer = [n \in 0 .. m + 1 |-> longer[n]]
      BY DEF longer
    <2>4. Loop(text, m + 1, longer)
      BY <2>2, <2>3 DEF Loop
    <2> QED
      BY <2>4
  <1> HIDE DEF G
  <1>3. Nat \subseteq G
    BY <1>1, <1>2, Induction
  <1> QED
    BY <1>3 DEF G

LEMMA KeptIsLoop ==
    ASSUME NEW text, Len(text) \in Nat
    PROVE  Loop(text, Len(text), Kept(text))
  <1>1. \E kept : Loop(text, Len(text), kept)
    BY LoopExists
  <1>2. Kept(text) = CHOOSE kept : Loop(text, Len(text), kept)
    BY DEF Kept, Loop, More
  <1> QED
    BY <1>1, <1>2


(* What the loop keeps of the first n lines are entries among them, in their
   order: places[i] is the line of the i-th. *)
Picked(text, n, some) ==
    /\ some \in Seq(Entry)
    /\ \E places \in [1 .. Len(some) -> 1 .. n] :
          /\ \A i \in 1 .. Len(some) : some[i] = text[places[i]]
          /\ \A i, j \in 1 .. Len(some) : i < j => places[i] < places[j]

LEMMA MorePicked ==
    ASSUME NEW text, NEW n \in Nat, NEW before, Picked(text, n, before)
    PROVE  Picked(text, n + 1, More(text, n + 1, before))
  <1>1. before \in Seq(Entry) /\ Len(before) \in Nat
    BY DEF Picked
  <1>2. PICK places \in [1 .. Len(before) -> 1 .. n] :
            /\ \A i \in 1 .. Len(before) : before[i] = text[places[i]]
            /\ \A i, j \in 1 .. Len(before) : i < j => places[i] < places[j]
    BY DEF Picked
  <1>3. CASE text[n + 1] \notin Entry
    <2>1. places \in [1 .. Len(before) -> 1 .. n + 1]
      BY <1>1
    <2>2. More(text, n + 1, before) = before
      BY <1>3 DEF More
    <2> QED
      BY <1>1, <1>2, <2>1, <2>2 DEF Picked
  <1>4. CASE text[n + 1] \in Entry
    <2> DEFINE after == Append(before, text[n + 1])
               more == [i \in 1 .. Len(before) + 1 |->
                           IF i = Len(before) + 1 THEN n + 1 ELSE places[i]]
    <2>1. /\ after \in Seq(Entry) /\ Len(after) = Len(before) + 1
          /\ \A i \in 1 .. Len(before) : after[i] = before[i]
          /\ after[Len(before) + 1] = text[n + 1]
      BY <1>1, <1>4
    <2> HIDE DEF after
    <2>2. more \in [1 .. Len(after) -> 1 .. n + 1]
      BY <1>1, <2>1
    <2>3. ASSUME NEW i \in 1 .. Len(after) PROVE after[i] = text[more[i]]
      BY <1>1, <1>2, <2>1
    <2>4. ASSUME NEW i \in 1 .. Len(after), NEW j \in 1 .. Len(after), i < j
          PROVE  more[i] < more[j]
      <3>1. i \in 1 .. Len(before) /\ more[i] = places[i] /\ places[i] \in 1 .. n
        BY <1>1, <2>1, <2>4
      <3>2. CASE j = Len(before) + 1
        BY <3>1, <3>2, <1>1
      <3>3. CASE j \in 1 .. Len(before)
        BY <3>1, <3>3, <1>1, <1>2, <2>4
      <3> QED
        BY <3>2, <3>3, <2>1, <1>1
    <2> HIDE DEF more
    <2>5. Picked(text, n + 1, after)
      BY <2>1, <2>2, <2>3, <2>4 DEF Picked
    <2> QED
      BY <2>5, <1>4 DEF More, after
  <1> QED
    BY <1>3, <1>4

LEMMA KeptPicked ==
    ASSUME NEW text, Len(text) \in Nat
    PROVE  Picked(text, Len(text), Kept(text)[Len(text)])
  <1> DEFINE kept == Kept(text)
             G == {n \in Nat : n <= Len(text) => Picked(text, n, kept[n])}
  <1>1. Loop(text, Len(text), kept)
    BY KeptIsLoop
  <1> HIDE DEF kept
  <1>2. 0 \in G
    <2>1. kept[0] = <<>>
      BY <1>1 DEF Loop
    <2>2. Picked(text, 0, <<>>)
      <3>1. <<>> \in Seq(Entry) /\ 1 .. Len(<<>>) = {}
        OBVIOUS
      <3>2. \E places : places \in [{} -> 1 .. 0]
        <4>1. [i \in {} |-> 0] \in [{} -> 1 .. 0]
          OBVIOUS
        <4> QED
          BY <4>1
      <3> QED
        BY <3>1, <3>2 DEF Picked
    <2> QED
      BY <2>1, <2>2
  <1>3. ASSUME NEW n \in Nat, n \in G PROVE n + 1 \in G
    <2> SUFFICES ASSUME n + 1 <= Len(text) PROVE Picked(text, n + 1, kept[n + 1])
      OBVIOUS
    <2>1. Picked(text, n, kept[n])
      BY <1>3
    <2>2. kept[n + 1] = More(text, n + 1, kept[n])
      BY <1>1 DEF Loop
    <2> QED
      BY <2>1, <2>2, MorePicked
  <1> HIDE DEF G
  <1>4. Len(text) \in G
    BY <1>2, <1>3, Induction
  <1> QED
    BY <1>4 DEF G, kept

-----------------------------------------------------------------------------
(* The order of the entries.  Ordered is WritersInOrder of one sequence, or of a
   text with lines that are no entries. *)
Ordered(text) ==
    \A i, j \in DOMAIN text :
        i < j /\ text[i] \in Entry /\ text[j] \in Entry /\ text[i].by = text[j].by
            => text[i].id < text[j].id

LEMMA PickedOrdered ==
    ASSUME NEW text \in Seq(Entry \cup {Blank, Junk}), Ordered(text), NEW some,
           Picked(text, Len(text), some)
    PROVE  Ordered(some)
  <1>1. some \in Seq(Entry) /\ Len(some) \in Nat /\ DOMAIN some = 1 .. Len(some)
    BY DEF Picked
  <1>2. PICK places \in [1 .. Len(some) -> 1 .. Len(text)] :
            /\ \A i \in 1 .. Len(some) : some[i] = text[places[i]]
            /\ \A i, j \in 1 .. Len(some) : i < j => places[i] < places[j]
    BY DEF Picked
  <1>3. ASSUME NEW i \in 1 .. Len(some), NEW j \in 1 .. Len(some), i < j,
               some[i].by = some[j].by
        PROVE  some[i].id < some[j].id
    <2>1. /\ places[i] \in DOMAIN text /\ places[j] \in DOMAIN text
          /\ places[i] < places[j]
          /\ some[i] = text[places[i]] /\ some[j] = text[places[j]]
          /\ some[i] \in Entry /\ some[j] \in Entry
      BY <1>1, <1>2, <1>3
    <2> QED
      BY <2>1, <1>3 DEF Ordered
  <1> QED
    BY <1>1, <1>3 DEF Ordered

(* A line at the end keeps the order if it is no entry, or later than those of
   its author. *)
LEMMA AppendOrdered ==
    ASSUME NEW S, NEW text \in Seq(S), NEW line \in S, Ordered(text),
           line \in Entry => \A i \in 1 .. Len(text) :
               text[i] \in Entry /\ text[i].by = line.by => text[i].id < line.id
    PROVE  Ordered(Append(text, line))
  <1> DEFINE after == Append(text, line)
  <1>1. /\ after \in Seq(S) /\ Len(after) = Len(text) + 1 /\ Len(text) \in Nat
        /\ DOMAIN text = 1 .. Len(text) /\ DOMAIN after = 1 .. Len(text) + 1
        /\ \A i \in 1 .. Len(text) : after[i] = text[i]
        /\ after[Len(text) + 1] = line
    OBVIOUS
  <1> HIDE DEF after
  <1>2. ASSUME NEW i \in DOMAIN after, NEW j \in DOMAIN after, i < j,
               after[i] \in Entry, after[j] \in Entry, after[i].by = after[j].by
        PROVE  after[i].id < after[j].id
    <2>1. i \in 1 .. Len(text) /\ after[i] = text[i]
      BY <1>1, <1>2
    <2>2. CASE j = Len(text) + 1
      BY <1>1, <1>2, <2>1, <2>2
    <2>3. CASE j \in 1 .. Len(text)
      BY <1>1, <1>2, <2>1, <2>3 DEF Ordered
    <2> QED
      BY <1>1, <2>2, <2>3
  <1>3. Ordered(after)
    BY <1>2 DEF Ordered
  <1> QED
    BY <1>3 DEF after


File == Append(lines, tail)

(* The file is in order, what a writer remembers is in order and not from the
   future, and an entry on its way is later than all its author has in the file. *)
OrderInv ==
    /\ entries \in [Writer -> Seq(Entry)]
    /\ \A w \in Writer : \A i \in 1 .. Len(entries[w]) : entries[w][i].id <= issued
    /\ \A w \in Writer : Ordered(entries[w])
    /\ Ordered(File)
    /\ \A w \in Writer : writing[w] # Nothing =>
          \A entry \in Records : entry.by = w => entry.id < writing[w].id

LEMMA FileLines ==
    ASSUME Typed
    PROVE  /\ File \in Seq(Entry \cup {Blank, Junk})
           /\ Len(lines) \in Nat /\ Len(File) = Len(lines) + 1
           /\ DOMAIN lines = 1 .. Len(lines) /\ DOMAIN File = 1 .. Len(File)
           /\ \A i \in DOMAIN lines : File[i] = lines[i]
           /\ \A i \in DOMAIN File : File[i] \in Entry => File[i] \in Records
  <1>1. /\ lines \in Seq(Entry \cup {Blank, Junk}) /\ tail \in Entry \cup {Blank, Junk}
    BY DEF Typed
  <1>2. /\ File \in Seq(Entry \cup {Blank, Junk})
        /\ Len(lines) \in Nat /\ Len(File) = Len(lines) + 1
        /\ DOMAIN lines = 1 .. Len(lines) /\ DOMAIN File = 1 .. Len(File)
        /\ \A i \in 1 .. Len(lines) : File[i] = lines[i]
        /\ File[Len(lines) + 1] = tail
    BY <1>1 DEF File
  <1>3. ASSUME NEW i \in DOMAIN File, File[i] \in Entry PROVE File[i] \in Records
    <2>1. CASE i \in 1 .. Len(lines)
      BY <1>2, <1>3, <2>1 DEF Records
    <2>2. CASE i = Len(lines) + 1
      BY <1>2, <1>3, <2>2 DEF Records
    <2> QED
      BY <1>2, <2>1, <2>2
  <1> QED
    BY <1>2, <1>3

(* A write, whole or interrupted, of an entry later than those of its author
   leaves the file in order. *)
LEMMA WriteOrdered ==
    ASSUME Typed, Ordered(File), NEW entry \in Entry,
           \A e \in Records : e.by = entry.by => e.id < entry.id,
           Interrupted(entry)
    PROVE  Ordered(File')
  <1> DEFINE Line == Entry \cup {Blank, Junk}
  <1>1. /\ lines \in Seq(Line) /\ Len(lines) \in Nat /\ DOMAIN lines = 1 .. Len(lines)
        /\ \A i \in 1 .. Len(lines) : lines[i] \in Entry => lines[i] \in Records
    BY FileLines DEF Typed, Records
  <1>2. Ordered(lines)
    BY FileLines DEF Ordered
  <1>3. Blank \in Line \ Entry /\ Junk \in Line \ Entry
    BY LedgerAssumption
  <1>4. ASSUME NEW line \in {Junk, entry}
        PROVE  Append(lines, line) \in Seq(Line) /\ Ordered(Append(lines, line))
    <2>1. line \in Line
      OBVIOUS
    <2>2. line \in Entry => \A i \in 1 .. Len(lines) :
              lines[i] \in Entry /\ lines[i].by = line.by => lines[i].id < line.id
      BY <1>1, <1>3, <1>4
    <2>3. Ordered(Append(lines, line))
      BY <1>1, <1>2, <2>1, <2>2, AppendOrdered
    <2> QED
      BY <1>1, <2>1, <2>3
  <1>5. Glued(entry) \in {Junk, entry}
    BY DEF Glued
  <1>6. CASE UNCHANGED <<lines, tail>>
    BY <1>6 DEF File
  <1>7. CASE UNCHANGED lines /\ tail' \in {Junk, Glued(entry)}
    BY <1>4, <1>5, <1>7 DEF File
  <1>8. CASE EndLine(entry)
    <2> DEFINE longer == Append(lines, Glued(entry))
    <2>1. longer \in Seq(Line) /\ Ordered(longer)
      BY <1>4, <1>5
    <2> HIDE DEF longer
    <2>2. Ordered(Append(longer, Blank))
      BY <1>3, <2>1, AppendOrdered
    <2>3. File' = Append(longer, Blank)
      BY <1>8 DEF EndLine, File, longer
    <2> QED
      BY <2>2, <2>3
  <1> QED
    BY <1>6, <1>7, <1>8 DEF Interrupted

(* What read_all returns is in order and not from the future. *)
LEMMA ReadableOrdered ==
    ASSUME Typed, Numbered, Ordered(File)
    PROVE  /\ Readable \in Seq(Entry)
           /\ \A i \in 1 .. Len(Readable) : Readable[i].id <= issued
           /\ Ordered(Readable)
  <1>1. /\ File \in Seq(Entry \cup {Blank, Junk})
        /\ Len(File) = Len(lines) + 1 /\ DOMAIN File = 1 .. Len(File)
        /\ \A i \in DOMAIN File : File[i] \in Entry => File[i] \in Records
    BY FileLines
  <1>2. Readable = Kept(File)[Len(File)]
    BY <1>1 DEF Readable, File
  <1>3. Picked(File, Len(File), Readable)
    <2>1. Len(File) \in Nat
      BY <1>1
    <2> QED
      BY <1>2, <2>1, KeptPicked
  <1>4. Readable \in Seq(Entry) /\ Ordered(Readable)
    BY <1>1, <1>3, PickedOrdered DEF Picked
  <1>5. ASSUME NEW i \in 1 .. Len(Readable) PROVE Readable[i].id <= issued
    <2>1. Readable[i] \in Entry /\ \E j \in DOMAIN File : Readable[i] = File[j]
      BY <1>1, <1>3, <1>4 DEF Picked
    <2> QED
      BY <1>1, <2>1 DEF Numbered
  <1> QED
    BY <1>4, <1>5

LEMMA RememberOrder ==
    ASSUME LedgerInv, OrderInv, NEW w \in Writer, Remember(w)
    PROVE  OrderInv'
  <1> DEFINE entry == [by |-> w, id |-> issued + 1]
  <1>1. /\ writing' = [writing EXCEPT ![w] = entry]
        /\ entries' = [entries EXCEPT ![w] = Append(entries[w], entry)]
        /\ issued' = issued + 1
        /\ File' = File /\ Records' = Records
    BY DEF Remember, File, Records
  <1>2. entry \in Entry /\ entry.by = w /\ entry.id = issued + 1 /\ issued \in Nat
    BY DEF LedgerInv, Typed, Entry
  <1> HIDE DEF entry
  <1>3. /\ entries[w] \in Seq(Entry)
        /\ \A i \in 1 .. Len(entries[w]) : entries[w][i] \in Entry /\ entries[w][i].id <= issued
    BY DEF OrderInv
  <1>4. Ordered(Append(entries[w], entry))
    <2>1. \A i \in 1 .. Len(entries[w]) : entries[w][i].id < entry.id
      BY <1>2, <1>3 DEF Entry
    <2> QED
      BY <1>2, <1>3, <2>1, AppendOrdered DEF OrderInv
  <1>5. /\ Append(entries[w], entry) \in Seq(Entry)
        /\ \A i \in 1 .. Len(Append(entries[w], entry)) :
               Append(entries[w], entry)[i].id <= issued + 1
    BY <1>2, <1>3 DEF Entry
  <1>6. ASSUME NEW v \in Writer
        PROVE  /\ entries'[v] \in Seq(Entry)
               /\ \A i \in 1 .. Len(entries'[v]) : entries'[v][i].id <= issued'
               /\ Ordered(entries'[v])
    <2>1. CASE v = w
      <3>1. entries'[v] = Append(entries[w], entry)
        BY <1>1, <2>1 DEF OrderInv
      <3> QED
        BY <1>1, <1>4, <1>5, <3>1
    <2>2. CASE v # w
      <3>1. entries'[v] = entries[v]
        BY <1>1, <2>2 DEF OrderInv
      <3>2. \A i \in 1 .. Len(entries[v]) : entries[v][i].id \in Nat
        <4>1. entries[v] \in Seq(Entry)
          BY DEF OrderInv
        <4>2. \A i \in 1 .. Len(entries[v]) : entries[v][i] \in Entry
          BY <4>1
        <4> QED
          BY <4>2 DEF Entry
      <3> QED
        BY <1>1, <1>2, <3>1, <3>2 DEF OrderInv
    <2> QED
      BY <2>1, <2>2
  <1>7. ASSUME NEW v \in Writer, writing'[v] # Nothing, NEW e \in Records, e.by = v
        PROVE  e.id < writing'[v].id
    <2>1. e.id \in Nat /\ e.id <= issued
      BY DEF LedgerInv, Numbered, Records, Entry
    <2>2. CASE v = w
      BY <1>1, <1>2, <2>1, <2>2 DEF LedgerInv, Typed
    <2>3. CASE v # w
      BY <1>1, <1>7, <2>3 DEF LedgerInv, Typed, OrderInv
    <2> QED
      BY <2>2, <2>3
  <1>8. entries' \in [Writer -> Seq(Entry)]
    BY <1>1, <1>5 DEF OrderInv
  <1> QED
    BY <1>1, <1>6, <1>7, <1>8 DEF OrderInv

(* The end of an append, well or not: the memory is as it was or empty. *)
LEMMA WriteOrder ==
    ASSUME LedgerInv, OrderInv, NEW w \in Writer, writing[w] # Nothing,
           Interrupted(writing[w]),
           writing' = [writing EXCEPT ![w] = Nothing],
           entries' = entries \/ entries' = [entries EXCEPT ![w] = <<>>],
           issued' = issued
    PROVE  OrderInv'
  <1>1. Typed /\ writing[w] \in Entry /\ writing[w].by = w
    BY DEF LedgerInv, Typed, Numbered
  <1>2. Ordered(File')
    BY <1>1, WriteOrdered DEF OrderInv
  <1>3. Records' \subseteq Records \cup {writing[w]}
    BY <1>1, InterruptedRecords
  <1>4. ASSUME NEW v \in Writer, writing'[v] # Nothing, NEW e \in Records', e.by = v
        PROVE  e.id < writing'[v].id
    BY <1>1, <1>3, <1>4 DEF Typed, OrderInv
  <1>5. /\ entries' \in [Writer -> Seq(Entry)]
        /\ \A v \in Writer : entries'[v] \in {entries[v], <<>>}
    <2>1. entries \in [Writer -> Seq(Entry)] /\ <<>> \in Seq(Entry)
      BY DEF OrderInv
    <2>2. CASE entries' = entries
      BY <2>1, <2>2
    <2>3. CASE entries' = [entries EXCEPT ![w] = <<>>]
      BY <2>1, <2>3
    <2> QED
      BY <2>2, <2>3
  <1>6. \A v \in Writer : Ordered(entries'[v])
    <2>1. Ordered(<<>>)
      BY DEF Ordered
    <2> QED
      BY <1>5, <2>1 DEF OrderInv
  <1>7. \A v \in Writer : \A i \in 1 .. Len(entries'[v]) : entries'[v][i].id <= issued'
    BY <1>5 DEF OrderInv
  <1> QED
    BY <1>2, <1>4, <1>5, <1>6, <1>7 DEF OrderInv

LEMMA OrderStep == LedgerInv /\ OrderInv /\ [Next]_vars => OrderInv'
  <1> SUFFICES ASSUME LedgerInv, OrderInv, [Next]_vars PROVE OrderInv'
    OBVIOUS
  <1>0. Typed /\ Numbered
    BY DEF LedgerInv
  <1>1. ASSUME NEW w \in Writer, Remember(w) PROVE OrderInv'
    BY <1>1, RememberOrder
  <1>2. ASSUME NEW w \in Writer, WriteLine(w) PROVE OrderInv'
    BY <1>2, WriteOrder DEF WriteLine, Interrupted
  <1>3. ASSUME NEW w \in Writer, AppendFails(w) PROVE OrderInv'
    BY <1>3, WriteOrder DEF AppendFails
  <1>4. ASSUME NEW w \in Writer, NEW text \in Seq(Entry),
               entries' = [entries EXCEPT ![w] = text], issued' = issued, writing' = writing,
               Ordered(text), \A i \in 1 .. Len(text) : text[i].id <= issued,
               Records' \subseteq Records, Ordered(File')
        PROVE  OrderInv'
    <2>1. \A v \in Writer : entries'[v] \in {entries[v], text}
      BY <1>4 DEF OrderInv
    <2> QED
      BY <1>4, <2>1 DEF OrderInv
  <1>5. <<>> \in Seq(Entry) /\ Ordered(<<>>) /\ \A i \in 1 .. Len(<<>>) : <<>>[i].id <= issued
    BY DEF Ordered
  <1>6. ASSUME NEW w \in Writer, Crash(w) PROVE OrderInv'
    <2>1. CASE writing[w] # Nothing
      BY <1>6, <2>1, WriteOrder DEF Crash
    <2>2. CASE writing[w] = Nothing
      <3>1. /\ writing' = writing /\ entries' = [entries EXCEPT ![w] = <<>>] /\ issued' = issued
            /\ File' = File /\ Records' = Records
        BY <1>6, <2>2, <1>0 DEF Crash, Typed, File, Records
      <3> QED
        BY <3>1, <1>4, <1>5 DEF OrderInv
    <2> QED
      BY <2>1, <2>2
  <1>7. ASSUME NEW w \in Writer, ReadAll(w) PROVE OrderInv'
    <2>1. /\ writing' = writing /\ entries' = [entries EXCEPT ![w] = Readable] /\ issued' = issued
          /\ File' = File /\ Records' = Records
      BY <1>7 DEF ReadAll, File, Records
    <2>2. /\ Readable \in Seq(Entry) /\ Ordered(Readable)
          /\ \A i \in 1 .. Len(Readable) : Readable[i].id <= issued
      BY <1>0, ReadableOrdered DEF OrderInv
    <2> QED
      BY <2>1, <2>2, <1>4 DEF OrderInv
  <1>8. ASSUME NEW w \in Writer, Clear(w) PROVE OrderInv'
    <2>1. /\ writing' = writing /\ entries' = [entries EXCEPT ![w] = <<>>] /\ issued' = issued
          /\ lines' = <<>> /\ tail' = Blank
      BY <1>8 DEF Clear
    <2>2. Records' = {}
      BY <2>1, LedgerAssumption DEF Records
    <2>3. Ordered(Append(<<>>, Blank))
      <3>1. <<>> \in Seq({Blank}) /\ Blank \notin Entry
        BY LedgerAssumption
      <3> QED
        BY <3>1, <1>5, AppendOrdered
    <2> QED
      BY <2>1, <2>2, <2>3, <1>4, <1>5 DEF File
  <1>9. CASE UNCHANGED vars
    <2>1. UNCHANGED <<entries, writing, issued>> /\ File' = File /\ Records' = Records
      BY <1>9 DEF vars, File, Records
    <2> QED
      BY <2>1 DEF OrderInv
  <1> QED
    BY <1>1, <1>2, <1>3, <1>6, <1>7, <1>8, <1>9 DEF Next

LEMMA OrderInvCorrect == Spec => []OrderInv
  <1>1. Init => OrderInv
    <2> SUFFICES ASSUME Init PROVE OrderInv
      OBVIOUS
    <2>1. Records = {}
      BY LedgerAssumption DEF Init, Records
    <2>2. <<>> \in Seq({Blank}) /\ Ordered(<<>>) /\ Blank \notin Entry
      BY LedgerAssumption DEF Ordered
    <2>3. Ordered(Append(<<>>, Blank))
      BY <2>2, AppendOrdered
    <2>4. Ordered(File)
      BY <2>3 DEF Init, File
    <2>5. /\ entries \in [Writer -> Seq(Entry)]
          /\ \A w \in Writer : entries[w] = <<>> /\ 1 .. Len(entries[w]) = {}
          /\ \A w \in Writer : Ordered(entries[w])
      BY <2>2 DEF Init
    <2> QED
      BY <2>1, <2>4, <2>5 DEF OrderInv
  <1> QED
    BY <1>1, OrderStep, LedgerInvCorrect, PTL DEF Spec


(* What a writer remembers has the entries of each author once and in the order
   in which it appended them, after any number of crashes and recoveries from the file. *)
THEOREM WritersStayInOrder == Spec => []WritersInOrder
  <1>1. OrderInv => WritersInOrder
    <2> SUFFICES ASSUME OrderInv, NEW w \in Writer,
                        NEW i \in DOMAIN entries[w], NEW j \in DOMAIN entries[w],
                        i < j, entries[w][i].by = entries[w][j].by
                 PROVE  entries[w][i].id < entries[w][j].id
      BY DEF WritersInOrder
    <2>1. entries[w] \in Seq(Entry) /\ Ordered(entries[w])
      BY DEF OrderInv
    <2>2. entries[w][i] \in Entry /\ entries[w][j] \in Entry
      BY <2>1
    <2> QED
      BY <2>1, <2>2 DEF Ordered
  <1> QED
    BY <1>1, OrderInvCorrect, PTL

-----------------------------------------------------------------------------
(* The types that are left. *)
Bounded ==
    /\ issued \in 0 .. MaxEntries /\ failures \in 0 .. MaxFailures
    /\ \A w \in Writer : writing[w] # Nothing => writing[w].id > 0

LEMMA BoundedStep ==
    ASSUME LedgerInv, Bounded, [Next]_vars
    PROVE  Bounded'
  <1> USE LedgerAssumption DEF Bounded
  <1>1. writing \in [Writer -> Entry \cup {Nothing}]
    BY DEF LedgerInv, Typed
  <1>2. ASSUME NEW w \in Writer, Remember(w) PROVE Bounded'
    <2> DEFINE entry == [by |-> w, id |-> issued + 1]
    <2>1. /\ writing' = [writing EXCEPT ![w] = entry] /\ entry.id > 0
          /\ issued < MaxEntries /\ issued' = issued + 1 /\ failures' = failures
      BY <1>2 DEF Remember
    <2> HIDE DEF entry
    <2>2. \A v \in Writer : writing'[v] = entry \/ writing'[v] = writing[v]
      BY <1>1, <2>1
    <2> QED
      BY <2>1, <2>2
  <1>3. ASSUME UNCHANGED issued, failures' \in 0 .. MaxFailures,
               writing' = writing \/ \E w \in Writer : writing' = [writing EXCEPT ![w] = Nothing]
        PROVE  Bounded'
    BY <1>1, <1>3
  <1>4. ASSUME NEW w \in Writer, AppendFails(w) \/ Crash(w) PROVE Bounded'
    <2>1. failures < MaxFailures /\ failures' = failures + 1
      BY <1>4 DEF AppendFails, Crash
    <2> QED
      BY <1>3, <1>4, <2>1 DEF AppendFails, Crash
  <1>5. ASSUME NEW w \in Writer, WriteLine(w) \/ ReadAll(w) \/ Clear(w) PROVE Bounded'
    BY <1>3, <1>5 DEF WriteLine, ReadAll, Clear
  <1>6. CASE UNCHANGED vars
    BY <1>3, <1>6 DEF vars
  <1> QED
    BY <1>2, <1>4, <1>5, <1>6 DEF Next

(* A file that is not there has no text. *)
Missing == present \in BOOLEAN /\ (~present => lines = <<>> /\ tail = Blank)

LEMMA MissingStep ==
    ASSUME Missing, [Next]_vars
    PROVE  Missing'
  <1> USE DEF Missing
  <1>1. ASSUME NEW entry, EndLine(entry) PROVE Missing'
    BY <1>1 DEF EndLine
  <1>2. ASSUME NEW entry, Interrupted(entry) PROVE Missing'
    BY <1>1, <1>2 DEF Interrupted
  <1>3. CASE UNCHANGED <<lines, tail, present>>
    BY <1>3
  <1>4. ASSUME NEW w \in Writer, Remember(w) \/ ReadAll(w) PROVE Missing'
    BY <1>3, <1>4 DEF Remember, ReadAll
  <1>5. ASSUME NEW w \in Writer, WriteLine(w) PROVE Missing'
    BY <1>1, <1>5 DEF WriteLine
  <1>6. ASSUME NEW w \in Writer, AppendFails(w) \/ Crash(w) PROVE Missing'
    BY <1>2, <1>3, <1>6 DEF AppendFails, Crash
  <1>7. ASSUME NEW w \in Writer, Clear(w) PROVE Missing'
    BY <1>7 DEF Clear
  <1>8. CASE UNCHANGED vars
    BY <1>3, <1>8 DEF vars
  <1> QED
    BY <1>4, <1>5, <1>6, <1>7, <1>8 DEF Next

(* Only entries are ever taken for entries: whatever pieces failed appends leave
   in the file, what read_all puts into the memory of a writer is a sequence of
   entries, and an entry on its way is its author's and not from the future. *)
THEOREM LedgerKeepsTypes == Spec => []TypeOK
  <1>1. Init => Bounded /\ Missing
    <2> SUFFICES ASSUME Init PROVE Bounded /\ Missing
      OBVIOUS
    <2>1. issued \in 0 .. MaxEntries /\ failures \in 0 .. MaxFailures
      BY LedgerAssumption DEF Init
    <2>2. \A w \in Writer : writing[w] = Nothing
      BY DEF Init
    <2>3. Missing
      BY DEF Init, Missing
    <2> QED
      BY <2>1, <2>2, <2>3 DEF Bounded
  <1>2. LedgerInv /\ OrderInv /\ Bounded /\ Missing => TypeOK
    <2> SUFFICES ASSUME LedgerInv, OrderInv, Bounded, Missing PROVE TypeOK
      OBVIOUS
    <2>1. ASSUME NEW w \in Writer, writing[w] # Nothing
          PROVE  writing[w] \in [by : {w}, id : 1 .. issued]
      BY <2>1 DEF LedgerInv, Typed, Numbered, Bounded, Entry
    <2> QED
      BY <2>1 DEF LedgerInv, Typed, OrderInv, Bounded, Missing, TypeOK
  <1> QED
    BY <1>1, <1>2, BoundedStep, MissingStep, LedgerInvCorrect, OrderInvCorrect, PTL DEF Spec
=============================================================================
