------------------------------ MODULE TraceDb ------------------------------
(***************************************************************************)
(* The trace database (src/storage/mod.rs): a map from step numbers to     *)
(* entries, and the file it is saved to and loaded from.                   *)
(*                                                                         *)
(* The module is pure: a database is a function whose domain is its set of *)
(* steps, and each method is an operator.  A file is what bincode makes of *)
(* the BTreeMap, the number of entries followed by the entries in          *)
(* ascending order of step: the record [count, entries], where count is    *)
(* Unwritten when not even the number of entries reached the disk (an      *)
(* absent file loads no better than an empty one).                         *)
(***************************************************************************)
EXTENDS Integers, FiniteSets

Unwritten == -1

\* TraceDb::new
EmptyDb == [s \in {} |-> 0]

\* TraceDb::insert: BTreeMap::insert replaces the entry of the same step.
Insert(db, e) ==
  [s \in DOMAIN db \cup {e.step} |-> IF s = e.step THEN e ELSE db[s]]

\* TraceDb::count
Count(db) == Cardinality(DOMAIN db)

-----------------------------------------------------------------------------
(* The file. *)

\* fs::write creates or truncates the file before it writes.
NoFile == [count |-> Unwritten, entries |-> EmptyDb]

\* TraceDb::save, once every byte of the image is on disk.
Serialize(db) == [count |-> Count(db), entries |-> db]

\* What a write that stops half-way leaves behind: nothing, or the number of
\* entries and the entries of the first steps only.
TornImages(db) ==
  {NoFile} \cup
  { [count |-> Count(db), entries |-> [s \in {t \in DOMAIN db : t < k} |-> db[s]]] :
      k \in DOMAIN db }

\* bug: entries are read up to the end of the file
LoadsPrefix(file) == file.count # Unwritten

\* TraceDb::load succeeds: bincode reads the count, then that many entries,
\* and fails at the end of the input.
Loads(file) ==
  /\ file.count # Unwritten
  /\ Cardinality(DOMAIN file.entries) >= file.count

=============================================================================
