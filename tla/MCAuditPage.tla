----------------------------- MODULE MCAuditPage -----------------------------
(* The audit log with two writers and one reader of its page, for TLC. One   *)
(* of the subjects has a '|' in it, and after that the text of a ciphertext. *)
EXTENDS AuditPage, TLC

Subjects == {<<"ann">>, <<"ann", "c1">>}
WriterSymmetry == Permutations(Writers)

(* The page is not in use, or no column of the log that it shows has a '|'   *)
(* in it: paging looks at the ids and the events of the rows.                *)
PageUnused ==
  pagevars = <<[c \in Callers |-> NoRequest], "all", 0, FALSE, TRUE,
               <<(<< >>), FALSE, "all", FALSE>> >>
OneWord(e) == Len(e.target) = 1
PlainWhenRead ==
  \/ PageUnused
  \/ (\A i \in DOMAIN log : OneWord(log[i])) /\ (\A w \in Writers : OneWord(entry[w]))
=============================================================================
