---------------------------- MODULE MCStateFile ----------------------------
(***************************************************************************)
(* StateFile for TLC.                                                      *)
(***************************************************************************)
EXTENDS StateFile

\* The state file as far as anything still looks at it.  The records of a file
\* that Load would reject are compared with the memory while a manager that
\* has saved is clean, and not again before the next Save has replaced them.
FileSeen ==
    IF LoadOk \/ (alive /\ hasSaved /\ ~dirty) THEN file
    ELSE [file EXCEPT !.blocks = <<>>, !.vers = <<>>]

\* Two states that differ only in such records have the same future, up to
\* whether the next Save replaces them by something equal.
View == <<alive, memVars, dirty, spc, ending, tmp, FileSeen, hasSaved, regular>>

=============================================================================
