------------------------------ MODULE MCStorage -----------------------------
(* Small instances of Storage for TLC.                                      *)
EXTENDS Storage, TLC

MCSymmetry == Permutations(Calls) \cup Permutations(PlayerFiles)

\* A bound of the search.  Title files and player files share no key, no row and
\* no object, and no statement reads both, so a behaviour uses one kind at a time.
InUse(files) ==
    \/ \E f \in files : f \in Listed(files) \cup urls \/ blob[f] # NoBlob
    \/ \E c \in Calls : call[c] # NoCall /\ call[c].file \in files
OneKind == ~InUse(TitleFiles) \/ ~InUse(PlayerFiles)
=============================================================================
