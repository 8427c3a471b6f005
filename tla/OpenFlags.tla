----------------------------- MODULE OpenFlags ------------------------------
(***************************************************************************)
(* Open flags (api/open.c): what build_open_how and build_open_flags make  *)
(* of the O_ flags of an open.  Access modes, O_TRUNC, O_APPEND and the    *)
(* like are left out: the walk and do_open look at none of them, and       *)
(* LOOKUP_OPEN, LOOKUP_CREATE and LOOKUP_EXCL are only hints for a file    *)
(* system.  how.resolve is always 0, so no open has a scoping flag.        *)
(***************************************************************************)

O_FLAGS == {"CREAT", "EXCL", "DIRECTORY", "NOFOLLOW", "PATH", "TMPFILE"}

VALID_OPEN_FLAGS == O_FLAGS \ {"TMPFILE"}

O_PATH_FLAGS == {"DIRECTORY", "NOFOLLOW", "PATH"}

\* "O_PATH beats everything else."
build_open_how(flags) ==
  (flags \cap VALID_OPEN_FLAGS)
    \cap (IF "PATH" \in flags THEN O_PATH_FLAGS ELSE VALID_OPEN_FLAGS)

\* -EINVAL: of all the flags that are left only this pair is refused.
Invalid(how) == {"CREAT", "DIRECTORY"} \subseteq how

\* O_EXCL follows links (mutant).
build_open_flags_excl(how) ==
  [creat  |-> "CREAT" \in how,
   path   |-> "PATH" \in how,
   lookup |-> (IF "DIRECTORY" \in how THEN {"DIRECTORY"} ELSE {})
       \cup (IF "NOFOLLOW" \in how THEN {} ELSE {"FOLLOW"})]

\* struct open_flags: O_CREAT and O_PATH of open_flag, and lookup_flags.
build_open_flags(how) ==
  [creat  |-> "CREAT" \in how,
   path   |-> "PATH" \in how,
   lookup |-> (IF "DIRECTORY" \in how THEN {"DIRECTORY"} ELSE {})
       \cup (IF "NOFOLLOW" \in how \/ {"CREAT", "EXCL"} \subseteq how
             THEN {} ELSE {"FOLLOW"})]
=============================================================================
