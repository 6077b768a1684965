------------------------------- MODULE MCNTok -------------------------------
(***************************************************************************)
(* Small instances of NTok: every line of a few characters.  The helpers   *)
(* of NStr are given the same lines, in which a break stands for a slash.  *)
(***************************************************************************)
EXTENDS NTok

Str == INSTANCE NStr WITH Blank <- White, Slash <- Break

\* n_str_strip_ws, n_basedirnam, n_basenam, n_str_concat, n_str_len, n_str_in
\* and n_strncpy do of every line what nstr.h says, within the memory given.
HelpersRight ==
  pc = "head" /\ s = 0 => Str!HelpersKeep([i \in 1 .. slen |-> line[i - 1]])
=============================================================================
