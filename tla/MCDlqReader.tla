----------------------------- MODULE MCDlqReader -----------------------------
(***************************************************************************)
(* Model-checking instances of DlqReader.                                  *)
(***************************************************************************)
EXTENDS DlqReader

Run(follow, timeout) == [follow |-> follow, timeout |-> timeout]

\* Timeouts of 0, of 2.5 seconds and of 2, in half seconds, and those never reached.
SomeArguments ==
  {Run(FALSE, 0), Run(FALSE, 5), Run(FALSE, 4), Run(FALSE, NaN), Run(FALSE, Infinity),
   Run(TRUE, 4)}

\* The default timeout.
DefaultArguments == {Run(FALSE, 10)}
=============================================================================
