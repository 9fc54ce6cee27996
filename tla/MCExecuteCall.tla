---------------------------- MODULE MCExecuteCall ----------------------------
(***************************************************************************)
(* Small instances of ExecuteCall for TLC.                                 *)
(***************************************************************************)
EXTENDS ExecuteCall

CONSTANTS p1, p2, MaxTokens

\* Every path up to a length, and every one behind an owner, behind a host; and short
\* URLs where the separator that ends the host is missing or not the first.
Paths == LET short == SeqOf(Tokens, MaxTokens)
         IN short \cup {<<"w", "/">> \o p : p \in short}
AllOrigins ==
  {[scheme |-> "scp", body |-> <<"w", ":">> \o p] : p \in Paths}
    \cup {[scheme |-> "url", body |-> <<"w", "/">> \o p] : p \in Paths}
    \cup {[scheme |-> "bare", body |-> p] : p \in Paths}
    \cup {[scheme |-> s, body |-> <<"w">> \o p] : s \in {"scp", "url"}, p \in SeqOf(Tokens, 2)}
    \cup {[scheme |-> "none", body |-> <<>>]}

SmallProjects ==
  {[origin |-> o, branch |-> TRUE] : o \in AllOrigins}
    \cup {[origin |-> [scheme |-> "bare", body |-> <<"w", "/", "w">>], branch |-> FALSE]}

\* The threads that poll are interchangeable.
PollerSymmetry == Permutations(Pollers)
=============================================================================
