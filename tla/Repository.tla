----------------------------- MODULE Repository -----------------------------
(***************************************************************************)
(* Which repository an execution works on (app/workspaces.py): the         *)
(* owner/repo that the workspace's git origin names.  A URL is a scheme    *)
(* and a sequence of tokens: "w" stands for letters and digits, "-" for    *)
(* punctuation allowed within a name, ".." for two dots in a row.          *)
(***************************************************************************)
EXTENDS SequencesExt

Tokens == {"w", "-", "..", ".git", "/", ":"}

\* scp: git@host:path; url: a scheme, "://" and what follows; bare: anything else;
\* none: the workspace has no origin.
Schemes == {"scp", "url", "bare", "none"}

NoRepository == <<>>

Has(s, token) == \E i \in DOMAIN s : s[i] = token

\* Where a token is first, 0 when it is nowhere.
First(s, token) == SelectInSeq(s, LAMBDA t : t = token)

\* s.split(token, 1)[-1]
AfterFirst(s, token) == SubSeq(s, 1 + First(s, token), Len(s))

\* What is left of the URL once the host is off.  git@ without a path keeps its "@",
\* which no name contains.
Candidate(origin) ==
  CASE origin.scheme = "scp" /\ Has(origin.body, ":") -> AfterFirst(origin.body, ":")
    [] origin.scheme = "url" -> AfterFirst(origin.body, "/")
    [] origin.scheme = "bare" /\ ~Has(origin.body, ":") -> origin.body
    [] OTHER -> NoRepository

WithoutSuffix[s \in Seq(Tokens)] == IF s # <<>> /\ Last(s) = ".git" THEN Front(s) ELSE s

\* s.rstrip("/")
WithoutSlashes[s \in Seq(Tokens)] ==
  SubSeq(s, 1, Max({0} \cup {i \in DOMAIN s : s[i] # "/"}))

\* _REPO_PATTERN for one side of the slash, and no "..": it starts and ends with a
\* letter or a digit.
IsPart(s) ==
  /\ s # <<>>
  /\ s[1] = "w" /\ Last(s) \in {"w", ".git"}
  /\ \A i \in DOMAIN s : s[i] \in {"w", "-", ".git"}

Slash(s) == First(s, "/")
Owner(s) == SubSeq(s, 1, Slash(s) - 1)
Repo(s) == SubSeq(s, Slash(s) + 1, Len(s))

\* For the mutant: the owner and the last segment, whatever is in between.
CheckedLoosely[s \in Seq(Tokens)] ==
  LET repo == SubSeq(s, 1 + SelectLastInSeq(s, LAMBDA t : t = "/"), Len(s))
  IN IF Has(s, "/") /\ IsPart(Owner(s)) /\ IsPart(repo)
       THEN Owner(s) \o <<"/">> \o repo ELSE NoRepository

\* A second slash makes Repo(s) no part.
Checked[s \in Seq(Tokens)] ==
  IF Has(s, "/") /\ IsPart(Owner(s)) /\ IsPart(Repo(s)) THEN s ELSE NoRepository

\* Mutant: the path may be longer than owner/repo.
ParsedLoosely(origin) == CheckedLoosely[WithoutSlashes[WithoutSuffix[Candidate(origin)]]]

\* Mutant: the suffix is taken off after the slashes, whatever it is.
ParsedShort(origin) ==
  LET s == WithoutSlashes[Candidate(origin)]
  IN Checked[IF s = <<>> THEN s ELSE Front(s)]

\* _parse_repository
Parsed(origin) == Checked[WithoutSlashes[WithoutSuffix[Candidate(origin)]]]

-----------------------------------------------------------------------------
(* What a reader of a git remote takes it to name.                          *)

\* The URL is a host and its separator, owner/repo, and an ending.
Names(origin, repository, Ending(_)) ==
  LET body == origin.body IN
  \E i \in 0 .. Len(body) - Len(repository) :
    /\ SubSeq(body, i + 1, i + Len(repository)) = repository
    /\ CASE origin.scheme = "scp"  -> i > 0 /\ First(body, ":") = i
         [] origin.scheme = "url"  -> i > 0 /\ First(body, "/") = i
         [] origin.scheme = "bare" -> i = 0 /\ ~Has(body, ":")
         [] OTHER -> FALSE
    /\ Ending(SubSeq(body, i + Len(repository) + 1, Len(body)))

Slashes(s) == \A i \in DOMAIN s : s[i] = "/"

\* Slashes and one .git suffix at the very end are not part of the name.
AnyEnding(s) == Slashes(WithoutSuffix[s])

\* The endings that git hosts write.
UsualEnding(s) == s \in {<<>>, <<".git">>, <<"/">>}

\* owner/repo, where the repository's own name does not end in .git.
IsRepository(s) ==
  /\ Len(s) > 2 /\ s[1] = "w" /\ Last(s) = "w"
  /\ Has(s, "/") /\ IsPart(Owner(s)) /\ IsPart(Repo(s))
=============================================================================
