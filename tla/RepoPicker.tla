----------------------------- MODULE RepoPicker -----------------------------
(***************************************************************************)
(* The repository and the branch of a new sandbox: `sandlock create        *)
(* --select-repo` reads the user's repositories from GitHub, page by page, *)
(* and lets one be picked, then its branches (cmd/sandlock/cmd/github.go); *)
(* the supervisor clones what was asked for (cmd/supervisor/main.go,       *)
(* launch).  GitHub changes all the while: a push moves a repository, or a *)
(* branch, to the front of the list that is being read.                    *)
(***************************************************************************)
EXTENDS Naturals, SequencesExt

CONSTANTS Repos,
          Branches, Default,  \* of the repository that is cloned
          Unknown,            \* a name that is no branch of it
          PageSize,           \* 100 in the code
          MaxPages,           \* 5 in the code
          MaxChanges,         \* bound on what happens on GitHub
          MaxFailures         \* bound on the git commands that fail by themselves

ASSUME PagesAssumption ==
    /\ IsFiniteSet(Repos) /\ Default \in Branches /\ Unknown \notin Branches
    /\ {PageSize, MaxPages} \subseteq Nat \ {0} /\ {MaxChanges, MaxFailures} \subseteq Nat

VARIABLES
    pick,      \* where --select-repo stands: "off", "repos", "repo", "branches",
               \* "branch", "typing", "picked", "over"
    listing,   \* on GitHub: the repositories, then the branches of the one picked
    page,      \* the page to be read next
    offered,   \* what the pages held so far
    steady,    \* what was there from the first page on, and did not move up
    repo,      \* one is asked for; which one makes no difference here
    branch,    \* the name asked for, "none" while there is none
    changes,
    work,      \* launch: "no", "clone", "fallback", "name", "confirm", "done"
    head,      \* the branch that the session is on, and the one it was taken from
    failed     \* what went wrong on the way

pickVars == <<pick, listing, page, offered, steady, repo, branch, changes, work, head, failed>>
choiceVars == <<repo, branch>>
githubVars == <<listing, changes>>
podVars == <<work, head, failed>>

NoHead == [name |-> "none", of |-> "none"]
Pickers == {"repo", "branch", "typing"}

\* What is listed.
Held == IF repo \/ pick = "off" THEN Branches ELSE Repos

PickTypeOK ==
    /\ pick \in {"off", "repos", "branches", "picked", "over"} \cup Pickers
    /\ listing \in Seq(Held) /\ offered \subseteq Held /\ steady \subseteq Held
    /\ page \in Nat \ {0}
    /\ repo \in BOOLEAN /\ (pick \in {"branches", "branch"} => repo)
    /\ branch \in Branches \cup {Unknown, "none"}
    /\ work \in {"no", "clone", "fallback", "name", "confirm", "done"}
    /\ failed \subseteq {"absent", "clone", "fallback", "name"}

\* The lists that may be met: the default branch is always there.
BranchLists == {s \in SeqOf(Branches, Cardinality(Branches)) : IsInjective(s) /\ Default \in ToSet(s)}

\* --repo and --branch, or --select-repo with or without --branch.
PickInit ==
    /\ \/ pick = "off" /\ repo \in BOOLEAN /\ listing \in BranchLists
       \/ pick = "repos" /\ repo = FALSE /\ listing = SetToSeq(Repos)
    /\ branch \in Branches \cup {Unknown, "none"}
    /\ page = 1 /\ offered = {} /\ steady = ToSet(listing)
    /\ changes = 0
    /\ work = "no" /\ head = NoHead /\ failed = {}

-----------------------------------------------------------------------------
(* GitHub.                                                                 *)

From(k, n) == {listing[j] : j \in DOMAIN listing \cap k + 1..n}

\* Who asks for no repository, or has it, or has given up, looks at no list.
Change(list, still) ==
    /\ pick # "over" /\ work # "done" /\ (pick = "off" => repo)
    /\ changes < MaxChanges /\ changes' = changes + 1
    /\ listing' = list
    /\ steady' = steady \cap still
    /\ UNCHANGED <<pick, page, offered, choiceVars, podVars>>

\* A push to what stands at k moves it to the front; so does one to a new x.
Push(x) ==
    \/ x \notin ToSet(listing) /\ Change(<<x>> \o listing, steady)
    \/ \E k \in DOMAIN listing : listing[k] = x /\ Change(<<x>> \o RemoveAt(listing, k), steady \ {x})

\* x is deleted: what stood behind it moves up.
Delete(x) == \E k \in DOMAIN listing : listing[k] = x /\ Change(RemoveAt(listing, k), From(0, k - 1))

GitHub == \E x \in Held : Push(x) \/ (x # Default /\ Delete(x))

-----------------------------------------------------------------------------
(* sandlock create --select-repo.                                          *)

Page(k) == From((k - 1) * PageSize, k * PageSize)

\* The lists that were read are of no more use.
Forget == page' = 1 /\ offered' = {} /\ steady' = {}

GiveUp ==
    /\ pick' = "over" /\ Forget
    /\ UNCHANGED <<githubVars, choiceVars, podVars>>

\* A page was read, the last one or not.
Read(last, next) ==
    /\ offered' = offered \cup Page(page)
    /\ IF last THEN pick' = next /\ UNCHANGED page ELSE page' = page + 1 /\ UNCHANGED pick
    /\ UNCHANGED <<githubVars, steady, choiceVars, podVars>>

MutFetchRepos ==  \* stops before the fifth page
    /\ pick = "repos"
    /\ Read(Len(listing) < page * PageSize \/ page + 1 >= MaxPages, "repo") \/ GiveUp

\* fetchGitHubRepos: a page that is not full is the last one, as is the fifth.
\* Without a token there is nothing to read.
FetchRepos ==
    /\ pick = "repos"
    /\ Read(Len(listing) < page * PageSize \/ page = MaxPages, "repo") \/ GiveUp

\* pickRepo; the branch picker opens unless --branch has named one.
PickRepo ==
    /\ pick = "repo"
    /\ \/ /\ offered # {} /\ repo' = TRUE
          /\ pick' = IF branch = "none" THEN "branches" ELSE "picked"
          /\ listing' \in BranchLists
          /\ page' = 1 /\ offered' = {} /\ steady' = IF branch = "none" THEN ToSet(listing') ELSE {}
          /\ UNCHANGED <<branch, changes, podVars>>
       \/ GiveUp  \* q, esc or ctrl+c: "no repo selected"

\* fetchGitHubBranches, up to the last page.
FetchBranches ==
    /\ pick = "branches"
    /\ Read(Len(listing) <= page * PageSize, "branch") \/ GiveUp

\* pickBranch: a branch, the item that asks for a name, or q, esc and ctrl+c,
\* after which create goes on without a branch; a signal ends it.
PickBranch ==
    /\ pick = "branch"
    /\ \/ pick' = "picked" /\ branch' \in offered \cup {"none"}
       \/ pick' \in {"typing", "over"} /\ UNCHANGED branch
    /\ Forget
    /\ UNCHANGED <<githubVars, repo, podVars>>

\* A name is typed, or it is blank, or esc and ctrl+c give up, with the same result.
TypeBranch ==
    /\ pick = "typing"
    /\ \/ pick' = "picked" /\ branch' \in Branches \cup {Unknown, "none"}
       \/ pick' = "over" /\ UNCHANGED branch
    /\ UNCHANGED <<githubVars, page, offered, steady, repo, podVars>>

Picking == FetchRepos \/ PickRepo \/ FetchBranches \/ PickBranch \/ TypeBranch

-----------------------------------------------------------------------------
(* launch, in the pod.                                                     *)

\* The claim arrives with the repository and the branch.
Order ==
    /\ work' = IF repo THEN "clone" ELSE "done"
    /\ UNCHANGED <<pick, githubVars, page, offered, steady, choiceVars, head, failed>>

On(b) == [name |-> b, of |-> b]

\* A git command fails by itself.
Fails(what) ==
    /\ Cardinality(failed \ {"absent"}) < MaxFailures
    /\ failed' = failed \cup {what}

Git(step) == work = step /\ UNCHANGED <<pick, githubVars, page, offered, steady, choiceVars>>

\* clone --branch, or of the default branch.
Clone ==
    /\ Git("clone")
    /\ \/ /\ branch \in ToSet(listing) \cup {"none"}
          /\ head' = On(IF branch = "none" THEN Default ELSE branch)
          /\ work' = IF branch = "none" THEN "done" ELSE "confirm"
          /\ UNCHANGED failed
       \/ /\ \/ branch \notin ToSet(listing) \cup {"none"} /\ failed' = failed \cup {"absent"}
             \/ Fails("clone")
          /\ work' = IF branch = "none" THEN "done" ELSE "fallback"
          /\ UNCHANGED head

\* It failed: clone the default branch.
Fallback ==
    /\ Git("fallback")
    /\ \/ head' = On(Default) /\ work' = "name" /\ UNCHANGED failed
       \/ Fails("fallback") /\ work' = "done" /\ UNCHANGED head

MutNameBranch ==  \* stays on the branch that was cloned
    /\ Git("name")
    /\ UNCHANGED <<head, failed>>
    /\ work' = "done"

\* checkout -b, which a branch of this name makes fail.
NameBranch ==
    /\ Git("name")
    /\ \/ branch # Default /\ head' = [head EXCEPT !.name = branch] /\ UNCHANGED failed
       \/ branch = Default /\ UNCHANGED <<head, failed>>
       \/ Fails("name") /\ UNCHANGED head
    /\ work' = "done"

\* checkout of the branch that the clone is on, or fetch and checkout: whether
\* they fail or not, it stays on it.
Confirm ==
    /\ Git("confirm")
    /\ work' = "done"
    /\ UNCHANGED <<head, failed>>

Pod == Clone \/ Fallback \/ NameBranch \/ Confirm

-----------------------------------------------------------------------------
(* Properties.                                                             *)

\* Pages are read by their number while the list moves: what was there all the
\* while, and neither was pushed to nor moved up by a deletion, is offered, once the
\* last page is read, unless five pages do not reach it.
NoneIsMissed ==
    [][/\ pick = "repos" /\ pick' = "repo" => steady \cap From(0, MaxPages * PageSize) \subseteq offered'
       /\ pick = "branches" /\ pick' = "branch" => steady \subseteq offered']_pickVars

\* The session works on the branch that was asked for, as it is on GitHub if it was
\* there for the clone, whatever happened to it between the picker and the clone,
\* and unless a git command failed by itself.
BranchIsCheckedOut ==
    work = "done" /\ head # NoHead =>
        /\ head.name = (IF branch = "none" THEN Default ELSE branch) \/ "name" \in failed
        /\ head.of = head.name \/ failed \cap {"absent", "clone"} # {}

\* The inductive invariant behind NoneIsMissed: what stands steady in the pages that
\* were read was offered.
PageInv ==
    /\ IsInjective(listing) /\ steady \subseteq ToSet(listing)
    /\ pick \in {"repos", "branches"} => steady \cap From(0, (page - 1) * PageSize) \subseteq offered

\* What each step of launch has behind it.
HeadInv ==
    /\ work \in {"no", "clone", "fallback"} => head = NoHead
    /\ work = "confirm" => head = On(branch)
    /\ work = "name" => head = On(Default)
    /\ work \in {"fallback", "name", "confirm"} => branch # "none"
    /\ work \in {"fallback", "name"} => failed \cap {"absent", "clone"} # {}

\* The inductive invariant of the pickers and the clone.
PickInv == PickTypeOK /\ PageInv /\ HeadInv /\ BranchIsCheckedOut
=============================================================================
