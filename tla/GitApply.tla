------------------------------ MODULE GitApply ------------------------------
(***************************************************************************)
(* safe_apply of git_ops.py and the commands apply, branch and pr of       *)
(* cli/main.py, which bring an accepted patch into the user's repository.  *)
(*                                                                         *)
(* Every git process is a step.  Between two of them the user may edit the *)
(* working tree and the command may be killed.  The contents of a commit   *)
(* or of the working tree are the set of changes it has on top of the      *)
(* commit the run started from: the patch, the user's own work, and what   *)
(* was on the target branch before.                                        *)
(***************************************************************************)
EXTENDS Naturals, FiniteSets

CONSTANTS Main,      \* the branch the repository is on
          Target,    \* a branch that a command may name
          Detached,  \* HEAD when no branch is checked out
          None,      \* no branch asked for
          MaxCalls   \* bound on the commands issued

VARIABLES
    accepted,  \* decision.json is there, accepted, and its patch exists
    isRepo,    \* source_is_git_repo(repo)
    branches,  \* the branches that exist
    head,      \* git branch --show-current, Detached when that prints nothing
    tip,       \* the changes in the commit that a branch (or HEAD) points to
    tree,      \* the changes of the working tree that are not committed
    cmd,       \* the command at work and where it is
    art,       \* its artifact: apply.json, branch.json or pr_apply.json
    remote,    \* the changes pushed to origin
    calls      \* number of commands issued

gitVars == <<isRepo, branches, head, tip, tree, cmd, art, remote, calls>>

Branches == {Main, Target}
Heads    == Branches \cup {Detached}
Changes  == {"patch", "user", "theirs"}

(* What the user may ask for.  pr is apply with a branch and a commit,     *)
(* then a push unless --no-push, or unless gh is missing.                  *)
Options ==
    {o \in [branch : Branches \cup {None}, commit : BOOLEAN, force : BOOLEAN,
            forceBranch : BOOLEAN, push : BOOLEAN] :
        /\ o.push => o.branch # None /\ o.commit
        /\ o.forceBranch => o.branch # None}

NoOptions == [branch |-> None, commit |-> FALSE, force |-> FALSE,
              forceBranch |-> FALSE, push |-> FALSE]

(* original: pre["current_branch"]; created: created_branch; committed:    *)
(* git commit has succeeded.  raced: the user edited the tree after the    *)
(* command had looked whether it was dirty.                                *)
Idle == [pc |-> "idle", opt |-> NoOptions, original |-> Detached,
         created |-> FALSE, committed |-> FALSE, raced |-> FALSE]

NoArtifact == [exit |-> "none", original |-> Detached, rolledBack |-> FALSE]

(* What the repository may look like before the first command: a           *)
(* directory without git, or a repository, on a branch or detached, with   *)
(* or without the target branch, clean or with work in progress.           *)
Repositories ==
    {r \in [isRepo : BOOLEAN, branches : {{}, {Main}, Branches}, head : Heads,
            tip : {[h \in Heads |-> IF h \in bs \ {Main} THEN {"theirs"} ELSE {}] :
                       bs \in {{}, Branches}},
            tree : {{}, {"user"}}] :
        /\ r.isRepo <=> Main \in r.branches
        /\ r.head \in r.branches \cup {Detached}
        /\ Target \in r.branches <=> r.tip[Target] # {}}

GitInit ==
    /\ \E r \in Repositories :
          /\ isRepo = r.isRepo /\ branches = r.branches /\ head = r.head
          /\ tip = r.tip /\ tree = r.tree
    /\ cmd = Idle /\ art = NoArtifact /\ remote = {} /\ calls = 0

(* git status --porcelain                                                  *)
Dirty == isRepo /\ tree # {}

(* git apply refuses a patch whose changes are there already.              *)
MayApply == "patch" \notin tree \cup tip[head]

Goto(pc) == cmd' = [cmd EXCEPT !.pc = pc]

-----------------------------------------------------------------------------
(* The command begins: resolve_accepted, _snapshot and the dirty check     *)
(* only read; when one raises, nothing was touched.                        *)
Call(o) ==
    /\ cmd.pc = "idle" /\ calls < MaxCalls
    /\ calls' = calls + 1
    /\ cmd' = [Idle EXCEPT !.pc = "inspect", !.opt = o]
    /\ art' = NoArtifact
    /\ UNCHANGED <<accepted, isRepo, branches, head, tip, tree, remote>>

MutMayStart == accepted /\ (Dirty => cmd.opt.force \/ cmd.opt.branch # None)

MayStart ==
    /\ accepted
    /\ Dirty => cmd.opt.force
    /\ cmd.opt.branch # None => isRepo

Inspect ==
    /\ cmd.pc = "inspect" /\ MayStart
    /\ cmd' = [cmd EXCEPT !.pc = "check", !.original = head]
    /\ UNCHANGED <<accepted, isRepo, branches, head, tip, tree, art, remote, calls>>

InspectFails ==
    /\ cmd.pc = "inspect" /\ ~MayStart
    /\ Goto("failed")
    /\ UNCHANGED <<accepted, isRepo, branches, head, tip, tree, art, remote, calls>>

(* git apply --check, and whether the branch may be made.  A conflict with *)
(* the user's changes makes the check fail, so it may fail whenever it     *)
(* would not have to.                                                      *)
Check ==
    /\ cmd.pc = "check" /\ MayApply
    /\ Goto(IF cmd.opt.branch = None THEN "apply" ELSE "branch")
    /\ UNCHANGED <<accepted, isRepo, branches, head, tip, tree, art, remote, calls>>

CheckFails ==
    /\ cmd.pc = "check"
    /\ Goto("failed")
    /\ UNCHANGED <<accepted, isRepo, branches, head, tip, tree, art, remote, calls>>

(* git branch -D, for --force-branch; git refuses the current branch.      *)
DeleteBranch ==
    LET b == cmd.opt.branch IN
    /\ cmd.pc = "branch" /\ b \in branches
    /\ IF cmd.opt.forceBranch /\ head # b
       THEN branches' = branches \ {b} /\ tip' = [tip EXCEPT ![b] = {}] /\ UNCHANGED cmd
       ELSE Goto("failed") /\ UNCHANGED <<branches, tip>>
    /\ UNCHANGED <<accepted, isRepo, head, tree, art, remote, calls>>

(* git checkout -b takes the working tree along.  What was only reachable  *)
(* from a detached HEAD is on the new branch from now on.                  *)
CreateBranch ==
    LET b == cmd.opt.branch IN
    /\ cmd.pc = "branch" /\ b \notin branches
    /\ \/ /\ branches' = branches \cup {b}
          /\ tip' = [tip EXCEPT ![b] = tip[head]]
          /\ head' = b
          /\ cmd' = [cmd EXCEPT !.pc = "apply", !.created = TRUE]
       \/ Goto("failed") /\ UNCHANGED <<branches, tip, head>>
    /\ UNCHANGED <<accepted, isRepo, tree, art, remote, calls>>

(* git apply, and then the complaint about a commit outside a repository:  *)
(* the patch is in the directory by then.                                  *)
ApplyPatch ==
    /\ cmd.pc = "apply"
    /\ \/ /\ MayApply
          /\ tree' = tree \cup {"patch"}
          /\ Goto(IF ~cmd.opt.commit THEN "applied" ELSE IF isRepo THEN "commit" ELSE "failed")
       \/ Goto("failed") /\ UNCHANGED tree
    /\ UNCHANGED <<accepted, isRepo, branches, head, tip, art, remote, calls>>

(* git add . and git commit, where a hook or a missing identity makes it   *)
(* fail; and git rev-parse after the commit, which may fail as well.       *)
MutCommit ==
    /\ cmd.pc = "commit"
    /\ Goto("applied")
    /\ \/ tip' = [tip EXCEPT ![head] = @ \cup tree] /\ tree' = {}
       \/ UNCHANGED <<tip, tree>>
    /\ UNCHANGED <<accepted, isRepo, branches, head, art, remote, calls>>

Commit ==
    /\ cmd.pc = "commit"
    /\ \/ /\ tip' = [tip EXCEPT ![head] = @ \cup tree]
          /\ tree' = {}
          /\ \E then \in {"applied", "failed"} :
                cmd' = [cmd EXCEPT !.pc = then, !.committed = TRUE]
       \/ Goto("failed") /\ UNCHANGED <<tip, tree>>
    /\ UNCHANGED <<accepted, isRepo, branches, head, art, remote, calls>>

(* The artifact; when it cannot be written, the command has failed.        *)
Report ==
    /\ cmd.pc = "applied"
    /\ \/ /\ art' = [exit |-> "ok", original |-> cmd.original, rolledBack |-> FALSE]
          /\ IF cmd.opt.push THEN Goto("push") ELSE cmd' = Idle
       \/ Goto("failed") /\ UNCHANGED art
    /\ UNCHANGED <<accepted, isRepo, branches, head, tip, tree, remote, calls>>

(* The except block.  Only a branch made by this call is left again, and   *)
(* deleted when no change is in the tree, a commit on it included; the     *)
(* patch itself is never taken back.  With a detached HEAD there is no     *)
(* branch to go back to, and git refuses to delete the branch it is on.    *)
(* The artifact of the failure is written if it can be.                    *)
ReportFailure(b, rolledBack) ==
    /\ art' \in {[exit |-> "failed", original |-> b, rolledBack |-> rolledBack], art}
    /\ cmd' = Idle

MutBackTo == IF tree = {} THEN cmd.original ELSE head

BackTo == IF cmd.original # Detached THEN cmd.original ELSE head

MutRollback ==
    /\ cmd.pc = "failed" /\ cmd.created
    /\ head' = BackTo /\ tree' = {}
    /\ ReportFailure(cmd.original, TRUE)
    /\ UNCHANGED <<accepted, isRepo, branches, tip, remote, calls>>

Rollback ==
    /\ cmd.pc = "failed" /\ cmd.created
    /\ \/ LET gone == IF Dirty \/ BackTo = cmd.opt.branch THEN {} ELSE {cmd.opt.branch} IN
          /\ head' = BackTo
          /\ branches' = branches \ gone
          /\ tip' = [h \in Heads |-> IF h \in gone THEN {} ELSE tip[h]]
          /\ ReportFailure(cmd.original, TRUE)
       \/ ReportFailure(cmd.original, FALSE) /\ UNCHANGED <<branches, head, tip>>
    /\ UNCHANGED <<accepted, isRepo, tree, remote, calls>>

NothingToRollBack ==
    /\ cmd.pc = "failed" /\ ~cmd.created
    /\ ReportFailure(cmd.original, FALSE)
    /\ UNCHANGED <<accepted, isRepo, branches, head, tip, tree, remote, calls>>

(* pr: git push of the branch, which may fail; gh pr create changes        *)
(* nothing here.                                                           *)
Push ==
    /\ cmd.pc = "push"
    /\ remote' \in {remote, remote \cup tip[cmd.opt.branch]}
    /\ cmd' = Idle
    /\ UNCHANGED <<accepted, isRepo, branches, head, tip, tree, art, calls>>

-----------------------------------------------------------------------------
(* The user goes on working; and a command may be killed between two git   *)
(* processes, which leaves everything as it is and no artifact.            *)
UserEdits ==
    /\ "user" \notin tree \cup UNION {tip[h] : h \in Heads}
    /\ tree' = tree \cup {"user"}
    /\ cmd' = [cmd EXCEPT !.raced = cmd.pc # "idle" /\ cmd.pc # "inspect"]
    /\ UNCHANGED <<accepted, isRepo, branches, head, tip, art, remote, calls>>

Killed ==
    /\ cmd.pc # "idle"
    /\ cmd' = Idle
    /\ UNCHANGED <<accepted, isRepo, branches, head, tip, tree, art, remote, calls>>

Step ==
    \/ Inspect \/ InspectFails \/ Check \/ CheckFails \/ DeleteBranch \/ CreateBranch
    \/ ApplyPatch \/ Commit \/ Report \/ Rollback \/ NothingToRollBack \/ Push

GitNext == Step \/ Killed \/ UserEdits \/ \E o \in Options : Call(o)

-----------------------------------------------------------------------------
GitTypeOK ==
    /\ isRepo \in BOOLEAN /\ branches \subseteq Branches
    /\ head \in branches \cup {Detached}
    /\ tip \in [Heads -> SUBSET Changes] /\ tree \subseteq Changes /\ remote \subseteq Changes
    /\ cmd.pc \in {"idle", "inspect", "check", "branch", "apply", "commit", "applied", "push", "failed"}
    /\ cmd.opt \in Options /\ cmd.original \in Heads
    /\ art.exit \in {"none", "ok", "failed"}
    /\ calls \in 0..MaxCalls

Committed == {c \in Changes : \E h \in branches \cup {head} : c \in tip[h]}

(* --force-branch deletes the branch it is told to delete.                 *)
ToldToDelete(c) == cmd.pc = "branch" /\ cmd.opt.forceBranch /\ c \in tip[cmd.opt.branch]

(* What fails after the commit, reading its hash or writing the artifact,  *)
(* deletes the branch of this command with the commit: with the patch, and *)
(* with what the user had in the tree when that was committed too.         *)
CommitDeleted(c) ==
    /\ cmd.pc = "failed" /\ cmd.committed /\ cmd.created /\ c \in tip[cmd.opt.branch]
    /\ c = "patch" \/ (c = "user" /\ (cmd.opt.force \/ cmd.raced))

(* Whatever fails in between and whoever edits meanwhile, no change that   *)
(* was in the tree or in a commit a branch reaches gets lost, except that  *)
(* a branch deleted on purpose takes its commits along: the user's own     *)
(* work only when they asked for that branch to be replaced, or let the    *)
(* command commit that work.                                               *)
WorkKept ==
    [][\A c \in Changes : c \in tree \cup Committed =>
            c \in (tree \cup Committed)' \/ ToldToDelete(c) \/ CommitDeleted(c)]_gitVars

(* A failure whose artifact says rollback_succeeded has left the user on   *)
(* the branch the command found.                                           *)
RolledBackIsBack ==
    art.rolledBack /\ art.original # Detached => head = art.original

(* The user's uncommitted work gets into a commit only with --force, or    *)
(* when it was typed after the command had looked.                         *)
OnlyThePatchIsCommitted ==
    [][("user" \notin Committed /\ "user" \in Committed') => cmd.opt.force \/ cmd.raced]_gitVars

(* Nothing is pushed but a commit that holds the accepted patch, and the   *)
(* repository has the patch only when one was accepted.                    *)
DeliveredIsAccepted ==
    /\ "patch" \in tree \cup Committed => accepted
    /\ remote # {} => "patch" \in remote
=============================================================================
