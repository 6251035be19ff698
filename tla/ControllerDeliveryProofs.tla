------------------------ MODULE ControllerDeliveryProofs ------------------------
(***************************************************************************)
(* Theorems about ControllerDelivery, for any strategies, settings and     *)
(* number of commands.  The controller and the repository are dealt with   *)
(* one after the other: while the run is going on the repository is as it  *)
(* was, and after it nothing of the controller but its decision counts.    *)
(***************************************************************************)
EXTENDS ControllerDelivery, TLAPS

(***************************************************************************)
(* What the commands of GitApply do to the repository, for any number of   *)
(* commands: the invariant of the repository under the run that accepted   *)
(* the patch, and that a command loses nobody's work.                      *)
(***************************************************************************)

Command ==
    [pc : {"idle", "inspect", "check", "branch", "apply", "commit", "applied", "push", "failed"},
     opt : Repo!Options, original : Repo!Heads, created : BOOLEAN, committed : BOOLEAN, raced : BOOLEAN]

Artifact == [exit : {"none", "ok", "failed"}, original : Repo!Heads, rolledBack : BOOLEAN]

GitTypes ==
    /\ isRepo \in BOOLEAN /\ branches \subseteq Repo!Branches
    /\ head \in branches \cup {Detached}
    /\ tip \in [Repo!Heads -> SUBSET Repo!Changes] /\ tree \subseteq Repo!Changes
    /\ remote \subseteq Repo!Changes
    /\ cmd \in Command /\ art \in Artifact
    /\ calls \in Nat /\ calls <= MaxCalls

(* The patch gets nowhere unless it was accepted.                          *)
Rightful ==
    /\ cmd.pc \in {"check", "branch", "apply", "commit", "applied", "push"} => decision.accepted
    /\ "patch" \in tree => decision.accepted
    /\ \A h \in Repo!Heads : "patch" \in tip[h] => decision.accepted

(* What this command may commit.                                           *)
Committable(c) == c = "patch" \/ (c = "user" /\ (cmd.opt.force \/ cmd.raced))

(* Where a command is: on the branch it found, or on the one it made, that *)
(* has what the other had until the commit, and then the patch and such    *)
(* work of the user's as the command may commit.                           *)
Place ==
    /\ cmd.pc \in {"inspect", "check", "branch"} => ~cmd.created
    /\ cmd.pc \in {"check", "branch"} => cmd.original = head
    /\ cmd.pc = "branch" => cmd.opt.branch # None
    /\ cmd.pc \in {"apply", "commit", "applied", "push"} => (cmd.created <=> cmd.opt.branch # None)
    /\ cmd.pc # "idle" /\ cmd.created => cmd.opt.branch # None /\ head = cmd.opt.branch
    /\ cmd.pc # "idle" /\ cmd.created => cmd.original \in branches \cup {Detached} /\ cmd.original # head
    /\ cmd.pc \in {"inspect", "check", "branch", "apply", "commit"} => ~cmd.committed
    /\ cmd.pc \in {"apply", "commit", "applied", "failed"} /\ cmd.created /\ ~cmd.committed =>
          tip[head] = tip[cmd.original]
    /\ cmd.pc \in {"applied", "failed"} /\ cmd.created /\ cmd.committed =>
          \A c \in tip[head] : c \in tip[cmd.original] \/ Committable(c)
    /\ tree \subseteq {"patch", "user"}

(* What a commit holds, and what is pushed.                                *)
Contents ==
    /\ cmd.pc = "commit" => isRepo /\ cmd.opt.commit /\ "patch" \in tree
    /\ cmd.pc \in {"applied", "push"} /\ cmd.opt.commit => "patch" \in tip[head]
    /\ cmd.pc = "push" => cmd.opt.push
    /\ cmd.pc \in {"check", "branch", "apply", "commit"} /\ isRepo /\ "user" \in tree =>
          cmd.opt.force \/ cmd.raced
    /\ remote # {} => "patch" \in remote

Back == art.rolledBack => cmd.pc = "idle" /\ Repo!RolledBackIsBack

GitInv == GitTypes /\ Rightful /\ Place /\ Contents /\ Back

LEMMA Names ==
    ASSUME GitAssumption
    PROVE  /\ Repo!Branches = {Main, Target} /\ Repo!Heads = {Main, Target, Detached}
           /\ Main # Target /\ Main # Detached /\ Target # Detached
           /\ None \notin Repo!Heads /\ Detached \notin Repo!Branches
  BY DEF GitAssumption, Repo!Branches, Repo!Heads

LEMMA OptionsAre ==
    ASSUME NEW o \in Repo!Options
    PROVE  /\ o.branch \in Repo!Branches \cup {None}
           /\ o.commit \in BOOLEAN /\ o.force \in BOOLEAN /\ o.forceBranch \in BOOLEAN /\ o.push \in BOOLEAN
           /\ o.push => o.branch # None /\ o.commit
  BY DEF Repo!Options

LEMMA IdleIs ==
    /\ Repo!Idle \in Command /\ Repo!Idle.pc = "idle"
    /\ Repo!NoArtifact \in Artifact /\ Repo!NoArtifact.rolledBack = FALSE
  BY DEF Repo!Idle, Repo!NoArtifact, Repo!NoOptions, Repo!Options, Repo!Heads, Command, Artifact

-----------------------------------------------------------------------------
(* The steps of a command, one lemma for what each conjunct rests on.      *)
LEMMA MayBeWritten ==
    ASSUME cmd \in Command
    PROVE  \A e \in {"none", "ok", "failed"}, b \in BOOLEAN :
              [exit |-> e, original |-> cmd.original, rolledBack |-> b] \in Artifact
  BY DEF Command, Artifact

LEMMA GitTypesStep ==
    ASSUME GitAssumption, GitInv, Repo!GitNext
    PROVE  GitTypes'
  <1> USE DEF GitInv, GitTypes, Command, Repo!Goto
  <1>1. CASE \E o \in Repo!Options : Repo!Call(o)
    <2>1. PICK o \in Repo!Options : Repo!Call(o)
      BY <1>1
    <2>2. cmd' \in Command
      BY <2>1, IdleIs DEF Repo!Call
    <2>3. calls' \in Nat /\ calls' <= MaxCalls
      BY <2>1 DEF Repo!Call, GitAssumption
    <2> QED BY <2>1, <2>2, <2>3, IdleIs DEF Repo!Call
  <1>2. CASE Repo!Inspect
    BY <1>2 DEF Repo!Inspect, Repo!Heads, Repo!Branches
  <1>3. CASE Repo!InspectFails \/ Repo!Check \/ Repo!CheckFails
    BY <1>3 DEF Repo!InspectFails, Repo!Check, Repo!CheckFails
  <1>4. CASE Repo!DeleteBranch
    BY <1>4, OptionsAre DEF Repo!DeleteBranch
  <1>5. CASE Repo!CreateBranch
    <2> DEFINE b == cmd.opt.branch
    <2>1. b \in Repo!Branches /\ b \in Repo!Heads /\ head \in Repo!Heads
      BY <1>5, OptionsAre, Names DEF Repo!CreateBranch, Place
    <2>2. cmd' \in Command
      BY <1>5 DEF Repo!CreateBranch
    <2>3. branches' \subseteq Repo!Branches /\ head' \in branches' \cup {Detached}
      BY <1>5, <2>1 DEF Repo!CreateBranch
    <2>4. tip' \in [Repo!Heads -> SUBSET Repo!Changes]
      BY <1>5, <2>1 DEF Repo!CreateBranch
    <2> QED BY <1>5, <2>2, <2>3, <2>4 DEF Repo!CreateBranch
  <1>6. CASE Repo!ApplyPatch
    BY <1>6 DEF Repo!ApplyPatch, Repo!Changes
  <1>7. CASE Repo!Commit
    <2>1. cmd' \in Command
      <3>1. CASE UNCHANGED <<tip, tree>>
        BY <1>7, <3>1 DEF Repo!Commit
      <3>2. CASE ~UNCHANGED <<tip, tree>>
        <4>1. PICK then \in {"applied", "failed"} : cmd' = [cmd EXCEPT !.pc = then, !.committed = TRUE]
          BY <1>7, <3>2 DEF Repo!Commit
        <4> QED BY <4>1
      <3> QED BY <3>1, <3>2
    <2>2. tip' \in [Repo!Heads -> SUBSET Repo!Changes] /\ tree' \subseteq Repo!Changes
      BY <1>7, Names DEF Repo!Commit
    <2> QED BY <1>7, <2>1, <2>2 DEF Repo!Commit
  <1>8. CASE Repo!Report
    <2>1. cmd' \in Command
      BY <1>8, IdleIs DEF Repo!Report
    <2>2. art' \in Artifact
      <3>1. art' = art \/ art' = [exit |-> "ok", original |-> cmd.original, rolledBack |-> FALSE]
        BY <1>8, Zenon DEF Repo!Report
      <3> QED BY <3>1, MayBeWritten
    <2> QED BY <1>8, <2>1, <2>2 DEF Repo!Report
  <1>9. CASE Repo!Rollback
    <2>1. cmd' \in Command /\ art' \in Artifact
      <3>1. cmd' = Repo!Idle
        BY <1>9 DEF Repo!Rollback, Repo!ReportFailure
      <3>2. \E back \in BOOLEAN : Repo!ReportFailure(cmd.original, back)
        BY <1>9 DEF Repo!Rollback
      <3>3. art' \in Artifact
        BY <3>2 DEF Repo!ReportFailure, Artifact
      <3> QED BY <3>1, <3>3, IdleIs
    <2>2. CASE UNCHANGED <<branches, head, tip>>
      BY <1>9, <2>1, <2>2 DEF Repo!Rollback
    <2>3. CASE ~UNCHANGED <<branches, head, tip>>
      <3>1. PICK gone \in SUBSET {cmd.opt.branch} :
               /\ head' = Repo!BackTo /\ branches' = branches \ gone
               /\ tip' = [h \in Repo!Heads |-> IF h \in gone THEN {} ELSE tip[h]]
               /\ gone # {} => Repo!BackTo # cmd.opt.branch
        BY <1>9, <2>3, ZenonT(40) DEF Repo!Rollback
      <3>2. Repo!BackTo \in branches \cup {Detached}
        BY <1>9 DEF Repo!BackTo, Repo!Rollback, Place
      <3>3. head' \in branches' \cup {Detached}
        BY <3>1, <3>2
      <3>4. tip' \in [Repo!Heads -> SUBSET Repo!Changes]
        BY <3>1
      <3> QED BY <1>9, <2>1, <3>1, <3>3, <3>4 DEF Repo!Rollback
    <2> QED BY <2>2, <2>3
  <1>10. CASE Repo!NothingToRollBack
    <2>1. cmd' \in Command
      BY <1>10, IdleIs DEF Repo!NothingToRollBack, Repo!ReportFailure
    <2>2. art' \in Artifact
      <3>1. art' = art \/ art' = [exit |-> "failed", original |-> cmd.original, rolledBack |-> FALSE]
        BY <1>10, Zenon DEF Repo!NothingToRollBack, Repo!ReportFailure
      <3> QED BY <3>1, MayBeWritten
    <2> QED BY <1>10, <2>1, <2>2 DEF Repo!NothingToRollBack
  <1>11. CASE Repo!Push
    <2>1. cmd.opt.branch \in Repo!Heads
      BY <1>11, OptionsAre, Names DEF Repo!Push, Contents
    <2>2. remote' \subseteq Repo!Changes
      BY <1>11, <2>1 DEF Repo!Push
    <2> QED BY <1>11, <2>2, IdleIs DEF Repo!Push
  <1>12. CASE Repo!UserEdits
    BY <1>12 DEF Repo!UserEdits, Repo!Changes
  <1>13. CASE Repo!Killed
    BY <1>13, IdleIs DEF Repo!Killed
  <1> QED BY <1>1, <1>2, <1>3, <1>4, <1>5, <1>6, <1>7, <1>8, <1>9, <1>10, <1>11, <1>12, <1>13
      DEF Repo!GitNext, Repo!Step

LEMMA RightfulStep ==
    ASSUME GitAssumption, GitInv, Repo!GitNext
    PROVE  Rightful'
  <1> USE DEF GitInv, GitTypes, Command, Rightful, Repo!Goto
  <1>1. CASE \E o \in Repo!Options : Repo!Call(o)
    BY <1>1, IdleIs DEF Repo!Call
  <1>2. CASE Repo!Inspect
    BY <1>2 DEF Repo!Inspect, Repo!MayStart
  <1>3. CASE Repo!InspectFails
    BY <1>3 DEF Repo!InspectFails
  <1>4. CASE Repo!Check
    BY <1>4 DEF Repo!Check
  <1>5. CASE Repo!CheckFails
    BY <1>5 DEF Repo!CheckFails
  <1>6. CASE Repo!DeleteBranch
    BY <1>6 DEF Repo!DeleteBranch
  <1>7. CASE Repo!CreateBranch
    BY <1>7 DEF Repo!CreateBranch
  <1>8. CASE Repo!ApplyPatch
    BY <1>8 DEF Repo!ApplyPatch
  <1>9. CASE Repo!Commit
    BY <1>9 DEF Repo!Commit
  <1>10. CASE Repo!Report
    BY <1>10, IdleIs DEF Repo!Report
  <1>11. CASE Repo!Rollback
    BY <1>11, IdleIs DEF Repo!Rollback, Repo!ReportFailure
  <1>12. CASE Repo!NothingToRollBack
    BY <1>12, IdleIs DEF Repo!NothingToRollBack, Repo!ReportFailure
  <1>13. CASE Repo!Push
    BY <1>13, IdleIs DEF Repo!Push
  <1>14. CASE Repo!UserEdits
    BY <1>14 DEF Repo!UserEdits
  <1>15. CASE Repo!Killed
    BY <1>15, IdleIs DEF Repo!Killed
  <1> QED BY <1>1, <1>2, <1>3, <1>4, <1>5, <1>6, <1>7, <1>8, <1>9, <1>10, <1>11, <1>12, <1>13, <1>14, <1>15
      DEF Repo!GitNext, Repo!Step

LEMMA PlaceStep ==
    ASSUME GitAssumption, GitInv, Repo!GitNext
    PROVE  Place'
  <1> USE DEF GitInv, GitTypes, Command, Place, Repo!Goto
  <1>1. CASE \E o \in Repo!Options : Repo!Call(o)
    BY <1>1 DEF Repo!Call, Repo!Idle
  <1>2. CASE Repo!Inspect
    BY <1>2 DEF Repo!Inspect
  <1>3. CASE Repo!InspectFails
    BY <1>3 DEF Repo!InspectFails
  <1>4. CASE Repo!Check
    BY <1>4 DEF Repo!Check
  <1>5. CASE Repo!CheckFails
    BY <1>5 DEF Repo!CheckFails
  <1>6. CASE Repo!DeleteBranch
    BY <1>6 DEF Repo!DeleteBranch
  <1>7. CASE Repo!CreateBranch
    <2> DEFINE b == cmd.opt.branch
    <2>1. b \in Repo!Branches /\ b \in Repo!Heads /\ head \in Repo!Heads /\ b # head /\ b \notin branches
      BY <1>7, OptionsAre, Names DEF Repo!CreateBranch
    <2>2. CASE cmd'.pc = "failed"
      BY <1>7, <2>2 DEF Repo!CreateBranch
    <2>3. CASE cmd'.pc # "failed"
      <3>1. /\ branches' = branches \cup {b} /\ tip' = [tip EXCEPT ![b] = tip[head]] /\ head' = b
            /\ cmd' = [cmd EXCEPT !.pc = "apply", !.created = TRUE]
        BY <1>7, <2>3 DEF Repo!CreateBranch
      <3>2. cmd.original = head /\ tip'[b] = tip[head] /\ tip'[head] = tip[head]
        BY <1>7, <2>1, <3>1 DEF Repo!CreateBranch
      <3>3. cmd'.original = head /\ cmd'.opt = cmd.opt /\ cmd'.pc = "apply" /\ cmd'.created = TRUE
        BY <3>1, <3>2
      <3> QED BY <1>7, <2>1, <3>1, <3>2, <3>3 DEF Repo!CreateBranch
    <2> QED BY <2>2, <2>3
  <1>8. CASE Repo!ApplyPatch
    BY <1>8 DEF Repo!ApplyPatch
  <1>9. CASE Repo!Commit
    <2>1. CASE UNCHANGED <<tip, tree>>
      BY <1>9, <2>1 DEF Repo!Commit
    <2>2. CASE ~UNCHANGED <<tip, tree>>
      <3>1. /\ tip' = [tip EXCEPT ![head] = tip[head] \cup tree] /\ tree' = {} /\ UNCHANGED <<branches, head>>
            /\ cmd.pc = "commit"
        BY <1>9, <2>2 DEF Repo!Commit
      <3>2. PICK then \in {"applied", "failed"} : cmd' = [cmd EXCEPT !.pc = then, !.committed = TRUE]
        BY <1>9, <2>2 DEF Repo!Commit
      <3>3. /\ cmd'.pc \in {"applied", "failed"} /\ cmd'.committed /\ cmd'.created = cmd.created
            /\ cmd'.opt = cmd.opt /\ cmd'.original = cmd.original /\ cmd'.raced = cmd.raced
        BY <3>2
      <3>4. cmd.created => \A c \in tip'[head] : c \in tip'[cmd.original] \/ Committable(c)
        <4>1. \A c \in tree : Committable(c)
          BY <3>1 DEF Committable, Contents
        <4>2. cmd.created => tip[head] = tip[cmd.original] /\ cmd.original # head
          BY <3>1
        <4>3. head \in Repo!Heads /\ cmd.original \in Repo!Heads
          BY Names
        <4> QED BY <3>1, <4>1, <4>2, <4>3
      <3>5. \A c : Committable(c)' <=> Committable(c)
        BY <3>3 DEF Committable
      <3> QED BY <3>1, <3>3, <3>4, <3>5
    <2> QED BY <2>1, <2>2
  <1>10. CASE Repo!Report
    <2>1. CASE cmd' = Repo!Idle
      BY <1>10, <2>1, IdleIs DEF Repo!Report
    <2>2. CASE cmd' # Repo!Idle
      <3>1. PICK then \in {"push", "failed"} : cmd' = [cmd EXCEPT !.pc = then]
        BY <1>10, <2>2 DEF Repo!Report
      <3>2. \A c : Committable(c)' <=> Committable(c)
        BY <3>1 DEF Committable
      <3> QED BY <1>10, <3>1, <3>2 DEF Repo!Report
    <2> QED BY <2>1, <2>2
  <1>11. CASE Repo!Rollback
    BY <1>11, IdleIs DEF Repo!Rollback, Repo!ReportFailure
  <1>12. CASE Repo!NothingToRollBack
    BY <1>12, IdleIs DEF Repo!NothingToRollBack, Repo!ReportFailure
  <1>13. CASE Repo!Push
    BY <1>13, IdleIs DEF Repo!Push
  <1>14. CASE Repo!UserEdits
    <2>1. /\ tree' = tree \cup {"user"} /\ UNCHANGED <<branches, head, tip>>
          /\ cmd' = [cmd EXCEPT !.raced = cmd.pc # "idle" /\ cmd.pc # "inspect"]
          /\ \A h \in Repo!Heads : "user" \notin tip[h]
      BY <1>14 DEF Repo!UserEdits
    <2>2. /\ cmd'.pc = cmd.pc /\ cmd'.created = cmd.created /\ cmd'.committed = cmd.committed
          /\ cmd'.opt = cmd.opt /\ cmd'.original = cmd.original
      BY <2>1
    <2>3. \A h \in Repo!Heads : \A c \in tip[h] : Committable(c) => Committable(c)'
      BY <2>1, <2>2 DEF Committable
    <2>4. head \in Repo!Heads
      BY Names
    <2> QED BY <2>1, <2>2, <2>3, <2>4
  <1>15. CASE Repo!Killed
    BY <1>15, IdleIs DEF Repo!Killed
  <1> QED BY <1>1, <1>2, <1>3, <1>4, <1>5, <1>6, <1>7, <1>8, <1>9, <1>10, <1>11, <1>12, <1>13, <1>14, <1>15
      DEF Repo!GitNext, Repo!Step

LEMMA ContentsStep ==
    ASSUME GitAssumption, GitInv, Repo!GitNext
    PROVE  Contents'
  <1> USE DEF GitInv, GitTypes, Command, Contents, Repo!Goto
  <1>1. CASE \E o \in Repo!Options : Repo!Call(o)
    BY <1>1, IdleIs DEF Repo!Call
  <1>2. CASE Repo!Inspect
    BY <1>2 DEF Repo!Inspect, Repo!MayStart, Repo!Dirty
  <1>3. CASE Repo!InspectFails
    BY <1>3 DEF Repo!InspectFails
  <1>4. CASE Repo!Check
    BY <1>4 DEF Repo!Check
  <1>5. CASE Repo!CheckFails
    BY <1>5 DEF Repo!CheckFails
  <1>6. CASE Repo!DeleteBranch
    BY <1>6 DEF Repo!DeleteBranch
  <1>7. CASE Repo!CreateBranch
    BY <1>7 DEF Repo!CreateBranch
  <1>8. CASE Repo!ApplyPatch
    BY <1>8 DEF Repo!ApplyPatch
  <1>9. CASE Repo!Commit
    <2>1. CASE UNCHANGED <<tip, tree>>
      BY <1>9, <2>1 DEF Repo!Commit
    <2>2. CASE ~UNCHANGED <<tip, tree>>
      <3>1. tip' = [tip EXCEPT ![head] = tip[head] \cup tree] /\ UNCHANGED <<head, remote>> /\ "patch" \in tree
        BY <1>9, <2>2 DEF Repo!Commit
      <3>2. PICK then \in {"applied", "failed"} : cmd' = [cmd EXCEPT !.pc = then, !.committed = TRUE]
        BY <1>9, <2>2 DEF Repo!Commit
      <3>3. "patch" \in tip'[head]
        BY <3>1, Names
      <3> QED BY <3>1, <3>2, <3>3
    <2> QED BY <2>1, <2>2
  <1>10. CASE Repo!Report
    BY <1>10, IdleIs DEF Repo!Report
  <1>11. CASE Repo!Rollback
    BY <1>11, IdleIs DEF Repo!Rollback, Repo!ReportFailure
  <1>12. CASE Repo!NothingToRollBack
    BY <1>12, IdleIs DEF Repo!NothingToRollBack, Repo!ReportFailure
  <1>13. CASE Repo!Push
    <2>1. "patch" \in tip[cmd.opt.branch]
      BY <1>13, OptionsAre DEF Repo!Push, Place
    <2> QED BY <1>13, <2>1, IdleIs DEF Repo!Push
  <1>14. CASE Repo!UserEdits
    BY <1>14 DEF Repo!UserEdits
  <1>15. CASE Repo!Killed
    BY <1>15, IdleIs DEF Repo!Killed
  <1> QED BY <1>1, <1>2, <1>3, <1>4, <1>5, <1>6, <1>7, <1>8, <1>9, <1>10, <1>11, <1>12, <1>13, <1>14, <1>15
      DEF Repo!GitNext, Repo!Step

LEMMA BackStep ==
    ASSUME GitAssumption, GitInv, Repo!GitNext
    PROVE  Back'
  <1> USE DEF GitInv, GitTypes, Command, Back, Repo!RolledBackIsBack, Repo!Goto
  <1>1. CASE \E o \in Repo!Options : Repo!Call(o)
    BY <1>1, IdleIs DEF Repo!Call
  <1>2. CASE Repo!Inspect
    BY <1>2 DEF Repo!Inspect
  <1>3. CASE Repo!InspectFails
    BY <1>3 DEF Repo!InspectFails
  <1>4. CASE Repo!Check
    BY <1>4 DEF Repo!Check
  <1>5. CASE Repo!CheckFails
    BY <1>5 DEF Repo!CheckFails
  <1>6. CASE Repo!DeleteBranch
    BY <1>6 DEF Repo!DeleteBranch
  <1>7. CASE Repo!CreateBranch
    BY <1>7 DEF Repo!CreateBranch
  <1>8. CASE Repo!ApplyPatch
    BY <1>8 DEF Repo!ApplyPatch
  <1>9. CASE Repo!Commit
    BY <1>9 DEF Repo!Commit
  <1>10. CASE Repo!Report
    BY <1>10, IdleIs DEF Repo!Report
  <1>11. CASE Repo!Rollback
    <2>0. cmd' = Repo!Idle /\ ~art.rolledBack
      BY <1>11 DEF Repo!Rollback, Repo!ReportFailure
    <2>1. art'.rolledBack => art'.original = cmd.original
      BY <1>11, <2>0 DEF Repo!Rollback, Repo!ReportFailure
    <2>2. art'.rolledBack => head' = Repo!BackTo
      BY <1>11, <2>0 DEF Repo!Rollback, Repo!ReportFailure
    <2> QED BY <2>0, <2>1, <2>2, IdleIs DEF Repo!BackTo
  <1>12. CASE Repo!NothingToRollBack
    BY <1>12, IdleIs DEF Repo!NothingToRollBack, Repo!ReportFailure
  <1>13. CASE Repo!Push
    BY <1>13, IdleIs DEF Repo!Push
  <1>14. CASE Repo!UserEdits
    BY <1>14 DEF Repo!UserEdits
  <1>15. CASE Repo!Killed
    BY <1>15, IdleIs DEF Repo!Killed
  <1> QED BY <1>1, <1>2, <1>3, <1>4, <1>5, <1>6, <1>7, <1>8, <1>9, <1>10, <1>11, <1>12, <1>13, <1>14, <1>15
      DEF Repo!GitNext, Repo!Step

LEMMA GitInvStep ==
    ASSUME GitAssumption, GitInv, Repo!GitNext
    PROVE  GitInv'
  BY GitTypesStep, RightfulStep, PlaceStep, ContentsStep, BackStep DEF GitInv

-----------------------------------------------------------------------------
(* What is in the repository: in the tree, or in a commit of a branch or   *)
(* of the detached HEAD.                                                   *)
Kept(c) == c \in tree \/ \E h \in branches \cup {head} : c \in tip[h]

LEMMA KeptIs ==
    ASSUME NEW c \in Repo!Changes
    PROVE  /\ (c \in tree \cup Repo!Committed) <=> Kept(c)
           /\ (c \in tree \cup Repo!Committed)' <=> Kept(c)'
  BY DEF Kept, Repo!Committed

LEMMA NothingIsLost ==
    ASSUME GitAssumption, GitInv, Repo!GitNext, NEW c \in Repo!Changes, Kept(c)
    PROVE  Kept(c)' \/ Repo!ToldToDelete(c) \/ Repo!CommitDeleted(c)
  <1> USE DEF GitInv, GitTypes, Kept
  <1>1. CASE UNCHANGED <<branches, head, tip, tree>>
    BY <1>1
  <1>2. CASE Repo!DeleteBranch
    <2>1. cmd.opt.branch # head \/ UNCHANGED <<branches, tip>>
      BY <1>2 DEF Repo!DeleteBranch
    <2>2. CASE UNCHANGED <<branches, tip>>
      BY <1>2, <2>2 DEF Repo!DeleteBranch
    <2>3. CASE cmd.opt.forceBranch /\ head # cmd.opt.branch
      <3>1. cmd.pc = "branch" /\ cmd.opt.branch \in Repo!Branches /\ cmd.opt.branch # Detached
        BY <1>2, Names DEF Repo!DeleteBranch
      <3>2. branches' = branches \ {cmd.opt.branch} /\ UNCHANGED <<head, tree>>
        BY <1>2, <2>3 DEF Repo!DeleteBranch
      <3>3. \A h \in Repo!Heads : h # cmd.opt.branch => tip'[h] = tip[h]
        BY <1>2, <2>3 DEF Repo!DeleteBranch
      <3> QED BY <2>3, <3>1, <3>2, <3>3, Names DEF Repo!ToldToDelete
    <2> QED BY <1>2, <2>2, <2>3 DEF Repo!DeleteBranch
  <1>3. CASE Repo!CreateBranch
    <2>1. CASE UNCHANGED <<branches, head, tip>>
      BY <1>3, <2>1 DEF Repo!CreateBranch
    <2>2. CASE ~UNCHANGED <<branches, head, tip>>
      <3>1. /\ branches' = branches \cup {cmd.opt.branch} /\ UNCHANGED tree
            /\ tip' = [tip EXCEPT ![cmd.opt.branch] = tip[head]] /\ cmd.opt.branch \notin branches
        BY <1>3, <2>2 DEF Repo!CreateBranch
      <3>2. cmd.opt.branch \in Repo!Branches
        BY <1>3, OptionsAre DEF Repo!CreateBranch, Place, Command
      <3>3. tip'[cmd.opt.branch] = tip[head] /\ \A b \in branches : tip'[b] = tip[b]
        BY <3>1, <3>2, Names
      <3> QED BY <3>1, <3>3
    <2> QED BY <2>1, <2>2
  <1>4. CASE Repo!ApplyPatch \/ Repo!UserEdits
    BY <1>4 DEF Repo!ApplyPatch, Repo!UserEdits
  <1>5. CASE Repo!Commit
    <2>1. CASE UNCHANGED <<tip, tree>>
      BY <1>5, <2>1 DEF Repo!Commit
    <2>2. CASE ~UNCHANGED <<tip, tree>>
      <3>1. tip' = [tip EXCEPT ![head] = tip[head] \cup tree] /\ UNCHANGED <<branches, head>>
        BY <1>5, <2>2 DEF Repo!Commit
      <3>2. \A h \in Repo!Heads : tip[h] \subseteq tip'[h]
        BY <3>1
      <3>3. tree \subseteq tip'[head] /\ head \in Repo!Heads
        BY <3>1, Names
      <3> QED BY <3>1, <3>2, <3>3, Names
    <2> QED BY <2>1, <2>2
  <1>6. CASE Repo!Rollback
    <2>1. CASE UNCHANGED <<branches, head, tip>>
      BY <1>6, <2>1 DEF Repo!Rollback
    <2>2. CASE ~UNCHANGED <<branches, head, tip>>
      <3>1. PICK gone \in SUBSET {cmd.opt.branch} :
               /\ head' = Repo!BackTo /\ branches' = branches \ gone
               /\ tip' = [h \in Repo!Heads |-> IF h \in gone THEN {} ELSE tip[h]]
               /\ gone # {} => Repo!BackTo # cmd.opt.branch
        BY <1>6, <2>2 DEF Repo!Rollback
      <3>2. head = cmd.opt.branch /\ head \in branches /\ UNCHANGED tree
        BY <1>6, OptionsAre, Names DEF Repo!Rollback, Place, Command
      <3>3. \A h \in Repo!Heads : h \notin gone => tip'[h] = tip[h]
        BY <3>1
      <3>4. CASE gone = {}
        BY <3>1, <3>2, <3>3, <3>4, Names
      <3>5. CASE gone = {cmd.opt.branch}
        <4>1. cmd.original \in branches /\ cmd.original # head
          BY <1>6, <3>1, <3>2, <3>5 DEF Repo!BackTo, Repo!Rollback, Place
        <4>2. ~(c \in tip[head]) \/ c \in tip[cmd.original] => Kept(c)'
          BY <3>1, <3>2, <3>3, <3>5, <4>1, Names
        <4>3. c \in tip[head] /\ c \notin tip[cmd.original] => Repo!CommitDeleted(c)
          BY <1>6, <3>2 DEF Repo!Rollback, Repo!CommitDeleted, Place, Committable
        <4> QED BY <4>2, <4>3
      <3> QED BY <3>1, <3>4, <3>5
    <2> QED BY <2>1, <2>2
  <1> QED BY <1>1, <1>2, <1>3, <1>4, <1>5, <1>6
      DEF Repo!GitNext, Repo!Step, Repo!Call, Repo!Inspect, Repo!InspectFails, Repo!Check, Repo!CheckFails,
          Repo!Report, Repo!NothingToRollBack, Repo!Push, Repo!Killed

(* What a commit takes along besides the patch was there when the command  *)
(* looked, or came later.                                                  *)
Recorded(c) == \E h \in branches \cup {head} : c \in tip[h]

LEMMA RecordedIs ==
    ASSUME NEW c \in Repo!Changes
    PROVE  /\ c \in Repo!Committed <=> Recorded(c)
           /\ (c \in Repo!Committed)' <=> Recorded(c)'
  BY DEF Recorded, Repo!Committed

LEMMA OnlyForced ==
    ASSUME GitAssumption, GitInv, Repo!GitNext, ~Recorded("user"), Recorded("user")'
    PROVE  cmd.opt.force \/ cmd.raced
  <1> USE DEF GitInv, GitTypes, Recorded
  <1>1. CASE UNCHANGED <<branches, head, tip>>
    BY <1>1
  <1>2. CASE Repo!DeleteBranch
    <2>1. UNCHANGED head /\ branches' \subseteq branches /\ \A h \in Repo!Heads : tip'[h] \subseteq tip[h]
      BY <1>2 DEF Repo!DeleteBranch
    <2> QED BY <2>1, Names
  <1>3. CASE Repo!CreateBranch
    <2>1. CASE UNCHANGED <<branches, head, tip>>
      BY <1>1, <2>1
    <2>2. CASE ~UNCHANGED <<branches, head, tip>>
      <3>1. /\ branches' = branches \cup {cmd.opt.branch} /\ head' = cmd.opt.branch
            /\ tip' = [tip EXCEPT ![cmd.opt.branch] = tip[head]] /\ cmd.opt.branch \notin branches
        BY <1>3, <2>2 DEF Repo!CreateBranch
      <3>2. cmd.opt.branch \in Repo!Branches
        BY <1>3, OptionsAre DEF Repo!CreateBranch, Place, Command
      <3>3. tip'[cmd.opt.branch] = tip[head] /\ \A b \in branches : tip'[b] = tip[b]
        BY <3>1, <3>2, Names
      <3> QED BY <3>1, <3>3
    <2> QED BY <2>1, <2>2
  <1>4. CASE Repo!Commit
    <2>1. UNCHANGED <<branches, head>> /\ \A h \in Repo!Heads : tip'[h] \subseteq tip[h] \cup tree
      BY <1>4 DEF Repo!Commit
    <2>2. "user" \in tree
      BY <2>1, Names
    <2> QED BY <1>4, <2>2 DEF Repo!Commit, Contents
  <1>5. CASE Repo!Rollback
    <2>1. CASE UNCHANGED <<branches, head, tip>>
      BY <1>1, <2>1
    <2>2. CASE ~UNCHANGED <<branches, head, tip>>
      <3>1. /\ head' = Repo!BackTo /\ branches' \subseteq branches
            /\ \A h \in Repo!Heads : tip'[h] \subseteq tip[h]
        BY <1>5, <2>2 DEF Repo!Rollback
      <3>2. Repo!BackTo \in branches \cup {head}
        BY <1>5 DEF Repo!BackTo, Repo!Rollback, Place
      <3> QED BY <3>1, <3>2, Names
    <2> QED BY <2>1, <2>2
  <1> QED BY <1>1, <1>2, <1>3, <1>4, <1>5
      DEF Repo!GitNext, Repo!Step, Repo!Call, Repo!Inspect, Repo!InspectFails, Repo!Check, Repo!CheckFails,
          Repo!ApplyPatch, Repo!Report, Repo!NothingToRollBack, Repo!Push, Repo!UserEdits, Repo!Killed

-----------------------------------------------------------------------------
(* The repository as the run finds and leaves it.                          *)
LEMMA UntouchedIs ==
    ASSUME GitAssumption, Untouched
    PROVE  GitInv /\ ~Recorded("user") /\ \A c : ~Kept(c)
  <1>1. \A h \in Repo!Heads : tip[h] = {}
    BY DEF Untouched
  <1>2. GitTypes
    BY IdleIs, Names DEF Untouched, GitTypes, GitAssumption
  <1> QED BY <1>1, <1>2, IdleIs, Names DEF Untouched, GitInv, Rightful, Place, Contents, Back, Recorded, Kept

LEMMA Revealed ==
    ASSUME GitAssumption, Untouched, Reveal
    PROVE  GitInv' /\ ~Recorded("user")'
  <1>1. PICK r \in Repo!Repositories :
           /\ isRepo' = r.isRepo /\ branches' = r.branches /\ head' = r.head
           /\ tip' = r.tip /\ tree' = r.tree
           /\ UNCHANGED <<cmd, art, remote, calls>>
    BY DEF Reveal
  <1>2. /\ isRepo' \in BOOLEAN /\ branches' \subseteq Repo!Branches /\ head' \in branches' \cup {Detached}
        /\ tree' \in {{}, {"user"}}
    BY <1>1, Names DEF Repo!Repositories
  <1>3. tip' \in [Repo!Heads -> SUBSET Repo!Changes] /\ \A h \in Repo!Heads : tip'[h] \subseteq {"theirs"}
    BY <1>1 DEF Repo!Repositories, Repo!Changes
  <1>4. cmd' = Repo!Idle /\ art' = Repo!NoArtifact /\ remote' = {} /\ calls' = 0
    BY <1>1 DEF Untouched
  <1>5. GitTypes'
    BY <1>2, <1>3, <1>4, IdleIs DEF GitTypes, GitAssumption, Repo!Changes
  <1> QED BY <1>2, <1>3, <1>4, <1>5, IdleIs, Names
      DEF GitInv, Rightful, Place, Contents, Back, Recorded

-----------------------------------------------------------------------------
(* The run of the controller.                                              *)
Working == {"run", "review", "human", "decide", "next"}

Trying == Working \cup {"attempt"}

Att == [status : {"none", "running", "failed", "validated", "candidate", "human_approved", "rejected"},
        exit : {0, 1}, patch : Patches, review : Review \cup {NoReview},
        human : Answers \cup {"none", "skipped"},
        action : Recommendations \cup {"none"}]

-----------------------------------------------------------------------------
(* The inductive invariant of the run.                                     *)
CtrlTypes ==
    /\ pc \in Trying \cup {"classify", "plan", "finalize", "done"}
    /\ setting \in Setting
    /\ strategy \in Strategies \cup {<<>>}
    /\ tried \in [DOMAIN strategy -> Nat]
    /\ cur \in Att
    /\ k \in Nat /\ k > 0
    /\ pc \in Trying => k \in DOMAIN strategy /\ j \in 1..strategy[k]

(* How often a backend was tried: the one at work so often as the attempt  *)
(* says, those after it never.                                             *)
Count ==
    /\ pc \in {"classify", "plan"} => strategy = <<>> /\ k = 1 /\ j = 1
    /\ pc = "attempt" => tried[k] = j - 1
    /\ pc \in Working => tried[k] = j
    /\ pc \in Trying => \A i \in DOMAIN strategy : i > k => tried[i] = 0
    /\ pc = "finalize" /\ strategy # <<>> /\ winner = NoAttempt => tried[Len(strategy)] > 0

(* Why the attempt that is about to be left was not retried.               *)
Spared ==
    \/ cur.status = "failed" \/ cur.action = "retry_same_backend" \/ ~AttemptsRemain
    \/ cur.review.recommends = "escalate" \/ cur.human \in {"escalate", "fail"}
    \/ cur.action = "ask_human"

Escalated ==
    cur.action = "escalate" /\ AttemptsRemain =>
        cur.human = "escalate" \/ (cur.human \notin Answers /\ cur.review.recommends = "escalate")

Reasons ==
    /\ pc = "next" => Spared /\ Escalated
    /\ pc \in Working \ {"next"} => cur.action = "none"

Earned(a) ==
    \/ /\ a.exit = 0 /\ a.patch = "good" /\ a.review.faultless
       /\ a.review.verdict = "pass" /\ a.review.recommends = "accept"
    \/ a.human = "accept" /\ a.patch # "empty"

Evidence == winner # NoAttempt => Earned(winner)

CtrlInv == CtrlTypes /\ Count /\ Reasons /\ Evidence /\ NeverAsksUnattended

LEMMA PlansAre ==
    ASSUME StrategyAssumption, NEW s \in Strategies
    PROVE  /\ Len(s) \in Nat /\ Len(s) > 0 /\ DOMAIN s = 1..Len(s)
           /\ \A i \in DOMAIN s : s[i] \in Nat /\ s[i] > 0
  BY DEF StrategyAssumption

LEMMA PlanAtWork ==
    ASSUME StrategyAssumption, CtrlTypes, pc \in Trying
    PROVE  strategy \in Strategies
  BY DEF CtrlTypes

(* What is decided about an attempt, and why.                              *)
LEMMA DecisionIs ==
    ASSUME cur \in Att
    PROVE  /\ NextAction \in Recommendations
           /\ NextAction = "accept" => Earned(cur)
           /\ NextAction = "ask_human" => ~setting.nonInteractive
           /\ AttemptsRemain /\ NextAction # "accept" =>
                 \/ NextAction \in {"retry_same_backend", "ask_human"}
                 \/ cur.review.recommends = "escalate" \/ cur.human \in {"escalate", "fail"}
           /\ AttemptsRemain /\ NextAction = "escalate" =>
                 cur.human = "escalate" \/ (cur.human \notin Answers /\ cur.review.recommends = "escalate")
  <1> USE DEF RetryOrEscalateOrFail, Recommendations, Earned
  <1>1. CASE cur.human \in Answers
    <2>1. NextAction = AnswerDecides(cur.human)
      BY <1>1 DEF NextAction
    <2> QED BY <1>1, <2>1 DEF AnswerDecides, Override, Answers
  <1>2. CASE cur.human \notin Answers
    <2>1. NextAction = ReviewDecides(cur.review)
      BY <1>2 DEF NextAction
    <2>2. cur.human # "accept"
      BY <1>2 DEF Answers
    <2> QED BY <1>2, <2>1, <2>2 DEF ReviewDecides, Eligible, PatchAcceptable
  <1> QED BY <1>1, <1>2

LEMMA InitCtrl ==
    ASSUME SettingAssumption, Init
    PROVE  CtrlInv
  <1>1. NoAttempt \in Att
    BY DEF NoAttempt, Att, Patches
  <1> QED BY <1>1 DEF Init, SettingAssumption, CtrlInv, CtrlTypes, Count, Reasons, Evidence, NeverAsksUnattended,
                      Trying, Working, NoAttempt, Answers

(* The run is over.                                                        *)
LEMMA OverIs ==
    ASSUME CtrlTypes, Forget, pc' = "done"
    PROVE  CtrlInv'
  <1>1. NoAttempt \in Att
    BY DEF NoAttempt, Att, Patches
  <1>2. setting' \in Setting /\ setting'.nonInteractive = FALSE
    BY DEF CtrlTypes, Forget, Setting
  <1>3. DOMAIN strategy' = {} /\ tried' \in [{} -> Nat]
    BY DEF Forget
  <1> QED BY <1>1, <1>2, <1>3 DEF Forget, CtrlInv, CtrlTypes, Count, Reasons, Evidence, NeverAsksUnattended,
                      Trying, Working

LEMMA SameCtrl ==
    ASSUME CtrlInv, UNCHANGED ctrlVars
    PROVE  CtrlInv'
  BY DEF ctrlVars, locals, judged, CtrlInv, CtrlTypes, Count, Reasons, Spared, Escalated, AttemptsRemain,
         Evidence, Earned, NeverAsksUnattended

LEMMA ClassifyStep ==
    ASSUME CtrlInv, Classify
    PROVE  CtrlInv'
  BY DEF Classify, locals, judged, CtrlInv, CtrlTypes, Count, Reasons, Evidence, Earned, NeverAsksUnattended,
         Trying, Working

LEMMA MakePlanStep ==
    ASSUME StrategyAssumption, CtrlInv, MakePlan
    PROVE  CtrlInv'
  <1> USE DEF MakePlan, CtrlInv, CtrlTypes, Count, Reasons, Evidence, Earned, NeverAsksUnattended, Trying, Working
  <1>1. CASE pc' = "finalize"
    BY <1>1
  <1>2. CASE pc' = "attempt"
    <2>1. strategy' \in Strategies /\ tried' = [i \in DOMAIN strategy' |-> 0]
      BY <1>2
    <2>2. 1 \in DOMAIN strategy' /\ 1 \in 1..strategy'[1]
      BY <2>1, PlansAre
    <2> QED BY <1>2, <2>1, <2>2
  <1> QED BY <1>1, <1>2

LEMMA StartAttemptStep ==
    ASSUME StrategyAssumption, CtrlInv, StartAttempt
    PROVE  CtrlInv'
  <1> USE DEF StartAttempt, CtrlInv, CtrlTypes, Count, Reasons, Evidence, Earned, NeverAsksUnattended, Trying, Working
  <1>1. cur' \in Att /\ cur'.human = "none" /\ cur'.action = "none"
    BY DEF NoAttempt, Att, Patches
  <1>2. /\ strategy \in Strategies /\ k \in 1..Len(strategy) /\ Len(strategy) \in Nat
        /\ DOMAIN strategy = 1..Len(strategy) /\ strategy[k] \in Nat
    BY PlanAtWork, PlansAre
  <1>3. j \in Nat /\ tried'[k] = j /\ tried' \in [DOMAIN strategy -> Nat]
    BY <1>2
  <1>4. \A i \in DOMAIN strategy : i > k => tried'[i] = tried[i]
    BY <1>2
  <1> QED BY <1>1, <1>2, <1>3, <1>4 DEF Answers

LEMMA RunAttemptStep ==
    ASSUME CtrlInv, RunAttempt
    PROVE  CtrlInv'
  <1> USE DEF RunAttempt, CtrlInv, CtrlTypes, Count, Reasons, Evidence, Earned, NeverAsksUnattended, Trying, Working
  <1>1. cur' \in Att /\ cur'.human = cur.human /\ cur'.action = cur.action
    BY DEF Att
  <1> QED BY <1>1

LEMMA TakeReviewStep ==
    ASSUME CtrlInv, TakeReview
    PROVE  CtrlInv'
  <1> USE DEF TakeReview, CtrlInv, CtrlTypes, Count, Reasons, Evidence, Earned, NeverAsksUnattended, Trying, Working
  <1>1. Fallback \in Review
    BY DEF Fallback, Review, Recommendations, Setting
  <1>2. PICK r \in Review, st \in {"failed", "validated", "candidate"} :
           cur' = [cur EXCEPT !.review = r, !.status = st]
    BY <1>1
  <1>3. cur' \in Att /\ cur'.human = cur.human /\ cur'.action = cur.action
    BY <1>2 DEF Att
  <1>4. pc' \in {"human", "decide"}
    OBVIOUS
  <1> QED BY <1>3, <1>4

LEMMA AskHumanStep ==
    ASSUME CtrlInv, AskHuman
    PROVE  CtrlInv'
  <1> USE DEF AskHuman, CtrlInv, CtrlTypes, Count, Reasons, Evidence, Earned, NeverAsksUnattended, Trying, Working
  <1>1. cur' \in Att /\ cur'.action = cur.action
    BY ZenonT(40) DEF Att
  <1>2. setting.nonInteractive => cur'.human = "skipped"
    BY DEF Asks, Att
  <1> QED BY <1>1, <1>2 DEF Answers

LEMMA DecideStep ==
    ASSUME CtrlInv, Decide
    PROVE  CtrlInv'
  <1> USE DEF Decide, CtrlInv, CtrlTypes, Trying, Working
  <1>1. CASE NextAction = "accept"
    <2>1. /\ winner' = [cur EXCEPT !.action = "accept",
                               !.status = IF cur.human = "accept" THEN "human_approved" ELSE "validated"]
          /\ pc' = "finalize" /\ UNCHANGED cur /\ lastAction' = "accept"
      BY <1>1
    <2>2. Earned(winner') /\ winner'.action = "accept"
      BY <1>1, <2>1, DecisionIs DEF Earned, Att
    <2>3. winner' # NoAttempt
      BY <2>2 DEF NoAttempt
    <2> QED BY <2>1, <2>2, <2>3 DEF Count, Reasons, Evidence, Earned, NeverAsksUnattended
  <1>2. CASE NextAction # "accept"
    <2>1. cur' = [cur EXCEPT !.action = NextAction] /\ pc' = "next" /\ UNCHANGED winner /\ lastAction' = NextAction
      BY <1>2
    <2>2. cur' \in Att /\ cur'.action = NextAction /\ cur'.review = cur.review /\ cur'.human = cur.human
      BY <2>1, DecisionIs DEF Att
    <2>3. AttemptsRemain' <=> AttemptsRemain
      BY DEF AttemptsRemain
    <2>4. Spared' /\ Escalated'
      BY <1>2, <2>2, <2>3, DecisionIs DEF Spared, Escalated
    <2> QED BY <2>1, <2>2, <2>4, DecisionIs DEF Count, Reasons, Evidence, Earned, NeverAsksUnattended
  <1> QED BY <1>1, <1>2

LEMMA AttemptRaisesStep ==
    ASSUME CtrlInv, AttemptRaises
    PROVE  CtrlInv'
  <1> USE DEF AttemptRaises, CtrlInv, CtrlTypes, Trying, Working
  <1>1. /\ cur' \in Att /\ cur'.status = "failed" /\ cur'.human = cur.human /\ cur'.review = cur.review
        /\ cur'.exit = cur.exit /\ cur'.patch = cur.patch
    BY DecisionIs DEF Att
  <1>2. lastAction' \in {lastAction, NextAction}
    OBVIOUS
  <1>3. AttemptsRemain' <=> AttemptsRemain
    BY DEF AttemptsRemain
  <1>4. Spared' /\ Escalated'
    <2>1. cur'.action = "none" \/ cur'.action = NextAction
      BY DEF Att, Reasons
    <2> QED BY <1>1, <1>3, <2>1, DecisionIs DEF Spared, Escalated
  <1>5. winner' = winner \/ Earned(winner')
    BY <1>1, DecisionIs DEF Earned
  <1> QED BY <1>1, <1>2, <1>4, <1>5, DecisionIs DEF Count, Reasons, Evidence, Earned, NeverAsksUnattended

LEMMA AdvanceStep ==
    ASSUME StrategyAssumption, CtrlInv, Advance
    PROVE  CtrlInv'
  <1> USE DEF Advance, CtrlInv, CtrlTypes, Count, Reasons, Evidence, Earned, NeverAsksUnattended, Trying, Working
  <1>1. cur' = NoAttempt /\ cur' \in Att /\ cur'.human \notin Answers
    BY DEF NoAttempt, Att, Patches, Answers
  <1>2. /\ strategy \in Strategies /\ k \in 1..Len(strategy) /\ Len(strategy) \in Nat
        /\ j \in Nat /\ j > 0 /\ j <= strategy[k] /\ tried[k] = j
        /\ DOMAIN strategy = 1..Len(strategy) /\ \A i \in DOMAIN strategy : strategy[i] \in Nat /\ strategy[i] > 0
    BY PlansAre
  <1>3. CASE Continues /\ AttemptsRemain
    <2>1. j + 1 \in 1..strategy[k]
      BY <1>2, <1>3 DEF AttemptsRemain
    <2> QED BY <1>1, <1>2, <1>3, <2>1
  <1>4. CASE ~(Continues /\ AttemptsRemain) /\ MoreBackends
    <2>1. k + 1 \in DOMAIN strategy /\ 1 \in 1..strategy[k + 1] /\ tried[k + 1] = 0
      BY <1>2, <1>4 DEF MoreBackends
    <2> QED BY <1>1, <1>2, <1>4, <2>1
  <1>5. CASE ~(Continues /\ AttemptsRemain) /\ ~MoreBackends
    <2>1. winner # NoAttempt \/ k = Len(strategy)
      BY <1>2, <1>5 DEF MoreBackends
    <2> QED BY <1>1, <1>2, <1>5, <2>1
  <1> QED BY <1>3, <1>4, <1>5

LEMMA CtrlInvStep ==
    ASSUME StrategyAssumption, CtrlInv, [Next]_vars
    PROVE  CtrlInv'
  <1>1. CASE CommandStep \/ UNCHANGED vars
    BY <1>1, SameCtrl DEF CommandStep, vars
  <1>2. CASE Finalize \/ Dies
    BY <1>2, OverIs DEF Finalize, Dies, CtrlInv
  <1> QED BY <1>1, <1>2, ClassifyStep, MakePlanStep, StartAttemptStep, RunAttemptStep, TakeReviewStep,
             AskHumanStep, DecideStep, AttemptRaisesStep, AdvanceStep
          DEF Next, RunStep, RunDies, CtrlStep

-----------------------------------------------------------------------------
(* The run and the repository together.                                    *)
Delivery ==
    /\ pc # "done" => Untouched
    /\ decision.accepted \in BOOLEAN
    /\ GitInv

IInv == CtrlInv /\ Delivery

LEMMA InitIInv ==
    ASSUME GitAssumption, SettingAssumption, DeliveryInit
    PROVE  IInv
  BY InitCtrl, UntouchedIs DEF DeliveryInit, IInv, Delivery, Init, NoDecision

(* The repository stays as it is but for the commands, and the end of the  *)
(* run, when what the user has made of it is looked at.                    *)
LEMMA RepoSteps ==
    ASSUME IInv, [Next]_vars
    PROVE  \/ UNCHANGED repoVars /\ (decision' = decision \/ Untouched)
           \/ Untouched /\ Reveal
           \/ pc = "done" /\ pc' = "done" /\ decision' = decision /\ Repo!GitNext
  <1>1. CASE UNCHANGED vars
    BY <1>1 DEF vars, ctrlVars
  <1>2. CASE CommandStep
    BY <1>2 DEF CommandStep, ctrlVars
  <1>3. CASE RunDies
    BY <1>3 DEF RunDies, Dies
  <1>4. CASE RunStep
    <2>1. pc # "done"
      BY <1>4 DEF RunStep, CtrlStep, Classify, MakePlan, StartAttempt, RunAttempt, TakeReview, AskHuman, Decide,
                  AttemptRaises, Advance, Finalize
    <2> QED BY <1>4, <2>1 DEF RunStep, IInv, Delivery
  <1> QED BY <1>1, <1>2, <1>3, <1>4 DEF Next

(* A run has its decision when it is over.                                 *)
LEMMA Decided ==
    ASSUME IInv, [Next]_vars
    PROVE  /\ decision'.accepted \in BOOLEAN
           /\ pc' # "done" => UNCHANGED repoVars /\ pc # "done"
  <1>1. CASE CommandStep \/ RunDies \/ UNCHANGED vars
    BY <1>1 DEF CommandStep, RunDies, Dies, vars, ctrlVars, IInv, Delivery
  <1>2. CASE Finalize
    <2>1. decision'.accepted \in BOOLEAN
      <3>1. decision'.accepted = (winner # NoAttempt)
        BY <1>2 DEF Finalize
      <3> QED BY <3>1, Zenon
    <2> QED BY <1>2, <2>1 DEF Finalize
  <1>3. CASE RunStep /\ ~Finalize
    <2>1. decision' = decision
      BY <1>3 DEF RunStep, CtrlStep, Classify, MakePlan, StartAttempt, RunAttempt, TakeReview, AskHuman, Decide,
                  AttemptRaises, Advance
    <2>2. pc # "done"
      BY <1>3 DEF RunStep, CtrlStep, Classify, MakePlan, StartAttempt, RunAttempt, TakeReview, AskHuman, Decide,
                  AttemptRaises, Advance
    <2> QED BY <1>3, <2>1, <2>2 DEF RunStep, IInv, Delivery
  <1> QED BY <1>1, <1>2, <1>3 DEF Next

LEMMA DeliveryStep ==
    ASSUME GitAssumption, IInv, [Next]_vars
    PROVE  Delivery'
  <1>1. pc' # "done" => Untouched'
    BY Decided DEF IInv, Delivery, Untouched, repoVars
  <1>2. CASE UNCHANGED repoVars /\ decision' = decision
    <2>1. GitInv
      BY DEF IInv, Delivery
    <2>2. /\ isRepo' = isRepo /\ branches' = branches /\ head' = head /\ tip' = tip /\ tree' = tree
          /\ cmd' = cmd /\ art' = art /\ remote' = remote /\ calls' = calls /\ decision' = decision
      BY <1>2 DEF repoVars
    <2>3. GitTypes'
      BY <2>1, <2>2 DEF GitInv, GitTypes
    <2>4. Rightful' /\ Place'
      BY <2>1, <2>2 DEF GitInv, Rightful, Place, Committable
    <2>5. Contents'
      BY <2>1, <2>2 DEF GitInv, Contents
    <2>6. Back'
      BY <2>1, <2>2 DEF GitInv, Back, Repo!RolledBackIsBack
    <2> QED BY <1>1, <2>3, <2>4, <2>5, <2>6, Decided DEF Delivery, GitInv
  <1>3. CASE UNCHANGED repoVars /\ Untouched
    <2>1. Untouched'
      BY <1>3 DEF Untouched, repoVars
    <2>2. GitInv'
      <3>1. \A h \in Repo!Heads : tip'[h] = {}
        BY <2>1 DEF Untouched
      <3> QED BY <1>3, <2>1, <3>1, UntouchedIs, IdleIs
          DEF Untouched, repoVars, GitInv, GitTypes, Rightful, Place, Contents, Back
    <2> QED BY <1>1, <2>2, Decided DEF Delivery
  <1>4. CASE Untouched /\ Reveal
    BY <1>1, <1>4, Revealed, Decided DEF Delivery
  <1>5. CASE pc' = "done" /\ Repo!GitNext
    BY <1>5, GitInvStep, Decided DEF Delivery, IInv
  <1>6. CASE UNCHANGED repoVars /\ decision' = decision /\ ~Untouched
    BY <1>1, <1>2, <1>6
  <1> QED BY <1>1, <1>2, <1>3, <1>4, <1>5, RepoSteps, Decided DEF Delivery

THEOREM RunInvariant == Spec => []IInv
  <1>1. DeliveryInit => IInv
    BY InitIInv, GitAssumption, SettingAssumption
  <1>2. IInv /\ [Next]_vars => IInv'
    BY CtrlInvStep, DeliveryStep, StrategyAssumption, GitAssumption DEF IInv
  <1> QED BY <1>1, <1>2, PTL DEF Spec

-----------------------------------------------------------------------------
(* What the run accepts rests on evidence, it gives up only after its last *)
(* backend, it asks nobody when it is told not to (decide_next_action);    *)
(* the repository has the patch only when it was accepted, and a failure   *)
(* that says so is rolled back (safe_apply).                               *)
THEOREM RunAndDelivery == Spec => []ControllerInv
  <1>1. ASSUME IInv PROVE TypeOK
    <2>1. Repo!GitTypeOK
      <3>1. cmd \in Command /\ art \in Artifact
        BY <1>1 DEF IInv, Delivery, GitInv, GitTypes
      <3>2. cmd.opt \in Repo!Options /\ cmd.original \in Repo!Heads /\ art.exit \in {"none", "ok", "failed"}
            /\ cmd.pc \in {"idle", "inspect", "check", "branch", "apply", "commit", "applied", "push", "failed"}
        BY <3>1 DEF Command, Artifact
      <3>3. calls \in 0..MaxCalls
        BY <1>1, GitAssumption DEF IInv, Delivery, GitInv, GitTypes, GitAssumption
      <3> QED BY <1>1, <3>2, <3>3 DEF IInv, Delivery, GitInv, GitTypes, Repo!GitTypeOK
    <2>2. cur.review \in Review \cup {NoReview}
      BY <1>1 DEF IInv, CtrlInv, CtrlTypes, Att
    <2>3. DOMAIN tried = DOMAIN strategy
      BY <1>1 DEF IInv, CtrlInv, CtrlTypes
    <2> QED BY <1>1, <2>1, <2>2, <2>3 DEF IInv, CtrlInv, CtrlTypes, TypeOK, Trying, Working
  <1>2. ASSUME IInv PROVE AcceptedOnEvidence /\ GivesUpAtTheEnd /\ NeverAsksUnattended
    BY <1>2 DEF IInv, CtrlInv, Evidence, Earned, Count, AcceptedOnEvidence, GivesUpAtTheEnd
  <1>3. ASSUME IInv PROVE RolledBackIsBack
    BY <1>3 DEF IInv, Delivery, GitInv, Back, RolledBackIsBack, Repo!RolledBackIsBack
  <1>4. ASSUME IInv PROVE DeliveredIsAccepted
    <2>1. "patch" \in Repo!Changes
      BY DEF Repo!Changes
    <2>2. GitTypes /\ Rightful /\ Contents
      BY <1>4 DEF IInv, Delivery, GitInv
    <2>3. \A h \in branches \cup {head} : h \in Repo!Heads
      BY <2>2, Names, GitAssumption DEF GitTypes
    <2>4. Kept("patch") => decision.accepted
      BY <2>2, <2>3 DEF Rightful, Kept
    <2> QED BY <2>1, <2>2, <2>4, KeptIs DEF Contents, DeliveredIsAccepted, Repo!DeliveredIsAccepted
  <1>5. IInv => ControllerInv
    BY <1>1, <1>2, <1>3, <1>4 DEF ControllerInv
  <1> QED BY <1>5, RunInvariant, PTL

LEMMA OnlyAdvanceMoves ==
    ASSUME IInv, [Next]_vars, k' > k \/ (pc = "next" /\ pc' = "attempt")
    PROVE  Advance
  <1>1. k \in Nat /\ k > 0
    BY DEF IInv, CtrlInv, CtrlTypes
  <1>2. CASE UNCHANGED vars \/ CommandStep
    BY <1>1, <1>2 DEF vars, CommandStep, ctrlVars, locals
  <1>3. CASE RunDies \/ Finalize
    BY <1>1, <1>3 DEF RunDies, Dies, Finalize, Forget
  <1>4. CASE Classify \/ MakePlan \/ StartAttempt \/ RunAttempt \/ TakeReview
    <2>1. k' = k
      BY <1>4 DEF Classify, MakePlan, StartAttempt, RunAttempt, TakeReview, locals
    <2>2. pc # "next"
      BY <1>4 DEF Classify, MakePlan, StartAttempt, RunAttempt, TakeReview
    <2> QED BY <1>1, <2>1, <2>2
  <1>5. CASE AskHuman \/ Decide \/ AttemptRaises
    <2>1. k' = k
      BY <1>5 DEF AskHuman, Decide, AttemptRaises
    <2>2. pc # "next"
      BY <1>5 DEF AskHuman, Decide, AttemptRaises
    <2> QED BY <1>1, <2>1, <2>2
  <1> QED BY <1>2, <1>3, <1>4, <1>5 DEF Next, RunStep, CtrlStep

(* The controller leaves a backend with attempts to spare only for one of  *)
(* the reasons that there are (decide_next_action, and the end of the loop *)
(* body in CostPolicyVillaniOps.run).                                      *)
THEOREM BackendsAreUsed == Spec => NoAttemptWasted
  <1> DEFINE Used == k' > k /\ tried[k] < strategy[k] =>
                        \/ cur.review.recommends = "escalate" \/ cur.human \in {"escalate", "fail"}
                        \/ cur.action = "ask_human" \/ cur.status = "failed"
  <1>1. ASSUME IInv, [Next]_vars PROVE Used
    <2>1. SUFFICES ASSUME k' > k, tried[k] < strategy[k]
                   PROVE  \/ cur.review.recommends = "escalate" \/ cur.human \in {"escalate", "fail"}
                          \/ cur.action = "ask_human" \/ cur.status = "failed"
      OBVIOUS
    <2>2. Advance /\ pc = "next"
      BY <1>1, <2>1, OnlyAdvanceMoves DEF Advance
    <2>3. tried[k] = j /\ k \in Nat
      BY <1>1, <2>2 DEF IInv, CtrlInv, CtrlTypes, Count, Working
    <2>4. AttemptsRemain
      BY <2>1, <2>3 DEF AttemptsRemain
    <2>5. ~Continues
      BY <2>1, <2>2, <2>3, <2>4 DEF Advance
    <2>6. Spared
      BY <1>1, <2>2 DEF IInv, CtrlInv, Reasons
    <2> QED BY <2>4, <2>5, <2>6 DEF Spared, Continues
  <1>2. IInv /\ [Next]_vars => [Used]_vars
    BY <1>1
  <1> HIDE DEF Used
  <1>3. Spec => [][Used]_vars
    BY <1>2, RunInvariant, PTL DEF Spec
  <1> QED BY <1>3 DEF NoAttemptWasted, Used

(* An escalation is followed: the next attempt is on another backend       *)
(* (decide_next_action).                                                   *)
THEOREM EscalationsFollowed == Spec => EscalationMovesOn
  <1> DEFINE Moves == pc = "next" /\ cur.action = "escalate" /\ pc' = "attempt" =>
                        \/ k' > k
                        \/ cur.human = "escalate" /\ cur.review.recommends = "retry_same_backend"
  <1>1. ASSUME IInv, [Next]_vars PROVE Moves
    <2>1. SUFFICES ASSUME pc = "next", cur.action = "escalate", pc' = "attempt", ~(k' > k)
                   PROVE  cur.human = "escalate" /\ cur.review.recommends = "retry_same_backend"
      OBVIOUS
    <2>2. Advance /\ k \in Nat
      BY <1>1, <2>1, OnlyAdvanceMoves DEF IInv, CtrlInv, CtrlTypes
    <2>3. Continues /\ AttemptsRemain
      BY <2>1, <2>2 DEF Advance
    <2>4. Escalated
      BY <1>1, <2>1 DEF IInv, CtrlInv, Reasons
    <2> QED BY <2>1, <2>3, <2>4 DEF Escalated, Continues, Answers
  <1>2. IInv /\ [Next]_vars => [Moves]_vars
    BY <1>1
  <1> HIDE DEF Moves
  <1>3. Spec => [][Moves]_vars
    BY <1>2, RunInvariant, PTL DEF Spec
  <1> QED BY <1>3 DEF EscalationMovesOn, Moves

(* Whatever fails, is killed or is edited meanwhile, no command loses a    *)
(* change, unless it is told to delete the branch that has it, or deletes  *)
(* its own branch because something failed after the commit (safe_apply).  *)
THEOREM NoWorkIsLost == Spec => WorkKept
  <1> DEFINE Keeps == \A c \in Repo!Changes : c \in tree \cup Repo!Committed =>
                         c \in (tree \cup Repo!Committed)' \/ Repo!ToldToDelete(c) \/ Repo!CommitDeleted(c)
  <1>1. ASSUME IInv, [Next]_vars PROVE [Keeps]_(Repo!gitVars)
    <2>1. SUFFICES ASSUME ~UNCHANGED repoVars, NEW c \in Repo!Changes, Kept(c)
                   PROVE  Kept(c)' \/ Repo!ToldToDelete(c) \/ Repo!CommitDeleted(c)
      BY KeptIs DEF repoVars, Repo!gitVars
    <2>2. CASE Untouched
      BY <2>1, <2>2, UntouchedIs, GitAssumption
    <2>3. CASE Repo!GitNext
      BY <1>1, <2>1, <2>3, NothingIsLost, GitAssumption DEF IInv, Delivery
    <2> QED BY <1>1, <2>1, <2>2, <2>3, RepoSteps
  <1>2. IInv /\ [Next]_vars => [Keeps]_(Repo!gitVars)
    BY <1>1
  <1> HIDE DEF Keeps
  <1>3. Spec => [][Keeps]_(Repo!gitVars)
    BY <1>2, RunInvariant, PTL DEF Spec
  <1> QED BY <1>3 DEF WorkKept, Repo!WorkKept, Keeps

(* Uncommitted work of the user's gets into a commit only with --force, or *)
(* when it was typed after the command had looked (safe_apply).            *)
THEOREM UserWorkStaysOut == Spec => OnlyThePatchIsCommitted
  <1> DEFINE Out == "user" \notin Repo!Committed /\ "user" \in Repo!Committed' => cmd.opt.force \/ cmd.raced
  <1>1. ASSUME IInv, [Next]_vars PROVE [Out]_(Repo!gitVars)
    <2>1. "user" \in Repo!Changes
      BY DEF Repo!Changes
    <2>2. SUFFICES ASSUME ~UNCHANGED repoVars, ~Recorded("user"), Recorded("user")'
                   PROVE  cmd.opt.force \/ cmd.raced
      BY <2>1, RecordedIs DEF repoVars, Repo!gitVars
    <2>3. CASE Untouched /\ Reveal
      BY <2>2, <2>3, Revealed, GitAssumption
    <2>4. CASE Repo!GitNext
      BY <1>1, <2>2, <2>4, OnlyForced, GitAssumption DEF IInv, Delivery
    <2> QED BY <1>1, <2>2, <2>3, <2>4, RepoSteps
  <1>2. IInv /\ [Next]_vars => [Out]_(Repo!gitVars)
    BY <1>1
  <1> HIDE DEF Out
  <1>3. Spec => [][Out]_(Repo!gitVars)
    BY <1>2, RunInvariant, PTL DEF Spec
  <1> QED BY <1>3 DEF OnlyThePatchIsCommitted, Repo!OnlyThePatchIsCommitted, Out
================================================================================
